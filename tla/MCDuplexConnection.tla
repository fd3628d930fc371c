-------------------------- MODULE MCDuplexConnection --------------------------
(* Small instances of DuplexConnection for TLC. *)
EXTENDS DuplexConnection

Request(end, kind) == [end |-> end, kind |-> kind, framed |-> TRUE]
Unframed(end, kind) == [end |-> end, kind |-> kind, framed |-> FALSE]

\* More requests than allowed, two of them of two cells, and more cells than both
\* sockets hold; an upgrade; a closing request with one behind it; a refused request
\* that goes on; bodies without framing, with requests before and behind them.
MCScripts ==
  {<<Request(1, "plain"), Request(3, "plain"), Request(4, "plain"), Request(6, "plain")>>,
   <<Request(1, "plain"), Request(3, "upgrade")>>,
   <<Request(2, "close"), Request(3, "plain")>>,
   <<Request(1, "plain"), Request(3, "bad")>>,
   <<Unframed(2, "plain"), Request(3, "upgrade")>>,
   <<Request(1, "plain"), Unframed(4, "plain"), Request(5, "plain")>>}
===============================================================================
