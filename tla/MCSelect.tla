------------------------------ MODULE MCSelect ------------------------------
(* Small instances of Select: the selects of lib/slug/channel.slug and a few *)
(* a program would write itself, over one unbuffered and one buffered        *)
(* channel.                                                                  *)
EXTENDS Select

CONSTANTS c0, c1, t1

MCCapacity == (c0 :> 0) @@ (c1 :> 1)

Recv(c) == [kind |-> "recv", of |-> c]
Send(c) == [kind |-> "send", of |-> c]
AwaitTask(t) == [kind |-> "await", of |-> t]
After(n) == [kind |-> "after", ms |-> n]
Default == [kind |-> "default"]

\* send, trySend, recv with and without timeout, tryRecv, await
LibraryForms ==
  {<<Send(c1)>>, <<Send(c1), Default>>, <<Send(c0)>>,
   <<Recv(c1), After(0)>>, <<Recv(c1), After(1)>>, <<Recv(c0), After(0)>>,
   <<Recv(c0), Default>>, <<AwaitTask(t1), After(1)>>}

\* Selects over several channels, as in ADR-025 and ADR-026.
MixedForms ==
  {<<Send(c0)>>, <<Send(c1)>>, <<Recv(c0), Recv(c1), After(1)>>,
   <<Recv(c1), Send(c0), Default>>, <<AwaitTask(t1), Recv(c1)>>}

AllForms == LibraryForms \cup MixedForms

\* `after 0` before another case.
EarlyAfterForms == {<<Send(c1)>>, <<After(0), Recv(c1)>>}

SendForms == {<<Send(c0)>>, <<Send(c1)>>, <<Recv(c0), After(0)>>, <<Recv(c1), After(0)>>}
=============================================================================
