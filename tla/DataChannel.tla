----------------------------- MODULE DataChannel -----------------------------
(***************************************************************************)
(* What data queues promise to those who use them: a queue keeps the data  *)
(* that were accepted, in their order, and after them those of the senders *)
(* that wait.  Nothing is lost, duplicated or overtaken, but for a forced  *)
(* send into a full buffer, which discards the oldest datum and passes the *)
(* senders that wait, and for reinitialization.                            *)
(***************************************************************************)
EXTENDS Naturals, Sequences, SequencesExt

CONSTANTS Chan, Data,
          capacity        \* of each channel
VARIABLES buffer,         \* what each has accepted
          pending         \* what its waiting senders have

Change(c, buf, pend) ==
  /\ buffer' = [buffer EXCEPT ![c] = buf]
  /\ pending' = [pending EXCEPT ![c] = pend]

Init == /\ buffer = [c \in Chan |-> << >>]
        /\ pending = [c \in Chan |-> << >>]

\* One datum, or several at once, all of them or none.
Accept(c, xs) ==
  /\ Len(buffer[c]) + Len(xs) <= capacity[c]
  /\ pending[c] = << >>
  /\ Change(c, buffer[c] \o xs, << >>)

\* A sender that waits takes its place by arrival or by priority.
Wait(c, x, i) ==
  /\ Len(buffer[c]) = capacity[c]
  /\ Change(c, buffer[c], InsertAt(pending[c], i, x))

\* A wait to send ends without success.
Withdraw(c, i) == Change(c, buffer[c], RemoveAt(pending[c], i))

\* The place of a sender changes with its priority.
Move(c, i, j) ==
  Change(c, buffer[c], InsertAt(RemoveAt(pending[c], i), j, pending[c][i]))

\* The oldest datum goes; the first sender that waits gets the place.
Take(c) ==
  /\ buffer[c] # << >>
  /\ IF pending[c] = << >> THEN Change(c, Tail(buffer[c]), << >>)
     ELSE Change(c, Append(Tail(buffer[c]), Head(pending[c])), Tail(pending[c]))

TakeUnbuffered(c) ==
  /\ buffer[c] = << >> /\ pending[c] # << >>
  /\ Change(c, << >>, Tail(pending[c]))

Overwrite(c, x) ==
  /\ Len(buffer[c]) = capacity[c] /\ capacity[c] > 0
  /\ Change(c, Append(Tail(buffer[c]), x), pending[c])

Reset(c) == pending[c] = << >> /\ Change(c, << >>, << >>)

Next ==
  \E c \in Chan :
    \/ \E x \in Data : \/ Accept(c, << x >>) \/ Overwrite(c, x)
                       \/ \E y \in Data : Accept(c, << x, y >>)
                       \/ \E i \in 1 .. Len(pending[c]) + 1 : Wait(c, x, i)
    \/ \E i \in DOMAIN pending[c] : \/ Withdraw(c, i)
                                    \/ \E j \in DOMAIN pending[c] : Move(c, i, j)
    \/ Take(c) \/ TakeUnbuffered(c)
    \/ Reset(c)

Spec == Init /\ [][Next]_<< buffer, pending >>
=============================================================================
