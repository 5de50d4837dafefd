--------------------------- MODULE RequestService ----------------------------
(***************************************************************************)
(* What callers may rely on when they have orders carried out elsewhere,   *)
(* without connections, lines, timeouts or restarts: a request is sent     *)
(* once and not before the ones sent earlier are settled; what was sent is *)
(* carried out once and in the order of sending, or never; and its caller  *)
(* learns that it was carried out, or that it failed, which tells nothing  *)
(* of what becomes of it.                                                  *)
(***************************************************************************)
EXTENDS Integers, Sequences

CONSTANTS Ids, Failed

VARIABLES
    sent,        \* the requests sent, in order
    executed,    \* the requests carried out, in order
    answer       \* request -> 0, Failed or the request its answer was for

serviceVars == <<sent, executed, answer>>

\* Request i is the n-th that was sent.
Sent(i, n) == n \in DOMAIN sent /\ sent[n] = i

Init == sent = <<>> /\ executed = <<>> /\ answer = [i \in Ids |-> 0]

Send(i) ==
    /\ answer[i] = 0
    /\ \A n \in DOMAIN sent : answer[sent[n]] # 0
    /\ sent' = Append(sent, i)
    /\ UNCHANGED <<executed, answer>>

\* Whatever was carried out before had been sent before.
Execute(i) ==
    /\ \E n \in DOMAIN sent :
         Sent(i, n) /\ \A k \in DOMAIN executed : \E m \in 1 .. n - 1 : Sent(executed[k], m)
    /\ executed' = Append(executed, i)
    /\ UNCHANGED <<sent, answer>>

Answer(i) ==
    /\ answer[i] = 0 /\ \E k \in DOMAIN executed : executed[k] = i
    /\ answer' = [answer EXCEPT ![i] = i]
    /\ UNCHANGED <<sent, executed>>

Fail(i) ==
    /\ answer[i] = 0
    /\ answer' = [answer EXCEPT ![i] = Failed]
    /\ UNCHANGED <<sent, executed>>

Step == \E i \in Ids : Send(i) \/ Execute(i) \/ Answer(i) \/ Fail(i)

\* Every step changes something; asked first, it spares the search for one that did not.
Next == serviceVars' # serviceVars /\ Step

Spec == Init /\ [][Next]_serviceVars

=============================================================================
