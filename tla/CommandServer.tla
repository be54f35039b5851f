---------------------------- MODULE CommandServer ----------------------------
(***************************************************************************)
(* What core 1 promises core 0: every command it accepts is handled once,  *)
(* by the handler of that command, and commands of one class (those that   *)
(* travel the same way) are handled in the order they were accepted.  A    *)
(* chip reset forgets everything.                                          *)
(***************************************************************************)
EXTENDS Naturals, Sequences

CONSTANT
    Class        \* command -> the class it is served in

VARIABLES
    sent,   \* the commands accepted since boot: request r is sent[r]
    ans     \* the requests handled, in order, each with the handler that ran

vars == <<sent, ans>>

Init == sent = <<>> /\ ans = <<>>

Waiting == {r \in DOMAIN sent : \A i \in DOMAIN ans : ans[i].req # r}

Accept(c) == sent' = Append(sent, c) /\ UNCHANGED ans

(* The oldest waiting command of a class is handled.                       *)
Serve(r) ==
    /\ r \in Waiting
    /\ \A q \in Waiting : Class[sent[q]] = Class[sent[r]] => r <= q
    /\ ans' = Append(ans, [req |-> r, fn |-> sent[r]])
    /\ UNCHANGED sent

Reset == sent' = <<>> /\ ans' = <<>>

Next == \/ \E c \in DOMAIN Class : Accept(c)
        \/ \E r \in DOMAIN sent : Serve(r)
        \/ Reset

Spec == Init /\ [][Next]_vars
=============================================================================
