------------------------------ MODULE ParkToken ------------------------------
(***************************************************************************)
(* What a Parker promises: a token that unpark makes available, and that   *)
(* park waits for and consumes.                                            *)
(***************************************************************************)
VARIABLES token,  \* TRUE while the token is available
          result  \* "pending" in a call of park, or how the last one ended

vars == <<token, result>>

Init == token = FALSE /\ result = "none"

Park == result # "pending" /\ result' = "pending" /\ UNCHANGED token

Unpark == token' = TRUE /\ UNCHANGED result

\* The token is consumed by the call that it ends, and by no other.
Take == result = "pending" /\ token /\ token' = FALSE /\ result' = "unparked"

\* The time is up; the token, if it is there, stays for the next call.
TimeOut == result = "pending" /\ result' = "timeout" /\ UNCHANGED token

Next == Park \/ Unpark \/ Take \/ TimeOut

Spec == Init /\ [][Next]_vars
=============================================================================
