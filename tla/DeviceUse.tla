------------------------------ MODULE DeviceUse ------------------------------
(***************************************************************************)
(* What one device promises the sessions that use it one after another: a  *)
(* session is set up, used and closed, and while it is used the browser on *)
(* the device is its own.  The pool relies on no more than this.           *)
(***************************************************************************)
EXTENDS Naturals

VARIABLES
    use,      \* "free", "setup", "using" or "closing"
    user,     \* the number of the latest session
    browser   \* the session whose browser runs on the device, 0 for none

vars == <<use, user, browser>>

Init == use = "free" /\ user = 0 /\ browser = 0

Begin ==
    /\ use = "free" /\ use' = "setup"
    /\ user' = user + 1
    /\ UNCHANGED browser

(* The setup stops a browser it finds, and starts its own.                 *)
Prepare ==
    /\ use = "setup"
    /\ browser' \in {0, user}
    /\ UNCHANGED <<use, user>>

(* The caller gets a browser, and it is this session's.                    *)
Ready ==
    /\ use = "setup" /\ browser = user
    /\ use' = "using"
    /\ UNCHANGED <<user, browser>>

(* A session that ends, or fails, is closed; one that is cut short may     *)
(* leave its browser, or the one it found, behind.                         *)
End ==
    /\ use \in {"setup", "using"}
    /\ use' \in {"closing", "free"}
    /\ UNCHANGED <<user, browser>>

Close ==
    /\ use = "closing"
    /\ use' \in {"closing", "free"}
    /\ browser' \in {0, browser}
    /\ UNCHANGED user

Restart ==
    /\ use = "free"
    /\ browser' = 0
    /\ UNCHANGED <<use, user>>

Next == Begin \/ Prepare \/ Ready \/ End \/ Close \/ Restart

(* Every step of an implementation is one of these or leaves the view as   *)
(* it is.                                                                  *)
Safety == Init /\ [][Next]_vars
=============================================================================
