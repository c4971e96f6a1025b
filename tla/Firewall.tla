------------------------------ MODULE Firewall ------------------------------
(***************************************************************************)
(* The rules against address leaks: RootOps.apply_ipv6_block,              *)
(* apply_webrtc_block and remove_webrtc_block, as _root_hardening runs     *)
(* them before a session connects to Chrome.                               *)
(*                                                                         *)
(* The clients are the browsers in one network namespace: two devices on   *)
(* the host network under WSL, or Chrome and the WebView shell of one      *)
(* device.  They share one rule table, nobody holds a lock on it, and each *)
(* adb command is a step.  A check is asked with allow_failure, so a lost  *)
(* answer is the empty string, which iptables -C also answers for "yes".   *)
(***************************************************************************)
EXTENDS Naturals, Sequences, FiniteSets

CONSTANTS
    Client,
    UserIds,       \* the ways Android may number the browsers' users
    MaxWrong,      \* bound on what goes wrong in the sessions under way
    MaxSessions    \* bound on the sessions of a client

ASSUME FirewallAssumption ==
    /\ UserIds \subseteq [Client -> Nat \ {0}]
    /\ MaxWrong \in Nat /\ MaxSessions \in Nat

VARIABLES
    filter,    \* the kernel has the iptables filter table
    hasOwner,  \* and the xt_owner match
    uid,       \* the user id of each client
    rules,     \* the OUTPUT chain, as far as these functions write it
    v6,        \* which parts of IPv6 are off
    session,   \* the sessions a client has begun
    mode,      \* "block" or "spoof" (DAMRU_WEBRTC_JS_SPOOF)
    known,     \* the client's user id was found out
    tries,     \* attempts of the current hardening step that have failed
    pc,        \* the client's next command
    wrong,     \* what went wrong in the client's session (for the properties)
    robbed,    \* another client has removed a rule since it began (for the same)
    v6Failed   \* turning IPv6 off has failed or was cut half-way (for the same)

kernel == <<filter, hasOwner, uid>>
vars == <<filter, hasOwner, uid, rules, v6, session, mode, known, tries, pc,
          wrong, robbed, v6Failed>>

Part == {"all", "rest", "tables"}     \* in the order they are turned off

MaxTries == 3

(* The rules: ACCEPT for a user's DNS, DROP for a user's UDP, DROP for all *)
(* UDP to high ports (with the TCP ports of STUN).                         *)
Dns(u)  == [kind |-> "dns", uid |-> u]
Drop(u) == [kind |-> "drop", uid |-> u]
High    == [kind |-> "high", uid |-> 0]

Rule == [kind : {"dns", "drop", "high"}, uid : Nat]

V6PC == {"v6check", "v6all", "v6rest", "v6tables"}
WebPC == {"table", "uid", "clean", "dnsCheck", "dnsInsert", "dropCheck", "dropInsert",
          "highCheck", "highInsert", "remove", "removeHigh"}

TypeOK ==
    /\ filter \in BOOLEAN /\ hasOwner \in BOOLEAN /\ uid \in UserIds
    /\ rules \in Seq(Rule) /\ v6 \subseteq Part
    /\ session \in [Client -> 0..MaxSessions]
    /\ mode \in [Client -> {"block", "spoof"}] /\ known \in [Client -> BOOLEAN]
    /\ tries \in [Client -> 0..MaxTries - 1]
    /\ pc \in [Client -> {"idle", "user"} \cup V6PC \cup WebPC]
    /\ wrong \in [Client -> SUBSET {"answer", "command"}]
    /\ robbed \in [Client -> BOOLEAN] /\ v6Failed \in BOOLEAN

Init ==
    /\ filter \in BOOLEAN /\ hasOwner \in BOOLEAN /\ uid \in UserIds
    /\ rules = <<>> /\ v6 = {}
    /\ session = [c \in Client |-> 0] /\ mode = [c \in Client |-> "block"]
    /\ known = [c \in Client |-> FALSE] /\ tries = [c \in Client |-> 0]
    /\ pc = [c \in Client |-> "idle"]
    /\ wrong = [c \in Client |-> {}] /\ robbed = [c \in Client |-> FALSE]
    /\ v6Failed = FALSE

Has(chain, r) == \E i \in 1..Len(chain) : chain[i] = r

Go(c, next) == pc' = [pc EXCEPT ![c] = next]

GoWrong(c, x) ==
    /\ Cardinality({y \in Client \X {"answer", "command"} : y[2] \in wrong[y[1]]})
           < MaxWrong
    /\ x \notin wrong[c]
    /\ wrong' = [wrong EXCEPT ![c] = @ \cup {x}]

-----------------------------------------------------------------------------
(* Sessions, and the attempts of a hardening step.                         *)

Begin(c) ==
    /\ pc[c] = "idle" /\ session[c] < MaxSessions
    /\ session' = [session EXCEPT ![c] = @ + 1]
    /\ \E m \in {"block", "spoof"} : mode' = [mode EXCEPT ![c] = m]
    /\ Go(c, "v6check")
    /\ UNCHANGED <<kernel, rules, v6, known, tries, wrong, robbed, v6Failed>>

WebStart(c) == IF mode[c] = "block" THEN "table" ELSE "remove"

(* The step is done, or skipped after its last attempt: the next one.      *)
Done(c) ==
    /\ Go(c, IF pc[c] \in V6PC THEN WebStart(c) ELSE "user")
    /\ tries' = [tries EXCEPT ![c] = 0]

(* A command raises: the step runs again from its first command, three     *)
(* times in all, and is then skipped with a warning.                       *)
Raise(c) ==
    IF tries[c] = MaxTries - 1 THEN Done(c)
    ELSE /\ tries' = [tries EXCEPT ![c] = @ + 1]
         /\ Go(c, IF pc[c] \in V6PC THEN "v6check" ELSE WebStart(c))

(* A command whose transport breaks, before or after it took effect.       *)
CommandFails(c) == GoWrong(c, "command") /\ Raise(c)

(* The end of the session, or a cut anywhere in its set-up.                *)
End(c) ==
    /\ pc[c] # "idle"
    /\ Go(c, "idle")
    /\ v6Failed' = (v6Failed \/ pc[c] \in {"v6rest", "v6tables"})
    /\ wrong' = [wrong EXCEPT ![c] = {}] /\ robbed' = [robbed EXCEPT ![c] = FALSE]
    /\ known' = [known EXCEPT ![c] = FALSE] /\ tries' = [tries EXCEPT ![c] = 0]
    /\ UNCHANGED <<kernel, rules, v6, session, mode>>

-----------------------------------------------------------------------------
(* apply_ipv6_block.                                                       *)

(* Only the first of its settings is looked at.                            *)
CheckV6(c) ==
    /\ pc[c] = "v6check"
    /\ \/ "all" \in v6 /\ Done(c) /\ UNCHANGED wrong
       \/ "all" \notin v6 /\ Go(c, "v6all") /\ UNCHANGED <<tries, wrong>>
       \/ "all" \in v6 /\ GoWrong(c, "answer") /\ Go(c, "v6all") /\ UNCHANGED tries
    /\ UNCHANGED <<kernel, rules, v6, session, mode, known, robbed, v6Failed>>

V6PCOf(part) ==
    CASE part = "all" -> "v6all" [] part = "rest" -> "v6rest" [] OTHER -> "v6tables"

(* A mutant: the settings of the other interfaces are left out.            *)
V6NextSkipping(part) == IF part = "all" THEN "v6tables" ELSE "done"

V6Next(part) ==
    CASE part = "all" -> "v6rest" [] part = "rest" -> "v6tables" [] OTHER -> "done"

TurnOffV6(c, part) ==
    /\ pc[c] = V6PCOf(part)
    /\ \/ /\ v6' = v6 \cup {part}
          /\ IF part = "tables" THEN Done(c) ELSE Go(c, V6Next(part)) /\ UNCHANGED tries
          /\ UNCHANGED <<wrong, v6Failed>>
       \/ v6' \in {v6, v6 \cup {part}} /\ CommandFails(c) /\ v6Failed' = TRUE
    /\ UNCHANGED <<kernel, rules, session, mode, known, robbed>>

-----------------------------------------------------------------------------
(* apply_webrtc_block.                                                     *)

Same == UNCHANGED <<kernel, v6, session, mode, v6Failed>>

(* Without a filter table the step ends with a warning.                    *)
CheckTable(c) ==
    /\ pc[c] = "table"
    /\ IF filter THEN Go(c, "uid") /\ UNCHANGED tries ELSE Done(c)
    /\ UNCHANGED <<rules, known, wrong, robbed>> /\ Same

(* Without the user id only the port rules remain.                         *)
FindUid(c) ==
    /\ pc[c] = "uid"
    /\ \/ known' = [known EXCEPT ![c] = TRUE] /\ Go(c, "clean") /\ UNCHANGED wrong
       \/ known' = [known EXCEPT ![c] = FALSE] /\ Go(c, "highCheck") /\ GoWrong(c, "answer")
    /\ UNCHANGED <<rules, tries, robbed>> /\ Same

(* A chain without its first r, as iptables -D leaves it.                  *)
Without(chain, r) ==
    IF ~Has(chain, r) THEN chain
    ELSE LET i == CHOOSE i \in 1..Len(chain) :
                      chain[i] = r /\ \A j \in 1..i - 1 : chain[j] # r
         IN  SubSeq(chain, 1, i - 1) \o SubSeq(chain, i + 1, Len(chain))

(* Whoever relies on r loses it.                                           *)
Gone(c, r) ==
    /\ rules' = Without(rules, r)
    /\ robbed' = [d \in Client |-> robbed[d] \/ (d # c /\ pc[d] # "idle" /\ Has(rules, r))]

(* iptables -D r || true.                                                  *)
Delete(c, r, next) ==
    \/ /\ Gone(c, r) /\ UNCHANGED wrong
       /\ IF next = "done" THEN Done(c) ELSE Go(c, next) /\ UNCHANGED tries
    \/ CommandFails(c) /\ (Gone(c, r) \/ UNCHANGED <<rules, robbed>>)

(* iptables -C r: skip to "yes" if the rule is there or no answer comes.   *)
Check(c, r, works, yes, no) ==
    \/ /\ IF works /\ Has(rules, r)
          THEN IF yes = "done" THEN Done(c) ELSE Go(c, yes) /\ UNCHANGED tries
          ELSE Go(c, no) /\ UNCHANGED tries
       /\ UNCHANGED wrong
    \/ /\ ~(works /\ Has(rules, r)) /\ GoWrong(c, "answer")
       /\ IF yes = "done" THEN Done(c) ELSE Go(c, yes) /\ UNCHANGED tries

(* iptables -I r: at the head of the chain.  A second copy, from a command *)
(* that a broken transport repeats, changes nothing here.                  *)
Inserted(r) == rules' = <<r>> \o rules

(* A command that fails may have done its work.                            *)
MaybeInserted(r) == Inserted(r) \/ UNCHANGED rules

(* A mutant: the whole chain is flushed, other clients' rules too.         *)
FlushRules(c) ==
    /\ pc[c] = "clean"
    /\ rules' = <<>>
    /\ Go(c, "dnsCheck")
    /\ UNCHANGED <<known, tries, wrong, robbed>> /\ Same

CleanFallback(c) ==
    /\ pc[c] = "clean"
    /\ Delete(c, High, "dnsCheck")
    /\ UNCHANGED known /\ Same

CheckDns(c) ==
    /\ pc[c] = "dnsCheck"
    /\ Check(c, Dns(uid[c]), hasOwner, "dropCheck", "dnsInsert")
    /\ UNCHANGED <<rules, known, robbed>> /\ Same

(* Without xt_owner this command raises, outside of any try.               *)
InsertDns(c) ==
    /\ pc[c] = "dnsInsert"
    /\ \/ hasOwner /\ Inserted(Dns(uid[c])) /\ Go(c, "dropCheck") /\ UNCHANGED <<wrong, tries>>
       \/ ~hasOwner /\ Raise(c) /\ UNCHANGED <<rules, wrong>>
       \/ hasOwner /\ CommandFails(c) /\ MaybeInserted(Dns(uid[c]))
    /\ UNCHANGED <<known, robbed>> /\ Same

CheckDrop(c) ==
    /\ pc[c] = "dropCheck"
    /\ Check(c, Drop(uid[c]), hasOwner, "done", "dropInsert")
    /\ UNCHANGED <<rules, known, robbed>> /\ Same

(* Whatever raises here leads to the port rules.                           *)
InsertDrop(c) ==
    /\ pc[c] = "dropInsert"
    /\ \/ hasOwner /\ Inserted(Drop(uid[c])) /\ Done(c) /\ UNCHANGED wrong
       \/ /\ ~hasOwner /\ UNCHANGED <<rules, wrong, tries>>
          /\ Go(c, "highCheck")
       \/ /\ hasOwner /\ GoWrong(c, "command") /\ MaybeInserted(Drop(uid[c]))
          /\ UNCHANGED tries /\ Go(c, "highCheck")
    /\ UNCHANGED <<known, robbed>> /\ Same

CheckHigh(c) ==
    /\ pc[c] = "highCheck"
    /\ Check(c, High, TRUE, "done", "highInsert")
    /\ UNCHANGED <<rules, known, robbed>> /\ Same

(* A command that raises here is logged and ends the step.                 *)
InsertHigh(c) ==
    /\ pc[c] = "highInsert"
    /\ (Inserted(High) /\ UNCHANGED wrong) \/ (GoWrong(c, "command") /\ MaybeInserted(High))
    /\ Done(c)
    /\ UNCHANGED <<known, robbed>> /\ Same

-----------------------------------------------------------------------------
(* remove_webrtc_block.                                                    *)

RemoveDrop(c) ==
    /\ pc[c] = "remove"
    /\ \/ Delete(c, Drop(uid[c]), "removeHigh")
       \/ GoWrong(c, "answer") /\ Go(c, "removeHigh") /\ UNCHANGED <<rules, robbed, tries>>
    /\ UNCHANGED known /\ Same

RemoveHigh(c) ==
    /\ pc[c] = "removeHigh"
    /\ Delete(c, High, "done")
    /\ UNCHANGED known /\ Same

BlockStep(c) ==
    \/ CheckTable(c) \/ FindUid(c) \/ CleanFallback(c)
    \/ CheckDns(c) \/ InsertDns(c) \/ CheckDrop(c) \/ InsertDrop(c)
    \/ CheckHigh(c) \/ InsertHigh(c)

Next ==
    \E c \in Client :
        \/ Begin(c)
        \/ CheckV6(c)
        \/ \E part \in Part : TurnOffV6(c, part)
        \/ BlockStep(c)
        \/ RemoveDrop(c) \/ RemoveHigh(c)
        \/ End(c)

Spec == Init /\ [][Next]_vars

-----------------------------------------------------------------------------
(* Properties.                                                             *)

(* UDP of a user to the ports STUN servers use is dropped.                 *)
Blocked(u) == Has(rules, Drop(u)) \/ Has(rules, High)

(* The caller's browser cannot send UDP past the proxy.  The exceptions    *)
(* are all there are: no filter table; a check whose answer is lost (it    *)
(* reads as "the rule is there"); a command that failed; a rule that       *)
(* another client of the namespace removed after this one began; and a     *)
(* kernel without xt_owner, where the DNS rule raises before the port      *)
(* rules are reached.                                                      *)
UdpBlocked ==
    \A c \in Client : pc[c] = "user" /\ mode[c] = "block" =>
        \/ Blocked(uid[c])
        \/ ~filter
        \/ wrong[c] \cap {"answer", "command"} # {}
        \/ robbed[c]
        \/ ~hasOwner /\ known[c]

(* IPv6 is off for the caller's browser, all of it, unless a command of    *)
(* some client failed or was cut, or is still to run: the check looks at   *)
(* the first setting only.                                                 *)
IPv6Off ==
    \A c \in Client : pc[c] = "user" =>
        \/ v6 = Part
        \/ v6Failed
        \/ \E d \in Client : pc[d] \in {"v6rest", "v6tables"}
=============================================================================
