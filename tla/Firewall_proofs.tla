-------------------------- MODULE Firewall_proofs --------------------------
(***************************************************************************)
(* Proofs about Firewall for every set of clients, every numbering of      *)
(* their users and all bounds.                                             *)
(***************************************************************************)
EXTENDS Firewall, FiniteSetTheorems, SequenceTheorems, WellFoundedInduction, TLAPS

-----------------------------------------------------------------------------
(* The rule chain.                                                         *)

LEMMA RulesAreRules ==
    /\ High \in Rule
    /\ uid \in UserIds =>
         \A c \in Client : Dns(uid[c]) \in Rule /\ Drop(uid[c]) \in Rule
  BY FirewallAssumption DEF High, Dns, Drop, Rule

LEMMA RulesDiffer ==
    \A u : Dns(u) # Drop(u) /\ Dns(u) # High /\ Drop(u) # High
  BY DEF High, Dns, Drop

LEMMA AtHead ==
    ASSUME NEW chain \in Seq(Rule), NEW r \in Rule
    PROVE  /\ <<r>> \o chain \in Seq(Rule)
           /\ Has(<<r>> \o chain, r)
           /\ \A q : Has(chain, q) => Has(<<r>> \o chain, q)
<1> DEFINE longer == <<r>> \o chain
<1>1. longer \in Seq(Rule) /\ Len(longer) = 1 + Len(chain)
  OBVIOUS
<1>2. longer[1] = r
  OBVIOUS
<1>3. \A i \in 1..Len(chain) : longer[i + 1] = chain[i]
  OBVIOUS
<1>4. Len(chain) \in Nat
  OBVIOUS
<1> HIDE DEF longer
<1>5. Has(longer, r)
  BY <1>1, <1>2, <1>4 DEF Has
<1>6. ASSUME NEW q, NEW i \in 1..Len(chain), chain[i] = q
      PROVE  i + 1 \in 1..Len(longer) /\ longer[i + 1] = q
  BY <1>1, <1>3, <1>4, <1>6
<1>7. \A q : Has(chain, q) => Has(longer, q)
  BY <1>6 DEF Has
<1> QED
  BY <1>1, <1>5, <1>7 DEF longer

(* The first of the copies of a rule.                                      *)
LEMMA FirstCopy ==
    ASSUME NEW chain \in Seq(Rule), NEW r, Has(chain, r)
    PROVE  \E i \in 1..Len(chain) : chain[i] = r /\ \A j \in 1..i - 1 : chain[j] # r
<1> DEFINE At == {i \in 1..Len(chain) : chain[i] = r}
           Less == OpToRel(<, Nat)
<1>1. At # {} /\ At \subseteq Nat
  BY DEF Has
<1>2. IsWellFoundedOn(Less, Nat)
  BY NatLessThanWellFounded
<1> HIDE DEF At, Less
<1>3. PICK m \in At : \A j \in At : <<j, m>> \notin Less
  BY <1>1, <1>2, WFMin
<1>4. \A j \in At : ~(j < m)
  BY <1>1, <1>3 DEF Less, OpToRel
<1> QED
  BY <1>3, <1>4 DEF At

(* Deleting a rule loses no other rule.                                    *)
LEMMA OthersStay ==
    ASSUME NEW chain \in Seq(Rule), NEW r
    PROVE  /\ Without(chain, r) \in Seq(Rule)
           /\ \A q : q # r /\ Has(chain, q) => Has(Without(chain, r), q)
           /\ ~Has(chain, r) => Without(chain, r) = chain
<1>1. CASE ~Has(chain, r)
  BY <1>1 DEF Without
<1>2. CASE Has(chain, r)
  <2> DEFINE k == CHOOSE i \in 1..Len(chain) :
                      chain[i] = r /\ \A j \in 1..i - 1 : chain[j] # r
             front == SubSeq(chain, 1, k - 1)
             back == SubSeq(chain, k + 1, Len(chain))
  <2>1. k \in 1..Len(chain) /\ chain[k] = r
    BY <1>2, FirstCopy
  <2>2. Without(chain, r) = front \o back
    BY <1>2 DEF Without
  <2> HIDE DEF k
  <2>3. /\ front \in Seq(Rule) /\ Len(front) = k - 1
        /\ \A i \in 1..k - 1 : front[i] = chain[i]
    BY <2>1
  <2>4. /\ back \in Seq(Rule) /\ Len(back) = Len(chain) - k
        /\ \A i \in 1..Len(chain) - k : back[i] = chain[i + k]
    BY <2>1
  <2> HIDE DEF front, back
  <2> DEFINE left == front \o back
  <2>0. Len(front) \in Nat /\ Len(back) \in Nat /\ k \in Nat /\ Len(chain) \in Nat
    BY <2>1, <2>3, <2>4
  <2>a. /\ left \in Seq(Rule) /\ Len(left) = Len(front) + Len(back)
        /\ \A i \in 1..Len(front) + Len(back) : left[i] =
             IF i <= Len(front) THEN front[i] ELSE back[i - Len(front)]
    BY <2>3, <2>4, ConcatProperties
  <2> HIDE DEF left
  <2>b. Len(front) + Len(back) = Len(chain) - 1
    BY <2>0, <2>3, <2>4
  <2>5. /\ left \in Seq(Rule) /\ Len(left) = Len(chain) - 1
        /\ \A i \in 1..Len(chain) - 1 : left[i] =
             IF i <= k - 1 THEN front[i] ELSE back[i - (k - 1)]
    BY <2>a, <2>b, <2>3
  <2>6. ASSUME NEW q, q # r, NEW i \in 1..Len(chain), chain[i] = q
        PROVE  Has(left, q)
    <3>1. CASE i < k
      <4>1. i \in 1..Len(chain) - 1 /\ left[i] = q
        BY <2>1, <2>3, <2>5, <2>6, <3>1
      <4> QED
        BY <2>5, <4>1 DEF Has
    <3>2. CASE i > k
      <4>1. i - 1 \in 1..Len(chain) - 1 /\ i - k \in 1..Len(chain) - k
        BY <2>1, <3>2
      <4>2. left[i - 1] = back[i - k]
        <5>1. i - 1 - (k - 1) = i - k /\ ~(i - 1 <= k - 1)
          BY <2>0, <3>2
        <5> QED
          BY <2>5, <4>1, <5>1
      <4>3. back[i - k] = q
        BY <2>1, <2>4, <2>6, <4>1
      <4> QED
        BY <2>5, <4>1, <4>2, <4>3 DEF Has
    <3> QED
      BY <2>1, <2>6, <3>1, <3>2
  <2> QED
    <3>1. Without(chain, r) = left
      BY <2>2 DEF left
    <3>2. \A q : q # r /\ Has(chain, q) => Has(left, q)
      BY <2>6 DEF Has
    <3> QED
      BY <1>2, <2>5, <3>1, <3>2
<1> QED
  BY <1>1, <1>2

-----------------------------------------------------------------------------
(* How a client moves on.                                                  *)

AllPC == {"idle", "user"} \cup V6PC \cup WebPC

(* Only c moves, and to a place of the program.                            *)
Moves(c) == /\ pc' \in [Client -> AllPC]
            /\ \A d \in Client \ {c} : pc'[d] = pc[d]

LEMMA GoShape ==
    ASSUME TypeOK, NEW c \in Client, NEW next \in AllPC, Go(c, next)
    PROVE  Moves(c) /\ pc'[c] = next
  BY DEF TypeOK, Go, Moves, AllPC

LEMMA WebStartShape ==
    ASSUME TypeOK, NEW c \in Client
    PROVE  /\ WebStart(c) \in {"table", "remove"}
           /\ WebStart(c) = "table" <=> mode[c] = "block"
           /\ WebStart(c) = "remove" <=> mode[c] = "spoof"
  BY DEF TypeOK, WebStart

LEMMA DoneShape ==
    ASSUME TypeOK, NEW c \in Client, Done(c)
    PROVE  /\ Moves(c) /\ tries' \in [Client -> 0..MaxTries - 1]
           /\ pc[c] \in V6PC => pc'[c] = WebStart(c)
           /\ pc[c] \notin V6PC => pc'[c] = "user"
<1>1. tries' \in [Client -> 0..MaxTries - 1]
  BY DEF Done, TypeOK, MaxTries
<1>2. CASE pc[c] \in V6PC
  <2>1. Go(c, WebStart(c)) /\ WebStart(c) \in AllPC
    BY <1>2, WebStartShape DEF Done, AllPC, WebPC
  <2> QED
    BY <1>1, <1>2, <2>1, GoShape
<1>3. CASE pc[c] \notin V6PC
  <2>1. Go(c, "user") /\ "user" \in AllPC
    BY <1>3 DEF Done, AllPC
  <2> QED
    BY <1>1, <1>3, <2>1, GoShape
<1> QED
  BY <1>2, <1>3

LEMMA RaiseShape ==
    ASSUME TypeOK, NEW c \in Client, Raise(c)
    PROVE  /\ Moves(c) /\ tries' \in [Client -> 0..MaxTries - 1]
           /\ pc[c] \in V6PC => pc'[c] \in {"v6check", WebStart(c)}
           /\ pc[c] \notin V6PC => pc'[c] \in {WebStart(c), "user"}
<1>1. CASE tries[c] = MaxTries - 1
  <2>1. Done(c)
    BY <1>1 DEF Raise
  <2> QED
    BY <2>1, DoneShape
<1>2. CASE tries[c] # MaxTries - 1
  <2>1. tries' \in [Client -> 0..MaxTries - 1]
    <3>1. tries' = [tries EXCEPT ![c] = tries[c] + 1]
      BY <1>2 DEF Raise
    <3>2. tries \in [Client -> 0..2]
      BY DEF TypeOK, MaxTries
    <3>3. tries[c] + 1 \in 0..2
      BY <1>2, <3>2 DEF MaxTries
    <3> QED
      BY <3>1, <3>2, <3>3 DEF MaxTries
  <2>2. CASE pc[c] \in V6PC
    <3>1. Go(c, "v6check") /\ "v6check" \in AllPC
      BY <1>2, <2>2 DEF Raise, AllPC, V6PC
    <3> QED
      BY <2>1, <2>2, <3>1, GoShape
  <2>3. CASE pc[c] \notin V6PC
    <3>1. Go(c, WebStart(c)) /\ WebStart(c) \in AllPC
      BY <1>2, <2>3, WebStartShape DEF Raise, AllPC, WebPC
    <3> QED
      BY <2>1, <2>3, <3>1, GoShape
  <2> QED
    BY <2>2, <2>3
<1> QED
  BY <1>1, <1>2

(* Something goes wrong for c, and only for c.                             *)
Marks(c) == /\ wrong' \in [Client -> SUBSET {"answer", "command"}]
            /\ wrong'[c] \cap {"answer", "command"} # {}
            /\ \A d \in Client \ {c} : wrong'[d] = wrong[d]

LEMMA WrongShape ==
    ASSUME TypeOK, NEW c \in Client, NEW x \in {"answer", "command"}, GoWrong(c, x)
    PROVE  Marks(c)
<1>1. wrong' = [wrong EXCEPT ![c] = @ \cup {x}]
  BY DEF GoWrong
<1> QED
  BY <1>1 DEF TypeOK, Marks

LEMMA CommandFailsShape ==
    ASSUME TypeOK, NEW c \in Client, CommandFails(c)
    PROVE  /\ Marks(c) /\ Moves(c) /\ tries' \in [Client -> 0..MaxTries - 1]
           /\ pc[c] \in V6PC => pc'[c] \in {"v6check", WebStart(c)}
           /\ pc[c] \notin V6PC => pc'[c] \in {WebStart(c), "user"}
  BY WrongShape, RaiseShape DEF CommandFails

(* A command of c that deletes r: what c may do next, and who loses what.  *)
Deletes(c, r) ==
    /\ rules' \in Seq(Rule) /\ robbed' \in [Client -> BOOLEAN]
    /\ \A q : q # r /\ Has(rules, q) => Has(rules', q)
    /\ \A d \in Client \ {c} : \/ robbed'[d] = robbed[d] /\ rules' = rules
                               \/ robbed'[d] = (robbed[d] \/ pc[d] # "idle")

LEMMA DeleteShape ==
    ASSUME TypeOK, NEW c \in Client, NEW r, NEW next, Delete(c, r, next)
    PROVE  /\ Deletes(c, r)
           /\ \/ UNCHANGED wrong /\ next = "done" /\ Done(c)
              \/ UNCHANGED <<wrong, tries>> /\ next # "done" /\ Go(c, next)
              \/ CommandFails(c)
<1>1. CASE UNCHANGED <<rules, robbed>>
  BY <1>1 DEF Delete, Deletes, TypeOK
<1>2. CASE Gone(c, r)
  <2>1. rules \in Seq(Rule) /\ robbed \in [Client -> BOOLEAN]
    BY DEF TypeOK
  <2>2. /\ rules' \in Seq(Rule) /\ \A q : q # r /\ Has(rules, q) => Has(rules', q)
        /\ ~Has(rules, r) => rules' = rules
    BY <1>2, <2>1, OthersStay DEF Gone
  <2>3. robbed' \in [Client -> BOOLEAN]
    BY <1>2, <2>1 DEF Gone
  <2>4. ASSUME NEW d \in Client \ {c}
        PROVE  \/ robbed'[d] = robbed[d] /\ rules' = rules
               \/ robbed'[d] = (robbed[d] \/ pc[d] # "idle")
    <3>1. robbed[d] \in BOOLEAN
      BY <2>1
    <3>2. robbed'[d] = (robbed[d] \/ (pc[d] # "idle" /\ Has(rules, r)))
      BY <1>2, <2>4 DEF Gone
    <3> QED
      BY <2>2, <3>1, <3>2
  <2> QED
    BY <2>2, <2>3, <2>4 DEF Delete, Deletes
<1> QED
  BY <1>1, <1>2 DEF Delete

LEMMA InsertedShape ==
    ASSUME TypeOK, NEW r \in Rule, Inserted(r)
    PROVE  /\ rules' \in Seq(Rule) /\ Has(rules', r)
           /\ \A q : Has(rules, q) => Has(rules', q)
<1>1. rules \in Seq(Rule) /\ rules' = <<r>> \o rules
  BY DEF TypeOK, Inserted
<1> QED
  BY <1>1, AtHead

LEMMA MaybeInsertedShape ==
    ASSUME TypeOK, NEW r \in Rule, MaybeInserted(r)
    PROVE  rules' \in Seq(Rule) /\ \A q : Has(rules, q) => Has(rules', q)
  BY InsertedShape DEF MaybeInserted, TypeOK

(* A check by c: where it leads, and why.                                  *)
LEMMA CheckShape ==
    ASSUME TypeOK, NEW c \in Client, NEW r, NEW works, NEW yes, NEW no,
           Check(c, r, works, yes, no)
    PROVE  \/ /\ UNCHANGED wrong /\ works /\ Has(rules, r)
              /\ IF yes = "done" THEN Done(c) ELSE Go(c, yes) /\ UNCHANGED tries
           \/ UNCHANGED <<wrong, tries>> /\ Go(c, no)
           \/ /\ GoWrong(c, "answer")
              /\ IF yes = "done" THEN Done(c) ELSE Go(c, yes) /\ UNCHANGED tries
  BY DEF Check

-----------------------------------------------------------------------------
(* Type correctness.                                                       *)

LEMMA TypeInit == Init => TypeOK
<1> SUFFICES ASSUME Init PROVE TypeOK
  OBVIOUS
<1>1. /\ session \in [Client -> 0..MaxSessions]
      /\ tries \in [Client -> 0..MaxTries - 1]
  BY FirewallAssumption DEF Init, MaxTries
<1>2. rules \in Seq(Rule)
  BY DEF Init
<1>3. /\ mode \in [Client -> {"block", "spoof"}] /\ known \in [Client -> BOOLEAN]
      /\ pc \in [Client -> {"idle", "user"} \cup V6PC \cup WebPC]
      /\ robbed \in [Client -> BOOLEAN]
  BY DEF Init
<1>4. wrong \in [Client -> SUBSET {"answer", "command"}]
  BY DEF Init
<1> QED
  BY <1>1, <1>2, <1>3, <1>4 DEF Init, TypeOK

LEMMA TypeBlock ==
    ASSUME TypeOK, NEW c \in Client, BlockStep(c)
    PROVE  TypeOK'
<1> USE DEF AllPC, WebPC
<1>1. CASE CheckTable(c)
  <2>1. pc' \in [Client -> AllPC] /\ tries' \in [Client -> 0..MaxTries - 1]
    BY <1>1, DoneShape, GoShape DEF CheckTable, Moves, TypeOK
  <2> QED
    BY <1>1, <2>1 DEF CheckTable, TypeOK, Same, kernel
<1>2. CASE FindUid(c)
  <2>1. pc' \in [Client -> AllPC]
    BY <1>2, GoShape DEF FindUid, Moves
  <2>2. wrong' \in [Client -> SUBSET {"answer", "command"}]
    BY <1>2, WrongShape DEF FindUid, Marks, TypeOK
  <2>3. known' \in [Client -> BOOLEAN]
    BY <1>2 DEF FindUid, TypeOK
  <2> QED
    BY <1>2, <2>1, <2>2, <2>3 DEF FindUid, TypeOK, Same, kernel
<1>3. CASE CleanFallback(c)
  <2>1. Delete(c, High, "dnsCheck")
    BY <1>3 DEF CleanFallback
  <2>2. rules' \in Seq(Rule) /\ robbed' \in [Client -> BOOLEAN]
    BY <2>1, DeleteShape DEF Deletes
  <2>3. /\ pc' \in [Client -> AllPC] /\ tries' \in [Client -> 0..MaxTries - 1]
        /\ wrong' \in [Client -> SUBSET {"answer", "command"}]
    BY <2>1, DeleteShape, CommandFailsShape, GoShape DEF Moves, Marks, TypeOK
  <2> QED
    BY <1>3, <2>2, <2>3 DEF CleanFallback, TypeOK, Same, kernel
<1>4. CASE CheckDns(c)
  <2>1. /\ pc' \in [Client -> AllPC] /\ tries' \in [Client -> 0..MaxTries - 1]
        /\ wrong' \in [Client -> SUBSET {"answer", "command"}]
    BY <1>4, CheckShape, WrongShape, GoShape DEF CheckDns, Moves, Marks, TypeOK
  <2> QED
    BY <1>4, <2>1 DEF CheckDns, TypeOK, Same, kernel
<1>5. CASE InsertDns(c)
  <2>1. /\ pc' \in [Client -> AllPC] /\ tries' \in [Client -> 0..MaxTries - 1]
        /\ wrong' \in [Client -> SUBSET {"answer", "command"}]
    BY <1>5, RaiseShape, CommandFailsShape, GoShape DEF InsertDns, Moves, Marks, TypeOK
  <2>2. rules' \in Seq(Rule)
    BY <1>5, RulesAreRules, InsertedShape, MaybeInsertedShape
       DEF InsertDns, TypeOK
  <2> QED
    BY <1>5, <2>1, <2>2 DEF InsertDns, TypeOK, Same, kernel
<1>6. CASE CheckDrop(c)
  <2>1. /\ pc' \in [Client -> AllPC] /\ tries' \in [Client -> 0..MaxTries - 1]
        /\ wrong' \in [Client -> SUBSET {"answer", "command"}]
    BY <1>6, CheckShape, WrongShape, DoneShape, GoShape DEF CheckDrop, Moves, Marks, TypeOK
  <2> QED
    BY <1>6, <2>1 DEF CheckDrop, TypeOK, Same, kernel
<1>7. CASE InsertDrop(c)
  <2>1. /\ pc' \in [Client -> AllPC] /\ tries' \in [Client -> 0..MaxTries - 1]
        /\ wrong' \in [Client -> SUBSET {"answer", "command"}]
    BY <1>7, WrongShape, DoneShape, GoShape DEF InsertDrop, Moves, Marks, TypeOK
  <2>2. rules' \in Seq(Rule)
    BY <1>7, RulesAreRules, InsertedShape, MaybeInsertedShape
       DEF InsertDrop, TypeOK
  <2> QED
    BY <1>7, <2>1, <2>2 DEF InsertDrop, TypeOK, Same, kernel
<1>8. CASE CheckHigh(c)
  <2>1. /\ pc' \in [Client -> AllPC] /\ tries' \in [Client -> 0..MaxTries - 1]
        /\ wrong' \in [Client -> SUBSET {"answer", "command"}]
    BY <1>8, CheckShape, WrongShape, DoneShape, GoShape DEF CheckHigh, Moves, Marks, TypeOK
  <2> QED
    BY <1>8, <2>1 DEF CheckHigh, TypeOK, Same, kernel
<1>9. CASE InsertHigh(c)
  <2>1. /\ pc' \in [Client -> AllPC] /\ tries' \in [Client -> 0..MaxTries - 1]
        /\ wrong' \in [Client -> SUBSET {"answer", "command"}]
    BY <1>9, WrongShape, DoneShape DEF InsertHigh, Moves, Marks, TypeOK
  <2>2. rules' \in Seq(Rule)
    BY <1>9, RulesAreRules, InsertedShape, MaybeInsertedShape
       DEF InsertHigh, TypeOK
  <2> QED
    BY <1>9, <2>1, <2>2 DEF InsertHigh, TypeOK, Same, kernel
<1> QED
  BY <1>1, <1>2, <1>3, <1>4, <1>5, <1>6, <1>7, <1>8, <1>9 DEF BlockStep

LEMMA TypeStep == ASSUME TypeOK, [Next]_vars PROVE TypeOK'
<1>1. ASSUME NEW c \in Client, Begin(c)
      PROVE  TypeOK'
  <2>1. pc' \in [Client -> AllPC]
    BY <1>1, GoShape DEF Begin, Moves, AllPC, V6PC
  <2>2. session' \in [Client -> 0..MaxSessions]
    BY <1>1, FirewallAssumption DEF Begin, TypeOK
  <2>3. mode' \in [Client -> {"block", "spoof"}]
    BY <1>1 DEF Begin, TypeOK
  <2> QED
    BY <1>1, <2>1, <2>2, <2>3 DEF Begin, TypeOK, kernel, AllPC
<1>2. ASSUME NEW c \in Client, CheckV6(c)
      PROVE  TypeOK'
  <2>1. /\ pc' \in [Client -> AllPC] /\ tries' \in [Client -> 0..MaxTries - 1]
        /\ wrong' \in [Client -> SUBSET {"answer", "command"}]
    BY <1>2, DoneShape, GoShape, WrongShape DEF CheckV6, Moves, Marks, TypeOK, AllPC, V6PC
  <2> QED
    BY <1>2, <2>1 DEF CheckV6, TypeOK, kernel, AllPC
<1>3. ASSUME NEW c \in Client, NEW part \in Part, TurnOffV6(c, part)
      PROVE  TypeOK'
  <2>1. V6Next(part) \in AllPC \/ part = "tables"
    BY DEF V6Next, AllPC, V6PC, Part
  <2>2. /\ pc' \in [Client -> AllPC] /\ tries' \in [Client -> 0..MaxTries - 1]
        /\ wrong' \in [Client -> SUBSET {"answer", "command"}]
    BY <1>3, <2>1, DoneShape, GoShape, CommandFailsShape DEF TurnOffV6, Moves, Marks, TypeOK
  <2>3. v6' \subseteq Part /\ v6Failed' \in BOOLEAN
    BY <1>3 DEF TurnOffV6, TypeOK
  <2> QED
    BY <1>3, <2>2, <2>3 DEF TurnOffV6, TypeOK, kernel, AllPC
<1>4. ASSUME NEW c \in Client, RemoveDrop(c)
      PROVE  TypeOK'
  <2>1. CASE Delete(c, Drop(uid[c]), "removeHigh")
    <3>1. rules' \in Seq(Rule) /\ robbed' \in [Client -> BOOLEAN]
      BY <2>1, DeleteShape DEF Deletes
    <3>2. /\ pc' \in [Client -> AllPC] /\ tries' \in [Client -> 0..MaxTries - 1]
          /\ wrong' \in [Client -> SUBSET {"answer", "command"}]
      BY <2>1, DeleteShape, CommandFailsShape, GoShape DEF Moves, Marks, TypeOK, AllPC, WebPC
    <3> QED
      BY <1>4, <3>1, <3>2 DEF RemoveDrop, TypeOK, Same, kernel, AllPC
  <2>2. CASE GoWrong(c, "answer") /\ Go(c, "removeHigh") /\ UNCHANGED <<rules, robbed, tries>>
    <3>1. /\ pc' \in [Client -> AllPC]
          /\ wrong' \in [Client -> SUBSET {"answer", "command"}]
      BY <2>2, WrongShape, GoShape DEF Moves, Marks, AllPC, WebPC
    <3> QED
      BY <1>4, <2>2, <3>1 DEF RemoveDrop, TypeOK, Same, kernel, AllPC
  <2> QED
    BY <1>4, <2>1, <2>2 DEF RemoveDrop
<1>5. ASSUME NEW c \in Client, RemoveHigh(c)
      PROVE  TypeOK'
  <2>1. Delete(c, High, "done")
    BY <1>5 DEF RemoveHigh
  <2>2. rules' \in Seq(Rule) /\ robbed' \in [Client -> BOOLEAN]
    BY <2>1, DeleteShape DEF Deletes
  <2>3. /\ pc' \in [Client -> AllPC] /\ tries' \in [Client -> 0..MaxTries - 1]
        /\ wrong' \in [Client -> SUBSET {"answer", "command"}]
    BY <2>1, DeleteShape, CommandFailsShape, DoneShape DEF Moves, Marks, TypeOK
  <2> QED
    BY <1>5, <2>2, <2>3 DEF RemoveHigh, TypeOK, Same, kernel, AllPC
<1>6. ASSUME NEW c \in Client, End(c)
      PROVE  TypeOK'
  <2>1. pc' \in [Client -> AllPC]
    BY <1>6, GoShape DEF End, Moves, AllPC
  <2>2. /\ wrong' \in [Client -> SUBSET {"answer", "command"}]
        /\ robbed' \in [Client -> BOOLEAN] /\ known' \in [Client -> BOOLEAN]
        /\ tries' \in [Client -> 0..MaxTries - 1] /\ v6Failed' \in BOOLEAN
    BY <1>6 DEF End, TypeOK, MaxTries
  <2> QED
    BY <1>6, <2>1, <2>2 DEF End, TypeOK, kernel, AllPC
<1>7. CASE UNCHANGED vars
  BY <1>7 DEF TypeOK, vars
<1> QED
  BY <1>1, <1>2, <1>3, <1>4, <1>5, <1>6, <1>7, TypeBlock DEF Next

(* The variables have their types in every state.                          *)
THEOREM TypeCorrect == Spec => []TypeOK
  BY TypeInit, TypeStep, PTL DEF Spec

-----------------------------------------------------------------------------
(* IPv6.                                                                   *)

(* What a client has begun to turn off, it or another turns off to the     *)
(* end, or a command has failed; and nobody comes past the first setting   *)
(* without it.                                                             *)
V6Inv ==
    /\ "all" \in v6 /\ "rest" \notin v6 =>
         v6Failed \/ \E d \in Client : pc[d] = "v6rest"
    /\ "rest" \in v6 /\ "tables" \notin v6 =>
         v6Failed \/ \E d \in Client : pc[d] = "v6tables"
    /\ \A c \in Client : pc[c] \in {"v6rest", "v6tables", "user"} \cup WebPC =>
         "all" \in v6 \/ v6Failed

LEMMA V6Init == Init => V6Inv
  BY DEF Init, V6Inv, WebPC

(* Steps that neither begin nor cut the turning off.                       *)
LEMMA V6Idle ==
    ASSUME TypeOK, V6Inv, NEW c \in Client, Moves(c), UNCHANGED <<v6, v6Failed>>,
           pc[c] \notin {"v6rest", "v6tables"},
           pc'[c] \in {"v6rest", "v6tables", "user"} \cup WebPC =>
             "all" \in v6 \/ v6Failed
    PROVE  V6Inv'
  BY DEF V6Inv, Moves, TypeOK

LEMMA WebMoves ==
    ASSUME TypeOK, NEW c \in Client, BlockStep(c) \/ RemoveDrop(c) \/ RemoveHigh(c)
    PROVE  Moves(c) /\ pc[c] \in WebPC
<1> USE DEF WebPC, AllPC, V6PC
<1>1. CASE CheckTable(c)
  BY <1>1, DoneShape, GoShape DEF CheckTable
<1>2. CASE FindUid(c)
  BY <1>2, GoShape DEF FindUid
<1>3. CASE CleanFallback(c)
  BY <1>3, DeleteShape, CommandFailsShape, GoShape DEF CleanFallback
<1>4. CASE CheckDns(c)
  BY <1>4, CheckShape, GoShape DEF CheckDns
<1>5. CASE InsertDns(c)
  BY <1>5, RaiseShape, CommandFailsShape, GoShape DEF InsertDns
<1>6. CASE CheckDrop(c)
  BY <1>6, CheckShape, DoneShape, GoShape DEF CheckDrop
<1>7. CASE InsertDrop(c)
  BY <1>7, DoneShape, GoShape DEF InsertDrop
<1>8. CASE CheckHigh(c)
  BY <1>8, CheckShape, DoneShape, GoShape DEF CheckHigh
<1>9. CASE InsertHigh(c)
  BY <1>9, DoneShape DEF InsertHigh
<1>10. CASE RemoveDrop(c)
  BY <1>10, DeleteShape, CommandFailsShape, GoShape DEF RemoveDrop
<1>11. CASE RemoveHigh(c)
  BY <1>11, DeleteShape, CommandFailsShape, DoneShape DEF RemoveHigh
<1> QED
  BY <1>1, <1>2, <1>3, <1>4, <1>5, <1>6, <1>7, <1>8, <1>9, <1>10, <1>11 DEF BlockStep

LEMMA WebKeepsV6 ==
    ASSUME NEW c \in Client, BlockStep(c) \/ RemoveDrop(c) \/ RemoveHigh(c)
    PROVE  UNCHANGED <<filter, hasOwner, uid, v6, session, mode, v6Failed>>
  BY DEF BlockStep, CheckTable, FindUid, CleanFallback, CheckDns, InsertDns, CheckDrop,
         InsertDrop, CheckHigh, InsertHigh, RemoveDrop, RemoveHigh, Same, kernel

LEMMA V6Step == ASSUME TypeOK, V6Inv, [Next]_vars PROVE V6Inv'
<1>1. ASSUME NEW c \in Client, Begin(c)
      PROVE  V6Inv'
  <2>1. Moves(c) /\ pc'[c] = "v6check" /\ pc[c] = "idle" /\ UNCHANGED <<v6, v6Failed>>
    BY <1>1, GoShape DEF Begin, AllPC, V6PC
  <2> QED
    BY <2>1, V6Idle DEF WebPC
<1>2. ASSUME NEW c \in Client, CheckV6(c)
      PROVE  V6Inv'
  <2>1. pc[c] = "v6check" /\ UNCHANGED <<v6, v6Failed>>
    BY <1>2 DEF CheckV6
  <2>2. Moves(c) /\ ("all" \in v6 \/ pc'[c] = "v6all")
    BY <1>2, DoneShape, GoShape DEF CheckV6, AllPC, V6PC
  <2> QED
    BY <2>1, <2>2, V6Idle DEF WebPC
<1>3. ASSUME NEW c \in Client, NEW part \in Part, TurnOffV6(c, part)
      PROVE  V6Inv'
  <2>1. CASE CommandFails(c) /\ v6Failed' = TRUE
    BY <2>1 DEF V6Inv
  <2>2. CASE /\ v6' = v6 \cup {part}
             /\ IF part = "tables" THEN Done(c) ELSE Go(c, V6Next(part)) /\ UNCHANGED tries
             /\ UNCHANGED <<wrong, v6Failed>>
    <3>1. CASE part = "all"
      <4>1. pc[c] = "v6all" /\ Go(c, "v6rest")
        BY <1>3, <2>2, <3>1 DEF TurnOffV6, V6PCOf, V6Next
      <4>2. Moves(c) /\ pc'[c] = "v6rest"
        BY <4>1, GoShape DEF AllPC, V6PC
      <4> QED
        BY <2>2, <3>1, <4>1, <4>2 DEF V6Inv, Moves, WebPC
    <3>2. CASE part = "rest"
      <4>1. pc[c] = "v6rest" /\ Go(c, "v6tables")
        BY <1>3, <2>2, <3>2 DEF TurnOffV6, V6PCOf, V6Next
      <4>2. Moves(c) /\ pc'[c] = "v6tables"
        BY <4>1, GoShape DEF AllPC, V6PC
      <4> QED
        BY <2>2, <3>2, <4>1, <4>2 DEF V6Inv, Moves, WebPC
    <3>3. CASE part = "tables"
      <4>1. pc[c] = "v6tables" /\ Done(c)
        BY <1>3, <2>2, <3>3 DEF TurnOffV6, V6PCOf
      <4>2. Moves(c) /\ pc'[c] \in WebPC
        BY <4>1, DoneShape, WebStartShape DEF V6PC, WebPC
      <4>3. "all" \in v6 \/ v6Failed
        BY <4>1 DEF V6Inv
      <4> QED
        BY <2>2, <3>3, <4>1, <4>2, <4>3 DEF V6Inv, Moves, WebPC
    <3> QED
      BY <3>1, <3>2, <3>3 DEF Part
  <2> QED
    BY <1>3, <2>1, <2>2 DEF TurnOffV6
<1>4. ASSUME NEW c \in Client, BlockStep(c) \/ RemoveDrop(c) \/ RemoveHigh(c)
      PROVE  V6Inv'
  <2>1. Moves(c) /\ pc[c] \in WebPC /\ UNCHANGED <<v6, v6Failed>>
    BY <1>4, WebMoves, WebKeepsV6
  <2>2. "all" \in v6 \/ v6Failed
    BY <2>1 DEF V6Inv
  <2> QED
    BY <2>1, <2>2, V6Idle DEF WebPC
<1>5. ASSUME NEW c \in Client, End(c)
      PROVE  V6Inv'
  <2>1. Moves(c) /\ pc'[c] = "idle" /\ UNCHANGED v6
    BY <1>5, GoShape DEF End, AllPC
  <2>2. CASE pc[c] \in {"v6rest", "v6tables"}
    BY <1>5, <2>2 DEF End, V6Inv
  <2>3. CASE pc[c] \notin {"v6rest", "v6tables"}
    <3>1. v6Failed' = v6Failed
      BY <1>5, <2>3 DEF End, TypeOK
    <3> QED
      BY <2>1, <2>3, <3>1, V6Idle DEF V6PC, WebPC
  <2> QED
    BY <2>2, <2>3
<1>6. CASE UNCHANGED vars
  BY <1>6 DEF V6Inv, vars
<1> QED
  BY <1>1, <1>2, <1>3, <1>4, <1>5, <1>6 DEF Next

LEMMA V6Suffices == TypeOK /\ V6Inv => IPv6Off
<1> SUFFICES ASSUME TypeOK, V6Inv, NEW c \in Client, pc[c] = "user",
                    ~v6Failed, \A d \in Client : pc[d] \notin {"v6rest", "v6tables"}
             PROVE  v6 = Part
  BY DEF IPv6Off
<1>1. "all" \in v6
  BY DEF V6Inv
<1>2. "rest" \in v6 /\ "tables" \in v6
  BY <1>1 DEF V6Inv
<1> QED
  BY <1>1, <1>2 DEF TypeOK, Part

(* IPv6 is off, all of it, for every browser that is in use, unless a      *)
(* command failed, was cut or is still to run (apply_ipv6_block).          *)
THEOREM V6StaysOff == Spec => []IPv6Off
<1>1. TypeOK /\ V6Inv /\ [Next]_vars => TypeOK' /\ V6Inv'
  BY TypeStep, V6Step
<1> QED
  BY <1>1, TypeInit, V6Init, V6Suffices, PTL DEF Spec

-----------------------------------------------------------------------------
(* UDP.                                                                    *)

UidPC == {"clean", "dnsCheck", "dnsInsert", "dropCheck", "dropInsert"}
RemovePC == {"remove", "removeHigh"}

(* A client that works on its own rules has found out its user id, and     *)
(* only a client that spoofs addresses takes rules away.                   *)
WebInv ==
    \A c \in Client :
        /\ pc[c] \in UidPC => known[c]
        /\ pc[c] \in RemovePC => mode[c] = "spoof"

(* What may be said of UDP for one client in use.                          *)
Safe(c) ==
    \/ Blocked(uid[c])
    \/ ~filter
    \/ wrong[c] \cap {"answer", "command"} # {}
    \/ robbed[c]
    \/ ~hasOwner /\ known[c]

(* A step of c leaves what the others rely on.                             *)
SparesOthers(c) ==
    \A d \in Client \ {c} :
        /\ pc'[d] = pc[d] /\ wrong'[d] = wrong[d] /\ known'[d] = known[d]
        /\ mode'[d] = mode[d]
        /\ robbed[d] => robbed'[d]
        /\ pc[d] = "user" /\ Blocked(uid[d]) => Blocked(uid[d])' \/ robbed'[d]

LEMMA UdpOneStep ==
    ASSUME TypeOK, WebInv, UdpBlocked, NEW c \in Client, SparesOthers(c),
           UNCHANGED <<filter, hasOwner, uid>>,
           pc'[c] \in UidPC => known'[c],
           pc'[c] \in RemovePC => mode'[c] = "spoof",
           pc'[c] = "user" /\ mode'[c] = "block" => Safe(c)'
    PROVE  WebInv' /\ UdpBlocked'
<1>1. WebInv'
  BY DEF WebInv, SparesOthers
<1>2. ASSUME NEW d \in Client, pc'[d] = "user", mode'[d] = "block"
      PROVE  Safe(d)'
  <2>1. CASE d = c
    BY <1>2, <2>1
  <2>2. CASE d # c
    <3>1. pc[d] = "user" /\ mode[d] = "block"
      BY <1>2, <2>2 DEF SparesOthers
    <3>2. Safe(d)
      BY <3>1 DEF UdpBlocked, Safe
    <3> QED
      BY <2>2, <3>1, <3>2 DEF Safe, SparesOthers
  <2> QED
    BY <2>1, <2>2
<1> QED
  BY <1>1, <1>2 DEF UdpBlocked, Safe

(* Steps that delete no rule spare the others.                             *)
LEMMA SparesIfKept ==
    ASSUME NEW c \in Client, Moves(c), UNCHANGED <<uid, robbed>>,
           \A d \in Client \ {c} : wrong'[d] = wrong[d] /\ known'[d] = known[d]
                                   /\ mode'[d] = mode[d],
           \A q : Has(rules, q) => Has(rules', q)
    PROVE  SparesOthers(c)
  BY DEF Moves, SparesOthers, Blocked

LEMMA SparesIfDeleted ==
    ASSUME TypeOK, NEW c \in Client, NEW r, Moves(c), Deletes(c, r),
           UNCHANGED <<uid, known, mode>>,
           \A d \in Client \ {c} : wrong'[d] = wrong[d]
    PROVE  SparesOthers(c)
<1> SUFFICES ASSUME NEW d \in Client \ {c}
             PROVE  /\ robbed[d] => robbed'[d]
                    /\ pc[d] = "user" /\ Blocked(uid[d]) => Blocked(uid[d])' \/ robbed'[d]
  BY DEF Moves, SparesOthers
<1>1. CASE robbed'[d] = robbed[d] /\ rules' = rules
  BY <1>1 DEF Blocked
<1>2. CASE robbed'[d] = (robbed[d] \/ pc[d] # "idle")
  <2>1. robbed[d] \in BOOLEAN
    BY DEF TypeOK
  <2> QED
    BY <1>2, <2>1
<1> QED
  BY <1>1, <1>2 DEF Deletes

LEMMA UdpInit == Init => WebInv /\ UdpBlocked
  BY DEF Init, WebInv, UdpBlocked, UidPC, RemovePC

(* Steps outside the rules.                                                *)
LEMMA UdpOutside ==
    ASSUME TypeOK, WebInv, UdpBlocked, NEW c \in Client,
           \/ Begin(c) \/ CheckV6(c) \/ End(c)
           \/ \E part \in Part : TurnOffV6(c, part)
    PROVE  WebInv' /\ UdpBlocked'
<1> USE DEF UidPC, RemovePC
<1>1. CASE Begin(c)
  <2>1. Moves(c) /\ pc'[c] = "v6check"
    BY <1>1, GoShape DEF Begin, AllPC, V6PC
  <2>2. SparesOthers(c)
    BY <1>1, <2>1, SparesIfKept DEF Begin, kernel, TypeOK
  <2> QED
    BY <1>1, <2>1, <2>2, UdpOneStep DEF Begin, kernel
<1>2. CASE CheckV6(c)
  <2>1. /\ Moves(c) /\ pc'[c] \in {"v6all", "table", "remove"}
        /\ pc'[c] = "remove" => mode[c] = "spoof"
    BY <1>2, DoneShape, GoShape, WebStartShape DEF CheckV6, AllPC, V6PC
  <2>2. \A d \in Client \ {c} : wrong'[d] = wrong[d]
    BY <1>2, WrongShape DEF CheckV6, Marks
  <2>3. SparesOthers(c)
    BY <1>2, <2>1, <2>2, SparesIfKept DEF CheckV6, kernel
  <2> QED
    BY <1>2, <2>1, <2>3, UdpOneStep DEF CheckV6, kernel
<1>3. CASE End(c)
  <2>1. Moves(c) /\ pc'[c] = "idle"
    BY <1>3, GoShape DEF End, AllPC
  <2>2. SparesOthers(c)
    BY <1>3, <2>1 DEF End, kernel, TypeOK, Moves, SparesOthers, Blocked
  <2> QED
    BY <1>3, <2>1, <2>2, UdpOneStep DEF End, kernel
<1>4. ASSUME NEW part \in Part, TurnOffV6(c, part)
      PROVE  WebInv' /\ UdpBlocked'
  <2>1. pc[c] \in V6PC
    BY <1>4 DEF TurnOffV6, V6PCOf, V6PC, Part
  <2>2. V6Next(part) \in {"v6rest", "v6tables"} \/ part = "tables"
    BY DEF V6Next, Part
  <2>3. /\ Moves(c) /\ pc'[c] \in {"v6check", "v6rest", "v6tables", "table", "remove"}
        /\ pc'[c] = "remove" => mode[c] = "spoof"
    BY <1>4, <2>1, <2>2, DoneShape, GoShape, CommandFailsShape, WebStartShape
       DEF TurnOffV6, AllPC, V6PC
  <2>4. \A d \in Client \ {c} : wrong'[d] = wrong[d]
    BY <1>4, CommandFailsShape DEF TurnOffV6, Marks
  <2>5. SparesOthers(c)
    BY <1>4, <2>3, <2>4, SparesIfKept DEF TurnOffV6, kernel
  <2> QED
    BY <1>4, <2>3, <2>5, UdpOneStep DEF TurnOffV6, kernel
<1> QED
  BY <1>1, <1>2, <1>3, <1>4

(* The port rules and the rules of the user.                               *)
LEMMA UdpBlock ==
    ASSUME TypeOK, WebInv, UdpBlocked, NEW c \in Client, BlockStep(c)
    PROVE  WebInv' /\ UdpBlocked'
<1> USE DEF UidPC, RemovePC
<1>0. /\ Moves(c) /\ UNCHANGED <<filter, hasOwner, uid, mode>>
      /\ mode[c] = "block" => WebStart(c) = "table"
      /\ mode[c] # "block" => WebStart(c) = "remove" /\ mode[c] = "spoof"
      /\ WebStart(c) \notin UidPC /\ WebStart(c) # "user"
  BY WebMoves, WebKeepsV6, WebStartShape DEF TypeOK
<1>1. CASE CheckTable(c)
  <2>1. IF filter THEN pc'[c] = "uid" ELSE pc'[c] = "user"
    BY <1>1, GoShape, DoneShape DEF CheckTable, AllPC, WebPC, V6PC
  <2>2. SparesOthers(c)
    BY <1>0, <1>1, SparesIfKept DEF CheckTable
  <2> QED
    BY <1>0, <2>1, <2>2, UdpOneStep DEF Safe
<1>2. CASE FindUid(c)
  <2>1. pc'[c] = "highCheck" \/ (pc'[c] = "clean" /\ known'[c])
    BY <1>2, GoShape DEF FindUid, AllPC, WebPC, TypeOK
  <2>2. \A d \in Client \ {c} : wrong'[d] = wrong[d] /\ known'[d] = known[d]
    BY <1>2, WrongShape DEF FindUid, Marks, TypeOK
  <2>3. SparesOthers(c)
    BY <1>0, <1>2, <2>2, SparesIfKept DEF FindUid
  <2> QED
    BY <1>0, <2>1, <2>3, UdpOneStep
<1>3. CASE CleanFallback(c)
  <2>1. Delete(c, High, "dnsCheck") /\ pc[c] = "clean" /\ UNCHANGED known
    BY <1>3 DEF CleanFallback
  <2>2. \/ UNCHANGED wrong /\ pc'[c] = "dnsCheck"
        \/ Marks(c) /\ pc'[c] \in {WebStart(c), "user"}
    BY <2>1, DeleteShape, CommandFailsShape, GoShape DEF AllPC, WebPC, V6PC
  <2>3. SparesOthers(c)
    BY <1>0, <2>1, <2>2, DeleteShape, SparesIfDeleted DEF Marks
  <2>4. known'[c]
    BY <2>1 DEF WebInv
  <2> QED
    BY <1>0, <2>2, <2>3, <2>4, UdpOneStep DEF Safe, Marks
<1>4. CASE CheckDns(c)
  <2>1. pc'[c] \in {"dropCheck", "dnsInsert"} /\ known'[c]
    BY <1>4, CheckShape, GoShape DEF CheckDns, AllPC, WebPC, WebInv
  <2>2. \A d \in Client \ {c} : wrong'[d] = wrong[d]
    BY <1>4, CheckShape, WrongShape DEF CheckDns, Marks
  <2>3. SparesOthers(c)
    BY <1>0, <1>4, <2>2, SparesIfKept DEF CheckDns
  <2> QED
    BY <1>0, <2>1, <2>3, UdpOneStep
<1>5. CASE InsertDns(c)
  <2>1. known'[c] /\ pc[c] \notin V6PC
    BY <1>5 DEF InsertDns, WebInv, V6PC
  <2>2. \/ UNCHANGED wrong /\ pc'[c] = "dropCheck"
        \/ UNCHANGED wrong /\ ~hasOwner /\ pc'[c] \in {WebStart(c), "user"}
        \/ Marks(c) /\ pc'[c] \in {WebStart(c), "user"}
    BY <1>5, <2>1, RaiseShape, CommandFailsShape, GoShape DEF InsertDns, AllPC, WebPC
  <2>3. \A q : Has(rules, q) => Has(rules', q)
    BY <1>5, RulesAreRules, InsertedShape, MaybeInsertedShape
       DEF InsertDns, TypeOK
  <2>4. SparesOthers(c)
    BY <1>0, <1>5, <2>2, <2>3, SparesIfKept DEF InsertDns, Marks
  <2> QED
    BY <1>0, <2>1, <2>2, <2>4, UdpOneStep DEF Safe, Marks
<1>6. CASE CheckDrop(c)
  <2>1. pc[c] \notin V6PC /\ known'[c] /\ UNCHANGED rules
    BY <1>6 DEF CheckDrop, V6PC, WebInv
  <2>2. \/ UNCHANGED wrong /\ Has(rules, Drop(uid[c])) /\ pc'[c] = "user"
        \/ UNCHANGED wrong /\ pc'[c] = "dropInsert"
        \/ Marks(c) /\ pc'[c] = "user"
    BY <1>6, <2>1, CheckShape, DoneShape, GoShape, WrongShape DEF CheckDrop, AllPC, WebPC
  <2>3. SparesOthers(c)
    BY <1>0, <1>6, <2>2, SparesIfKept DEF CheckDrop, Marks
  <2> QED
    BY <1>0, <2>1, <2>2, <2>3, UdpOneStep DEF Safe, Blocked, Marks
<1>7. CASE InsertDrop(c)
  <2>1. pc[c] \notin V6PC
    BY <1>7 DEF InsertDrop, V6PC
  <2>2. \/ UNCHANGED wrong /\ Has(rules', Drop(uid[c])) /\ pc'[c] = "user"
        \/ UNCHANGED wrong /\ pc'[c] = "highCheck"
        \/ Marks(c) /\ pc'[c] = "highCheck"
    BY <1>7, <2>1, DoneShape, GoShape, WrongShape, RulesAreRules, InsertedShape
       DEF InsertDrop, AllPC, WebPC, TypeOK
  <2>3. \A q : Has(rules, q) => Has(rules', q)
    BY <1>7, RulesAreRules, InsertedShape, MaybeInsertedShape
       DEF InsertDrop, TypeOK
  <2>4. SparesOthers(c)
    BY <1>0, <1>7, <2>2, <2>3, SparesIfKept DEF InsertDrop, Marks
  <2> QED
    BY <1>0, <2>2, <2>4, UdpOneStep DEF Safe, Blocked
<1>8. CASE CheckHigh(c)
  <2>1. pc[c] \notin V6PC /\ UNCHANGED rules
    BY <1>8 DEF CheckHigh, V6PC
  <2>2. \/ UNCHANGED wrong /\ Has(rules, High) /\ pc'[c] = "user"
        \/ UNCHANGED wrong /\ pc'[c] = "highInsert"
        \/ Marks(c) /\ pc'[c] = "user"
    BY <1>8, <2>1, CheckShape, DoneShape, GoShape, WrongShape DEF CheckHigh, AllPC, WebPC
  <2>3. SparesOthers(c)
    BY <1>0, <1>8, <2>2, SparesIfKept DEF CheckHigh, Marks
  <2> QED
    BY <1>0, <2>1, <2>2, <2>3, UdpOneStep DEF Safe, Blocked, Marks
<1>9. CASE InsertHigh(c)
  <2>1. pc[c] \notin V6PC
    BY <1>9 DEF InsertHigh, V6PC
  <2>2. /\ pc'[c] = "user"
        /\ (UNCHANGED wrong /\ Has(rules', High)) \/ Marks(c)
    BY <1>9, <2>1, DoneShape, WrongShape, RulesAreRules, InsertedShape DEF InsertHigh
  <2>3. \A q : Has(rules, q) => Has(rules', q)
    BY <1>9, RulesAreRules, InsertedShape, MaybeInsertedShape DEF InsertHigh
  <2>4. SparesOthers(c)
    BY <1>0, <1>9, <2>2, <2>3, SparesIfKept DEF InsertHigh, Marks
  <2> QED
    BY <1>0, <2>2, <2>4, UdpOneStep DEF Safe, Blocked, Marks
<1> QED
  BY <1>1, <1>2, <1>3, <1>4, <1>5, <1>6, <1>7, <1>8, <1>9 DEF BlockStep

(* Only a client that spoofs removes rules.                                *)
LEMMA UdpRemove ==
    ASSUME TypeOK, WebInv, UdpBlocked, NEW c \in Client, RemoveDrop(c) \/ RemoveHigh(c)
    PROVE  WebInv' /\ UdpBlocked'
<1>1. /\ Moves(c) /\ UNCHANGED <<filter, hasOwner, uid, mode>>
      /\ mode[c] = "spoof" /\ mode'[c] = "spoof" /\ WebStart(c) = "remove"
      /\ pc[c] \notin V6PC /\ UNCHANGED known
  BY WebMoves, WebKeepsV6, WebStartShape DEF RemoveDrop, RemoveHigh, WebInv, RemovePC, V6PC
<1>2. pc'[c] \notin UidPC
  BY <1>1, DeleteShape, CommandFailsShape, DoneShape, GoShape
     DEF RemoveDrop, RemoveHigh, UidPC, AllPC, WebPC
<1>3. \A d \in Client \ {c} : wrong'[d] = wrong[d]
  BY DeleteShape, CommandFailsShape, WrongShape DEF RemoveDrop, RemoveHigh, Marks
<1>4. \/ Deletes(c, Drop(uid[c])) \/ Deletes(c, High) \/ UNCHANGED <<rules, robbed>>
  BY DeleteShape DEF RemoveDrop, RemoveHigh
<1>5. SparesOthers(c)
  BY <1>1, <1>3, <1>4, SparesIfDeleted, SparesIfKept
<1> QED
  BY <1>1, <1>2, <1>5, UdpOneStep

LEMMA UdpStep == ASSUME TypeOK, WebInv, UdpBlocked, [Next]_vars
                 PROVE  WebInv' /\ UdpBlocked'
<1>1. CASE UNCHANGED vars
  BY <1>1 DEF WebInv, UdpBlocked, Blocked, vars
<1> QED
  BY <1>1, UdpOutside, UdpBlock, UdpRemove DEF Next

(* No browser in use in block mode sends UDP past the proxy, whatever the  *)
(* others of its namespace do, but for the listed exceptions               *)
(* (apply_webrtc_block, remove_webrtc_block).                              *)
THEOREM UdpStaysBlocked == Spec => []UdpBlocked
<1>1. TypeOK /\ WebInv /\ UdpBlocked /\ [Next]_vars => TypeOK' /\ WebInv' /\ UdpBlocked'
  BY TypeStep, UdpStep
<1> QED
  BY <1>1, TypeInit, UdpInit, PTL DEF Spec
-----------------------------------------------------------------------------
(* One client, and nothing goes wrong.                                     *)
Calm == wrong = [c \in Client |-> {}] /\ robbed = [c \in Client |-> FALSE]

LEMMA NothingGoesWrong ==
    ASSUME MaxWrong = 0, Calm, NEW c \in Client, NEW x
    PROVE  ~GoWrong(c, x)
<1>1. {y \in Client \X {"answer", "command"} : y[2] \in wrong[y[1]]} = {}
  BY DEF Calm
<1> QED
  BY <1>1, FS_EmptySet DEF GoWrong

LEMMA CalmStep ==
    ASSUME MaxWrong = 0, \A c, d \in Client : c = d, Calm, [Next]_vars
    PROVE  Calm'
<1>1. CASE UNCHANGED vars
  BY <1>1 DEF Calm, vars
<1>2. ASSUME NEW c \in Client, NEW r, NEW next, Delete(c, r, next) PROVE Calm'
  BY <1>2, NothingGoesWrong DEF Delete, Gone, CommandFails, Calm
<1>3. ASSUME NEW c \in Client, BlockStep(c) PROVE Calm'
  <2>1. CASE CleanFallback(c)
    BY <2>1, <1>2 DEF CleanFallback
  <2>2. CASE CheckTable(c) \/ FindUid(c)
    BY <2>2, NothingGoesWrong DEF CheckTable, FindUid, Calm
  <2>3. CASE CheckDns(c) \/ CheckDrop(c) \/ CheckHigh(c)
    BY <2>3, NothingGoesWrong DEF CheckDns, CheckDrop, CheckHigh, Check, Calm
  <2>4. CASE InsertDns(c) \/ InsertDrop(c) \/ InsertHigh(c)
    BY <2>4, NothingGoesWrong DEF InsertDns, InsertDrop, InsertHigh, CommandFails, Calm
  <2> QED
    BY <1>3, <2>1, <2>2, <2>3, <2>4 DEF BlockStep
<1>4. ASSUME NEW c \in Client, RemoveDrop(c) \/ RemoveHigh(c) PROVE Calm'
  BY <1>2, <1>4, NothingGoesWrong DEF RemoveDrop, RemoveHigh
<1>5. ASSUME NEW c \in Client, Begin(c) \/ CheckV6(c) PROVE Calm'
  BY <1>5, NothingGoesWrong DEF Begin, CheckV6, Calm
<1>6. ASSUME NEW c \in Client, NEW part \in Part, TurnOffV6(c, part) PROVE Calm'
  BY <1>6, NothingGoesWrong DEF TurnOffV6, CommandFails, Calm
<1>7. ASSUME NEW c \in Client, End(c) PROVE Calm'
  BY <1>7 DEF End, Calm
<1> QED
  BY <1>1, <1>3, <1>4, <1>5, <1>6, <1>7 DEF Next

(* Sessions cut anywhere and earlier sessions in the other mode do not     *)
(* open the ports by themselves: a client alone in its namespace, on a     *)
(* kernel with both modules and with no command lost, is blocked in every  *)
(* session (apply_webrtc_block).                                           *)
THEOREM AloneAlwaysBlocked ==
    ASSUME MaxWrong = 0, \A c, d \in Client : c = d
    PROVE  Spec => [](\A c \in Client :
               pc[c] = "user" /\ mode[c] = "block" /\ filter /\ hasOwner => Blocked(uid[c]))
<1> DEFINE Shut == \A c \in Client :
               pc[c] = "user" /\ mode[c] = "block" /\ filter /\ hasOwner => Blocked(uid[c])
<1>1. Init => Calm
  BY DEF Init, Calm
<1>2. Calm /\ [Next]_vars => Calm'
  BY CalmStep
<1>3. Calm /\ UdpBlocked => Shut
  BY DEF Calm, UdpBlocked
<1> QED
  BY <1>1, <1>2, <1>3, UdpStaysBlocked, PTL DEF Spec
=============================================================================
