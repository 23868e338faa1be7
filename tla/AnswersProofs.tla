---------------------------- MODULE AnswersProofs ----------------------------
(***************************************************************************)
(* Proofs about the components between a client and its answer, for every  *)
(* value of their constants: the history of a request, the mirrors, the    *)
(* log, the delivery of a stream, the cache of answers, the chain of       *)
(* models, and the frames of a chat.                                       *)
(*                                                                         *)
(* Each has an inductive invariant of its own; MCAnswers, whose parts      *)
(* share no state, keeps all of them.                                      *)
(***************************************************************************)
EXTENDS MCAnswers, FiniteSetTheorems, SequenceTheorems, WellFoundedInduction, TLAPS

-----------------------------------------------------------------------------
\* A set of numbers has a least one.
LEMMA NatMin == \A S \in SUBSET Nat : S # {} => \E m \in S : \A k \in S : m <= k
<1> SUFFICES ASSUME NEW S \in SUBSET Nat, S # {} PROVE \E m \in S : \A k \in S : m <= k
  OBVIOUS
<1>1. PICK m \in S : \A k \in S : ~(<<k, m>> \in OpToRel(<, Nat))
  BY NatLessThanWellFounded, WFMin, Zenon
<1>2. \A k \in S : ~(k < m)
  BY <1>1 DEF OpToRel
<1> QED
  BY <1>2

-----------------------------------------------------------------------------
(* RequestHistory: every message has the reasoning its model insists on, and *)
(* the rewritings that follow change no role but to that of the user.        *)

Roles == {"system", "user", "assistant", "tool"}
Parts == [of : Nat, part : {"text", "call"}]
HMessage == [role : Roles, calls : BOOLEAN, reasoning : BOOLEAN, parts : SUBSET Parts, of : Nat]
Reasoned == {m \in HMessage : NeedsReasoning(m) => m.reasoning}

HistoryInv ==
    /\ hAt \in {"arrived", "enhanced", "trimmed", "sent"}
    /\ hAt # "sent" => hMsgs \in Seq(HMessage) /\ hChanged = FALSE
    /\ hAt \in {"enhanced", "trimmed"} => hMsgs \in Seq(Reasoned)
    /\ \A i \in DOMAIN hMsgs : hMsgs[i] \in HMessage
    /\ PayloadLimit > 0 /\ hAt = "trimmed" => Len(hMsgs) <= PayloadLimit
    /\ RolesAlternate

LEMMA HistoryInitInv == HistoryInit => HistoryInv
<1> SUFFICES ASSUME HistoryInit PROVE HistoryInv
  OBVIOUS
<1>1. PICK kinds \in BoundedSeq(Kinds, HistoryLen) : hMsgs = [i \in DOMAIN kinds |-> Message(i, kinds[i])]
  BY DEF HistoryInit
<1>2. PICK n \in 0 .. HistoryLen : kinds \in [1 .. n -> Kinds]
  BY DEF BoundedSeq, SeqOf
<1>3. n \in Nat
  BY <1>2
<1>4. ASSUME NEW i \in 1 .. n PROVE Message(i, kinds[i]) \in HMessage
  <2>1. kinds[i] \in [role : Roles, text : BOOLEAN, calls : BOOLEAN]
    BY <1>2, HistoryAssumption DEF Roles
  <2> DEFINE parts == IF kinds[i].text THEN {[of |-> i, part |-> "text"]} ELSE {}
  <2>2. parts \in SUBSET Parts
    BY <1>3 DEF Parts
  <2> HIDE DEF parts
  <2>3. Message(i, kinds[i]) = [role |-> kinds[i].role, calls |-> kinds[i].calls, reasoning |-> FALSE,
                                parts |-> parts, of |-> i]
    BY DEF Message, parts
  <2> QED
    BY <1>3, <2>1, <2>2, <2>3 DEF HMessage
<1>5. hMsgs \in [1 .. n -> HMessage]
  BY <1>1, <1>2, <1>4
<1>6. hMsgs \in Seq(HMessage) /\ DOMAIN hMsgs = 1 .. n
  BY <1>3, <1>5
<1> QED
  BY <1>5, <1>6 DEF HistoryInit, HistoryInv, RolesAlternate

LEMMA EnhanceInv == ASSUME HistoryInv, Enhance PROVE HistoryInv'
<1> DEFINE n == Len(hMsgs)
           filled(m) == IF NeedsReasoning(m) THEN [m EXCEPT !.reasoning = TRUE] ELSE m
<1>1. hAt = "arrived" /\ hMsgs \in Seq(HMessage) /\ hChanged' = FALSE /\ hModel' = hModel /\ hAt' = "enhanced"
  BY DEF HistoryInv, Enhance
<1>2. n \in Nat /\ DOMAIN hMsgs = 1 .. n /\ \A i \in 1 .. n : hMsgs[i] \in HMessage
  BY <1>1
<1>3. hMsgs' = [i \in 1 .. n |-> filled(hMsgs[i])]
  BY <1>2, Zenon DEF Enhance
<1>4. \A m \in HMessage : filled(m) \in Reasoned
  <2> SUFFICES ASSUME NEW m \in HMessage PROVE filled(m) \in Reasoned
    OBVIOUS
  <2>1. CASE NeedsReasoning(m)
    <3>1. filled(m) = [m EXCEPT !.reasoning = TRUE] /\ filled(m) \in HMessage /\ filled(m).reasoning = TRUE
      BY <2>1 DEF HMessage
    <3> QED
      BY <3>1 DEF Reasoned
  <2>2. CASE ~NeedsReasoning(m)
    BY <2>2 DEF Reasoned
  <2> QED
    BY <2>1, <2>2
<1> HIDE DEF filled, n
<1>5. hMsgs' \in [1 .. n -> Reasoned] /\ hMsgs' \in [1 .. n -> HMessage]
  BY <1>2, <1>3, <1>4 DEF Reasoned
<1>6. hMsgs' \in Seq(Reasoned) /\ hMsgs' \in Seq(HMessage) /\ DOMAIN hMsgs' = 1 .. n
  BY <1>2, <1>5
<1>7. Reasoned' = Reasoned
  BY <1>1 DEF Reasoned, NeedsReasoning
<1> QED
  BY <1>1, <1>5, <1>6, <1>7 DEF HistoryInv, RolesAlternate

\* Text that is added changes nothing else.
LEMMA TextAdded ==
    ASSUME NEW m \in Reasoned, NEW p \in SUBSET Parts
    PROVE  /\ [m EXCEPT !.parts = p] \in Reasoned
           /\ [m EXCEPT !.parts = p].role = m.role
BY DEF Reasoned, HMessage, NeedsReasoning

\* What is cut leaves no more than the limit.
LEMMA CutFits ==
    ASSUME NEW s, Len(s) \in Nat, Len(s) > 1, PayloadLimit > 0
    PROVE  CutAt(s) \in 0 .. Len(s) - 1 /\ Len(s) - CutAt(s) <= PayloadLimit
<1> DEFINE enough == {k \in Cuts(s) : Len(s) - k <= PayloadLimit}
<1>1. PayloadLimit \in Nat
  BY HistoryAssumption
<1>2. enough \in SUBSET Nat /\ Len(s) - 1 \in enough /\ \A k \in enough : k \in 0 .. Len(s) - 1 /\ Len(s) - k <= PayloadLimit
  BY <1>1 DEF Cuts
<1>3. CutAt(s) = CHOOSE k \in enough : \A j \in enough : k <= j
  <2>1. CutAt(s) = IF enough = {} THEN Len(s) - 1 ELSE CHOOSE k \in enough : \A j \in enough : k <= j
    BY DEF CutAt
  <2> QED
    BY <1>2, <2>1
<1> HIDE DEF enough
<1>4. \E k \in enough : \A j \in enough : k <= j
  BY <1>2, NatMin
<1>5. CutAt(s) \in enough
  BY <1>3, <1>4
<1> QED
  BY <1>2, <1>5

LEMMA RepairedSound ==
    ASSUME NEW t \in Seq(Reasoned), Len(t) > 0
    PROVE  Repaired(t) \in Seq(Reasoned) /\ Len(Repaired(t)) <= Len(t)
<1> DEFINE users == {i \in DOMAIN t : t[i].role = "user"}
           first == CHOOSE i \in users : \A j \in users : i <= j
           joined == [t EXCEPT ![first].parts = @ \cup t[1].parts]
<1>1. Len(t) \in Nat /\ DOMAIN t = 1 .. Len(t) /\ \A i \in 1 .. Len(t) : t[i] \in Reasoned
  OBVIOUS
<1>2. Tail(t) \in Seq(Reasoned) /\ Len(Tail(t)) = Len(t) - 1
  BY <1>1
<1>3. CASE t[1].role # "tool"
  BY <1>1, <1>3 DEF Repaired
<1>4. CASE t[1].role = "tool" /\ users = {}
  <2>1. Repaired(t) = Tail(t)
    BY <1>4 DEF Repaired
  <2> QED
    BY <1>1, <1>2, <2>1
<1>5. CASE t[1].role = "tool" /\ users # {}
  <2>1. Repaired(t) = Tail(joined)
    BY <1>5 DEF Repaired
  <2>2. first \in 1 .. Len(t)
    <3>1. users \in SUBSET Nat /\ \A i \in users : i \in 1 .. Len(t)
      BY <1>1
    <3> HIDE DEF users
    <3>2. \E i \in users : \A j \in users : i <= j
      BY <1>5, <3>1, NatMin
    <3>3. first \in users
      BY <3>2
    <3> QED
      BY <3>1, <3>3
  <2> HIDE DEF first, users
  <2> DEFINE p == t[first].parts \cup t[1].parts
  <2>3. p \in SUBSET Parts /\ t[first] \in Reasoned
    BY <1>1, <2>2 DEF Reasoned, HMessage
  <2>4. joined = [t EXCEPT ![first] = [t[first] EXCEPT !.parts = p]]
    BY <1>1, <2>2
  <2> HIDE DEF p, joined
  <2> DEFINE m == [t[first] EXCEPT !.parts = p]
  <2>5. m \in Reasoned
    BY <2>3, TextAdded
  <2> HIDE DEF m
  <2>6. joined = [t EXCEPT ![first] = m]
    BY <2>4 DEF m
  <2>7. joined \in Seq(Reasoned) /\ Len(joined) = Len(t)
    <3>1. joined \in [1 .. Len(t) -> Reasoned]
      BY <1>1, <2>5, <2>6
    <3> QED
      BY <1>1, <3>1
  <2>8. Tail(joined) \in Seq(Reasoned) /\ Len(Tail(joined)) = Len(joined) - 1
    BY <1>1, <2>7
  <2> QED
    BY <1>1, <2>1, <2>7, <2>8
<1> QED
  BY <1>3, <1>4, <1>5

LEMMA TrimInv == ASSUME HistoryInv, Trim PROVE HistoryInv'
<1>1. /\ hAt = "enhanced" /\ hMsgs \in Seq(Reasoned) /\ hChanged' = FALSE /\ hModel' = hModel /\ hAt' = "trimmed"
      /\ hMsgs' = Trimmed(hMsgs)
  BY DEF HistoryInv, Trim
<1>2. Len(hMsgs) \in Nat /\ PayloadLimit \in Nat /\ \A i \in 1 .. Len(hMsgs) : hMsgs[i] \in Reasoned
  BY <1>1, HistoryAssumption
<1>3. hMsgs' \in Seq(Reasoned) /\ (PayloadLimit > 0 => Len(hMsgs') <= PayloadLimit)
  <2>1. CASE PayloadLimit = 0 \/ Len(hMsgs) <= 1 \/ Len(hMsgs) <= PayloadLimit
    <3>1. hMsgs' = hMsgs
      BY <1>1, <2>1 DEF Trimmed
    <3>2. PayloadLimit > 0 => Len(hMsgs) <= PayloadLimit
      BY <1>2, <2>1
    <3> QED
      BY <1>1, <3>1, <3>2
  <2>2. CASE ~(PayloadLimit = 0 \/ Len(hMsgs) <= 1 \/ Len(hMsgs) <= PayloadLimit)
    <3> DEFINE c == CutAt(hMsgs)
               t == SubSeq(hMsgs, c + 1, Len(hMsgs))
    <3>1. c \in 0 .. Len(hMsgs) - 1 /\ Len(hMsgs) - c <= PayloadLimit
      BY <1>2, <2>2, CutFits
    <3> HIDE DEF c
    <3>2. t \in Seq(Reasoned) /\ Len(t) = Len(hMsgs) - c
      <4>1. c + 1 \in Int /\ Len(hMsgs) \in Int /\ c + 1 <= Len(hMsgs)
            /\ \A i \in c + 1 .. Len(hMsgs) : hMsgs[i] \in Reasoned
        BY <1>2, <3>1
      <4>2. t \in Seq(Reasoned) /\ Len(t) = IF c + 1 <= Len(hMsgs) THEN Len(hMsgs) - (c + 1) + 1 ELSE 0
        BY <4>1, SubSeqProperties
      <4> QED
        BY <1>2, <3>1, <4>1, <4>2
    <3>3. hMsgs' = Repaired(t)
      BY <1>1, <2>2 DEF Trimmed, c
    <3> HIDE DEF t
    <3>4. Len(t) > 0
      BY <1>2, <3>1, <3>2
    <3>5. Repaired(t) \in Seq(Reasoned) /\ Len(Repaired(t)) <= Len(t)
      BY <3>2, <3>4, RepairedSound
    <3>6. Len(t) <= PayloadLimit /\ Len(t) \in Nat /\ Len(Repaired(t)) \in Nat
      BY <3>1, <3>2, <3>5
    <3> QED
      BY <1>2, <3>3, <3>5, <3>6
  <2> QED
    BY <2>1, <2>2
<1>4. Reasoned' = Reasoned
  BY <1>1 DEF Reasoned, NeedsReasoning
<1>5. hMsgs' \in Seq(HMessage) /\ \A i \in DOMAIN hMsgs' : hMsgs'[i] \in HMessage
  BY <1>3 DEF Reasoned
<1> QED
  BY <1>1, <1>3, <1>4, <1>5 DEF HistoryInv, RolesAlternate

\* A message of one of three roles.
Known == {m \in Reasoned : m.role \in {"user", "assistant", "tool"}}

LEMMA KnownSound == \A m \in Reasoned : KnownRole(CallsAsText(m)) \in Known
<1> SUFFICES ASSUME NEW m \in Reasoned PROVE KnownRole(CallsAsText(m)) \in Known
  OBVIOUS
<1> DEFINE t == CallsAsText(m)
<1>1. t \in Reasoned
  <2>1. CASE hTools = "none" /\ m.role = "assistant" /\ m.calls
    <3> DEFINE p == {[of |-> m.of, part |-> "call"]}
    <3>1. p \in SUBSET Parts
      BY DEF Reasoned, HMessage, Parts
    <3>2. t = [m EXCEPT !.calls = FALSE, !.parts = p]
      BY <2>1 DEF CallsAsText
    <3> HIDE DEF p, t
    <3>3. t \in HMessage /\ t.role = m.role /\ t.reasoning = m.reasoning /\ t.calls = FALSE
      BY <3>1, <3>2 DEF Reasoned, HMessage
    <3> QED
      BY <2>1, <3>3 DEF Reasoned, NeedsReasoning
  <2>2. CASE ~(hTools = "none" /\ m.role = "assistant" /\ m.calls)
    BY <2>2 DEF CallsAsText
  <2> QED
    BY <2>1, <2>2
<1> HIDE DEF t
<1>2. CASE t.role \in {"user", "assistant", "tool"}
  BY <1>1, <1>2 DEF KnownRole, Known, t
<1>3. CASE t.role \notin {"user", "assistant", "tool"}
  <2> DEFINE u == [t EXCEPT !.role = "user"]
  <2>1. u \in HMessage /\ u.role = "user"
    BY <1>1 DEF Reasoned, HMessage, Roles
  <2>2. KnownRole(t) = u
    BY <1>3 DEF KnownRole
  <2> HIDE DEF u
  <2> QED
    BY <2>1, <2>2 DEF Known, Reasoned, NeedsReasoning, t
<1> QED
  BY <1>2, <1>3

LEMMA UserFirstSound ==
    ASSUME NEW s \in Seq(Known), Len(s) > 0
    PROVE  UserFirst(s) \in Seq(Known) /\ Len(UserFirst(s)) > 0 /\ UserFirst(s)[1].role = "user"
<1>1. CASE s[1].role = "user"
  BY <1>1 DEF UserFirst
<1>2. CASE s[1].role # "user"
  <2>1. Placeholder \in Known /\ Placeholder.role = "user"
    BY DEF Placeholder, Known, Reasoned, HMessage, Roles, NeedsReasoning
  <2> DEFINE p == Placeholder
             one == <<p>>
  <2>2. UserFirst(s) = one \o s
    BY <1>2 DEF UserFirst
  <2> HIDE DEF p
  <2>3. one \in Seq(Known) /\ Len(one) = 1 /\ one[1] = p
    BY <2>1 DEF p
  <2> HIDE DEF one
  <2>4. one \o s \in Seq(Known) /\ (one \o s)[1] = one[1] /\ Len(one \o s) > 0
    <3>1. /\ one \o s \in Seq(Known) /\ Len(one \o s) = Len(one) + Len(s)
          /\ \A i \in 1 .. Len(one) + Len(s) : (one \o s)[i] = IF i <= Len(one) THEN one[i] ELSE s[i - Len(one)]
      BY <2>3, ConcatProperties
    <3>2. Len(s) \in Nat
      OBVIOUS
    <3> QED
      BY <2>3, <3>1, <3>2
  <2> QED
    BY <2>1, <2>2, <2>3, <2>4 DEF p
<1> QED
  BY <1>1, <1>2

\* A message leads unless it has the role of the one that leads before it.
LEMMA MergedSound ==
    ASSUME NEW s \in Seq(Known), Len(s) > 0, s[1].role = "user"
    PROVE  /\ \A i \in DOMAIN Merged(s) : Merged(s)[i] \in Known
           /\ 1 \in DOMAIN Merged(s) /\ Merged(s)[1].role = "user"
           /\ \A i, j \in DOMAIN Merged(s) :
                 i < j /\ (\A k \in DOMAIN Merged(s) : k <= i \/ j <= k)
                 => Merged(s)[i].role # Merged(s)[j].role
<1> DEFINE lead == {j \in DOMAIN s : Leads(s, j)}
<1>1. Len(s) \in Nat /\ DOMAIN s = 1 .. Len(s) /\ \A i \in 1 .. Len(s) : s[i] \in Known
  OBVIOUS
<1>2. DOMAIN Merged(s) = lead /\ \A i \in lead : Merged(s)[i] = [s[i] EXCEPT !.parts = LedText(s, i)]
  BY DEF Merged
<1>3. ASSUME NEW i \in lead PROVE Merged(s)[i] \in Known /\ Merged(s)[i].role = s[i].role
  <2>1. \A j \in DOMAIN s : s[j].parts \in SUBSET Parts
    BY <1>1 DEF Known, Reasoned, HMessage
  <2>2. i \in DOMAIN s /\ Led(s, i) \subseteq DOMAIN s
    BY DEF Led
  <2>3. LedText(s, i) \in SUBSET Parts
    BY <2>1, <2>2 DEF LedText
  <2> DEFINE p == LedText(s, i)
  <2> HIDE DEF p
  <2>4. s[i] \in Reasoned /\ s[i].role \in {"user", "assistant", "tool"} /\ p \in SUBSET Parts
    BY <1>1, <2>2, <2>3 DEF Known, p
  <2>5. [s[i] EXCEPT !.parts = p] \in Reasoned /\ [s[i] EXCEPT !.parts = p].role = s[i].role
    BY <2>4, TextAdded
  <2>6. Merged(s)[i] = [s[i] EXCEPT !.parts = p]
    BY <1>2 DEF p
  <2> QED
    BY <2>4, <2>5, <2>6 DEF Known
<1>4. 1 \in lead
  BY <1>1 DEF Leads
<1>5. ASSUME NEW i \in lead, NEW j \in lead, i < j, \A k \in lead : k <= i \/ j <= k
      PROVE  s[i].role # s[j].role
  <2> DEFINE other == {q \in i .. j - 1 : s[q].role # s[i].role}
  <2>1. i \in 1 .. Len(s) /\ j \in 1 .. Len(s) /\ i <= j - 1 /\ j # 1
    BY <1>1, <1>5
  <2>2. other = {}
    <3> SUFFICES ASSUME other # {} PROVE FALSE
      OBVIOUS
    <3>1. other \in SUBSET Nat
      BY <2>1
    <3> HIDE DEF other
    <3>2. PICK q \in other : \A k \in other : q <= k
      BY <3>1, NatMin
    <3>3. q \in i .. j - 1 /\ s[q].role # s[i].role
      BY DEF other
    <3>4. q \in Int /\ q > i /\ q < j /\ q - 1 \in i .. j - 1
      BY <2>1, <3>3
    <3>5. q - 1 \notin other
      BY <3>2, <3>4
    <3>6. s[q - 1].role = s[i].role
      BY <3>4, <3>5 DEF other
    <3>7. q \in DOMAIN s
      BY <1>1, <2>1, <3>4
    <3>8. q \in lead
      BY <3>3, <3>6, <3>7 DEF Leads
    <3>9. q <= i \/ j <= q
      BY <1>5, <3>8
    <3> QED
      BY <2>1, <3>4, <3>9
  <2>3. j - 1 \in i .. j - 1
    BY <2>1
  <2>4. s[j - 1].role = s[i].role
    BY <2>2, <2>3
  <2>5. s[j].role # s[j - 1].role
    BY <2>1 DEF Leads
  <2> QED
    BY <2>4, <2>5
<1> HIDE DEF lead
<1>6. Merged(s)[1].role = "user"
  BY <1>3, <1>4
<1>7. ASSUME NEW i \in lead, NEW j \in lead, i < j, \A k \in lead : k <= i \/ j <= k
      PROVE  Merged(s)[i].role # Merged(s)[j].role
  BY <1>3, <1>5, <1>7
<1> QED
  BY <1>2, <1>3, <1>4, <1>6, <1>7

LEMMA NormalizeInv == ASSUME HistoryInv, Normalize PROVE HistoryInv'
<1>1. /\ hAt = "trimmed" /\ hMsgs \in Seq(Reasoned) /\ hChanged = FALSE /\ hModel' = hModel /\ hAt' = "sent"
      /\ \A i \in DOMAIN hMsgs : hMsgs[i] \in HMessage
  BY DEF HistoryInv, Normalize
<1>2. CASE UNCHANGED <<hMsgs, hChanged>>
  BY <1>1, <1>2 DEF HistoryInv, RolesAlternate
<1>3. CASE hMsgs # <<>> /\ ~UNCHANGED <<hMsgs, hChanged>>
  <2> DEFINE known == [i \in DOMAIN hMsgs |-> KnownRole(CallsAsText(hMsgs[i]))]
             begun == UserFirst(known)
  <2>1. hMsgs' = Merged(begun) /\ hChanged' = TRUE
    BY <1>3, Zenon DEF Normalize
  <2>2. known \in Seq(Known) /\ Len(known) > 0
    <3>1. Len(hMsgs) \in Nat /\ Len(hMsgs) # 0 /\ DOMAIN hMsgs = 1 .. Len(hMsgs) /\ \A i \in 1 .. Len(hMsgs) : hMsgs[i] \in Reasoned
      BY <1>1, <1>3
    <3>2. known \in [1 .. Len(hMsgs) -> Known]
      BY <3>1, KnownSound
    <3> HIDE DEF known
    <3> QED
      BY <3>1, <3>2
  <2> HIDE DEF known
  <2>3. begun \in Seq(Known) /\ Len(begun) > 0 /\ begun[1].role = "user"
    BY <2>2, UserFirstSound
  <2> HIDE DEF begun
  <2>4. /\ \A i \in DOMAIN hMsgs' : hMsgs'[i] \in Known
        /\ hMsgs'[1].role = "user"
        /\ \A i, j \in DOMAIN hMsgs' :
              i < j /\ (\A k \in DOMAIN hMsgs' : k <= i \/ j <= k) => hMsgs'[i].role # hMsgs'[j].role
    BY <2>1, <2>3, MergedSound
  <2>5. Reasoned' = Reasoned /\ \A m : NeedsReasoning(m)' <=> NeedsReasoning(m)
    BY <1>1 DEF Reasoned, NeedsReasoning
  <2>6. \A i \in DOMAIN hMsgs' : hMsgs'[i] \in HMessage /\ (NeedsReasoning(hMsgs[i])' => hMsgs'[i].reasoning)
    BY <1>1, <2>4 DEF Known, Reasoned, NeedsReasoning
  <2>7. RolesAlternate'
    BY <2>4, <2>6 DEF RolesAlternate, Follows
  <2> QED
    BY <1>1, <2>6, <2>7 DEF HistoryInv
<1> QED
  BY <1>2, <1>3, Zenon DEF Normalize

LEMMA HistoryNextInv == HistoryInv /\ [HistoryNext]_historyVars => HistoryInv'
<1> SUFFICES ASSUME HistoryInv, [HistoryNext]_historyVars PROVE HistoryInv'
  OBVIOUS
<1>1. CASE SendAsIs
  BY <1>1 DEF SendAsIs, HistoryInv, RolesAlternate
<1>2. CASE UNCHANGED historyVars
  <2>1. Reasoned' = Reasoned
    BY <1>2 DEF historyVars, Reasoned, NeedsReasoning
  <2>2. RolesAlternate' <=> RolesAlternate
    BY <1>2 DEF historyVars, RolesAlternate, NeedsReasoning, Follows
  <2> QED
    BY <1>2, <2>1, <2>2 DEF historyVars, HistoryInv
<1> QED
  BY <1>1, <1>2, EnhanceInv, TrimInv, NormalizeInv DEF HistoryNext

\* enhanceRequestBodyPayload, trimPayloadToLimit and normalizeMessages one after the
\* other: a history that was written anew begins with the user, changes roles at
\* every message and has its reasoning, for any messages and any limit.  Of a history
\* that was left alone, and of results without calls, this says nothing.
THEOREM RewrittenRolesAlternate == HistorySpec => []RolesAlternate
<1>1. HistoryInv => RolesAlternate
  BY DEF HistoryInv
<1> QED
  BY HistoryInitInv, HistoryNextInv, <1>1, PTL DEF HistorySpec

-----------------------------------------------------------------------------
(* MirrorPool: the cursor comes one mirror nearer with every pick, and a    *)
(* mirror that is ready under the cursor is the one picked.                 *)

\* How far the cursor is from place i of the pool.
Ahead(i, c) == IF i > c THEN i - 1 - c ELSE i - 1 - c + N

TurnInv ==
    /\ cursor \in 0 .. N - 1
    /\ DOMAIN since = Mirrors
    /\ \A i \in 1 .. N : since[Pool[i]] \in Nat /\ since[Pool[i]] + Ahead(i, cursor) < N

LEMMA ModN == \A c \in 0 .. N - 1 : c % N = c /\ (c + 1) % N = IF c + 1 = N THEN 0 ELSE c + 1
<1>1. N % N = 0
  BY PoolAssumption
<1>2. \A c \in 0 .. N - 1 : c % N = c
  BY PoolAssumption
<1> QED
  BY <1>1, <1>2, PoolAssumption

LEMMA TurnInit == MirrorInit => TurnInv
<1> SUFFICES ASSUME MirrorInit PROVE TurnInv
  OBVIOUS
<1>1. cursor = 0 /\ 0 \in 0 .. N - 1 /\ since = [m \in Mirrors |-> 0]
  BY PoolAssumption DEF MirrorInit
<1>2. \A i \in 1 .. N : Pool[i] \in Mirrors /\ Ahead(i, 0) = i - 1
  BY PoolAssumption DEF Mirrors, Ahead
<1> QED
  BY <1>1, <1>2, PoolAssumption DEF TurnInv

\* A mirror that is ready with the cursor on it is picked.
LEMMA UnderCursor ==
    ASSUME cursor \in 0 .. N - 1, Ready(Pool[cursor + 1])
    PROVE  Picked = Pool[cursor + 1]
<1> DEFINE ready == {i \in 0 .. N - 1 : Ready(MirrorAt(cursor + i))}
<1>1. MirrorAt(cursor + 0) = Pool[cursor + 1]
  <2>1. cursor + 0 = cursor
    BY PoolAssumption
  <2>2. cursor % N = cursor
    BY ModN
  <2> QED
    BY <2>1, <2>2 DEF MirrorAt
<1>2. 0 \in ready /\ \A i \in ready : 0 <= i
  BY <1>1, PoolAssumption
<1> HIDE DEF ready
<1>3. Min(ready) = 0
  <2>1. \A x \in ready : (\A y \in ready : x <= y) => x = 0
    <3> SUFFICES ASSUME NEW x \in ready, \A y \in ready : x <= y PROVE x = 0
      OBVIOUS
    <3>1. x \in Nat
      BY DEF ready
    <3> QED
      BY <1>2, <3>1
  <2> QED
    BY <1>2, <2>1 DEF Min
<1> QED
  BY <1>1, <1>2, <1>3 DEF Picked, ready

LEMMA TurnNext == TurnInv /\ [MirrorNext]_mirrorVars => TurnInv'
<1> SUFFICES ASSUME TurnInv, [MirrorNext]_mirrorVars PROVE TurnInv'
  OBVIOUS
<1>1. ASSUME NEW r \in Requests, PickMirror(r) PROVE TurnInv'
  <2>1. /\ cursor' = (cursor + 1) % N
        /\ since' = [m \in Mirrors |-> IF m = Picked \/ ~Ready(m) THEN 0 ELSE since[m] + 1]
    BY <1>1 DEF PickMirror, Advanced
  <2>2. cursor \in 0 .. N - 1 /\ cursor' = IF cursor + 1 = N THEN 0 ELSE cursor + 1
    BY <2>1, ModN DEF TurnInv
  <2>3. ASSUME NEW i \in 1 .. N PROVE since'[Pool[i]] \in Nat /\ since'[Pool[i]] + Ahead(i, cursor') < N
    <3>1. Pool[i] \in Mirrors
      BY PoolAssumption DEF Mirrors
    <3>2. CASE Pool[i] = Picked \/ ~Ready(Pool[i])
      BY <2>1, <2>2, <3>1, <3>2, PoolAssumption DEF Ahead
    <3>3. CASE Pool[i] # Picked /\ Ready(Pool[i])
      <4>1. i # cursor + 1
        BY <2>2, <3>3, UnderCursor
      <4> QED
        BY <2>1, <2>2, <3>1, <3>3, <4>1, PoolAssumption DEF Ahead, TurnInv
    <3> QED
      BY <3>2, <3>3
  <2>4. cursor' \in 0 .. N - 1 /\ DOMAIN since' = Mirrors
    BY <2>1, <2>2, PoolAssumption
  <2> QED
    BY <2>3, <2>4 DEF TurnInv
<1>2. CASE UNCHANGED <<cursor, since>>
  BY <1>2 DEF TurnInv, Ahead
<1> QED
  BY <1>1, <1>2 DEF MirrorNext, MirrorDispatch, GiveUp, NothingLeft, RaceLost, RaceLimited, RaceEnds,
     Cancelled, Race, LaneEmpty, RaceWon, ChargePicked, SparePicked, CreditWinner, StreamEnds,
     LeaveMirror, FetchModels, Tick, mirrorVars

\* pickUpstream: whatever the health of the others, whoever shares the cursor and
\* whatever else goes on, a mirror that is ready has its turn within N picks.
THEOREM EveryMirrorHasItsTurn == MirrorSpec => []NoMirrorStarves
<1>1. TurnInv => NoMirrorStarves
  BY PoolAssumption DEF TurnInv, NoMirrorStarves, Mirrors, Ahead
<1> QED
  BY TurnInit, TurnNext, <1>1, PTL DEF MirrorSpec

-----------------------------------------------------------------------------
\* LogKit: every count is a number ...
LogCounts ==
    /\ lgCount \in Int /\ lgSecDrop \in Int
    /\ lgWritten \in Int /\ lgShown \in Int /\ lgFolded \in Int /\ lgDropped \in Int

\* ... and a line that may be repeated was counted when it came, which a
\* forgotten one, and none else, was not.
LastCounted == lgCount >= 0 /\ (lgMsg # NoLine => lgCount >= 1)

LogInv == LogCounts /\ LastCounted /\ NoLineUncounted

LEMMA LogInitInv == LogInit => LogInv
BY DEF LogInit, LogInv, LogCounts, LastCounted, NoLineUncounted, Folding

LEMMA LogNextInv == LogInv /\ [LogNext]_logVars => LogInv'
<1> SUFFICES ASSUME LogInv, [LogNext]_logVars PROVE LogInv'
  OBVIOUS
<1> USE DEF LogInv, LogCounts, LastCounted, NoLineUncounted, Folding
<1>1. CASE LogTick
  BY <1>1 DEF LogTick
<1>2. CASE TimerFires
  BY <1>2 DEF TimerFires
<1>3. CASE TimerReports
  \* What was folded is reported, and the line forgotten.
  BY <1>3 DEF TimerReports, Folded
<1>4. ASSUME NEW m \in Lines, Repeat(m) PROVE LogInv'
  \* The last line is a line, so its count is one more than what is folded.
  BY <1>4, LogAssumption DEF Repeat
<1>5. ASSUME NEW m \in Lines, WriteLine(m) PROVE LogInv'
  <2>1. PICK drop \in {0, 1} :
          /\ lgSecDrop' = (IF Turned THEN 0 ELSE lgSecDrop) + drop
          /\ lgShown' = lgShown + 1 - drop
    BY <1>5 DEF WriteLine, One
  <2>2. lgSecDrop' + Reported = lgSecDrop + drop
    BY <2>1 DEF Reported
  <2> QED
    BY <1>5, <2>1, <2>2 DEF WriteLine, Folded, Reported
<1>6. CASE UNCHANGED logVars
  BY <1>6 DEF logVars
<1> QED
  BY <1>1, <1>2, <1>3, <1>4, <1>5, <1>6 DEF LogNext

\* Write, flushDupLocked and floodLocked lose no line without a trace, for any
\* limits, any lines, and however late the timers have the mutex.
THEOREM LinesAccounted == LogSpec => []NoLineUncounted
<1>1. LogInv => NoLineUncounted
  BY DEF LogInv
<1> QED
  BY LogInitInv, LogNextInv, <1>1, PTL DEF LogSpec

-----------------------------------------------------------------------------
(* StreamDelivery: what the client has got, what is held or put in front,   *)
(* and what is still to be read follow each other in one stream; the head   *)
(* of a line that is kept is forwarded only as the next line of it.         *)

Event == [of : Nat, i : Nat, kind : EventKinds \cup {"junk", "body", "error", "tail"},
          mark : BOOLEAN, part : {"whole", "tail"}]
Real(e) == e.of # 0

\* Lines of the n-th stream in their order, with no end before its last event, which
\* carries a marker ...
Run(lines, n, last) ==
    /\ lines \in Seq(Event)
    /\ \A k \in DOMAIN lines : /\ Real(lines[k]) => lines[k].of = n
                               /\ lines[k].kind = "done" => Real(lines[k]) /\ lines[k].i = last /\ lines[k].mark
    /\ \A j, k \in DOMAIN lines : j < k /\ Real(lines[j]) /\ Real(lines[k]) => lines[j].i < lines[k].i

\* ... and none of them after those of another part of it.
Before(lines, more) ==
    \A j \in DOMAIN lines, k \in DOMAIN more : Real(lines[j]) /\ Real(more[k]) => lines[j].i < more[k].i

AllWhole(lines) == \A k \in DOMAIN lines : lines[k].part = "whole"

LEMMA RunOfNone == ASSUME NEW n, NEW last PROVE Run(<<>>, n, last)
BY DEF Run

LEMMA RunConcat ==
    ASSUME NEW n, NEW last, NEW s, NEW t, Run(s, n, last), Run(t, n, last), Before(s, t)
    PROVE  Run(s \o t, n, last)
<1>1. s \in Seq(Event) /\ t \in Seq(Event) /\ s \o t \in Seq(Event) /\ DOMAIN (s \o t) = 1 .. Len(s) + Len(t)
      /\ DOMAIN s = 1 .. Len(s) /\ DOMAIN t = 1 .. Len(t) /\ Len(s) \in Nat /\ Len(t) \in Nat
  BY DEF Run
<1>2. \A k \in DOMAIN (s \o t) :
         \/ k \in DOMAIN s /\ (s \o t)[k] = s[k]
         \/ k > Len(s) /\ k - Len(s) \in DOMAIN t /\ (s \o t)[k] = t[k - Len(s)]
  BY <1>1
<1> DEFINE st == s \o t
<1> HIDE DEF st
<1>3. \A k \in DOMAIN st : /\ Real(st[k]) => st[k].of = n
                           /\ st[k].kind = "done" => Real(st[k]) /\ st[k].i = last /\ st[k].mark
  BY <1>2 DEF Run, st
<1>4. ASSUME NEW j \in DOMAIN st, NEW k \in DOMAIN st, j < k, Real(st[j]), Real(st[k])
      PROVE  st[j].i < st[k].i
  <2>1. CASE k \in DOMAIN s /\ st[k] = s[k]
    <3>1. j \in DOMAIN s /\ st[j] = s[j]
      BY <1>1, <1>2, <1>4, <2>1 DEF st
    <3> QED
      BY <1>4, <2>1, <3>1 DEF Run
  <2>2. CASE k > Len(s) /\ k - Len(s) \in DOMAIN t /\ st[k] = t[k - Len(s)]
    <3>1. CASE j \in DOMAIN s /\ st[j] = s[j]
      BY <1>4, <2>2, <3>1 DEF Before
    <3>2. CASE j > Len(s) /\ j - Len(s) \in DOMAIN t /\ st[j] = t[j - Len(s)]
      <4>1. j - Len(s) < k - Len(s)
        BY <1>1, <1>4 DEF st
      <4> QED
        BY <1>4, <2>2, <3>2, <4>1 DEF Run
    <3> QED
      BY <1>2, <3>1, <3>2 DEF st
  <2> QED
    BY <1>2, <2>1, <2>2 DEF st
<1> QED
  BY <1>1, <1>3, <1>4 DEF Run, st

LEMMA BeforeConcat ==
    ASSUME NEW s \in Seq(Event), NEW t \in Seq(Event), NEW u, Before(s, u), Before(t, u)
    PROVE  Before(s \o t, u)
<1>1. \A k \in DOMAIN (s \o t) :
         \/ k \in DOMAIN s /\ (s \o t)[k] = s[k]
         \/ k - Len(s) \in DOMAIN t /\ (s \o t)[k] = t[k - Len(s)]
  OBVIOUS
<1> QED
  BY <1>1 DEF Before

LEMMA WholeConcat ==
    ASSUME NEW s \in Seq(Event), NEW t \in Seq(Event), AllWhole(s), AllWhole(t)
    PROVE  AllWhole(s \o t)
<1>1. \A k \in DOMAIN (s \o t) :
         \/ k \in DOMAIN s /\ (s \o t)[k] = s[k]
         \/ k - Len(s) \in DOMAIN t /\ (s \o t)[k] = t[k - Len(s)]
  OBVIOUS
<1> QED
  BY <1>1 DEF AllWhole

-----------------------------------------------------------------------------
\* What is read, or still to be read, of a stream.
DeliveryShape ==
    /\ dAt \in {"start", "hold", "pass", "resume", "done"}
    /\ dTry \in 0 .. (HoldRetries + 1)
    /\ dOut \in Seq(Event)
    /\ dPend \in Seq(Event) /\ Len(dPend) <= 1 /\ AllWhole(dPend)
    /\ dReports \in Seq(BOOLEAN)
    /\ dAt = "start" => dTry = 0
    /\ dAt \in {"hold", "pass"} => dTry > 0
    /\ dAt \in {"start", "hold"} => dOut = <<>> /\ dPrefix = <<>>
    /\ dAt # "hold" => dHeld = <<>>
    /\ dAt = "start" => dBody = <<>> /\ dPend = <<>>
    /\ dAt \in {"start", "hold", "pass"} => dReports = <<>>
    /\ dAt = "resume" => Len(dReports) = 1 /\ dReports # <<FALSE>> /\ ~Ends(dOut)

BodyRun(last) ==
    /\ Run(dBody, dTry, last)
    /\ \A k \in DOMAIN dBody : Real(dBody[k]) /\ (k > 1 => dBody[k].part = "whole")

InOrder(last) ==
    /\ BodyRun(last) /\ Run(dOut, dTry, last)
    /\ Run(dHeld, dTry, last) /\ AllWhole(dHeld)
    /\ Run(dPrefix, dTry, last) /\ AllWhole(dPrefix)
    /\ Before(dOut, dPrefix) /\ Before(dOut, dBody) /\ Before(dHeld, dBody) /\ Before(dPrefix, dBody)

DeliveryInv ==
    /\ DeliveryShape /\ ReportedOnce /\ OneStream
    /\ dAt \notin {"start", "done"} => \E last \in Nat : InOrder(last)

\* OneStream, of any lines
OneIn(lines) ==
    \A j, k \in DOMAIN lines :
        /\ Real(lines[j]) /\ Real(lines[k]) => lines[j].of = lines[k].of /\ (j < k => lines[j].i < lines[k].i)
        /\ lines[j].kind = "done" /\ lines[k].kind = "done" => j = k

LEMMA RunIsOne ==
    ASSUME NEW n, NEW last, NEW s, Run(s, n, last) PROVE OneIn(s)
<1>0. s \in Seq(Event) /\ DOMAIN s = 1 .. Len(s) /\ Len(s) \in Nat
  BY DEF Run
<1>1. \A j \in DOMAIN s : j \in Int /\ s[j].i \in Nat
  <2>1. \A j \in DOMAIN s : j \in Int /\ s[j] \in Event
    BY <1>0
  <2> QED
    BY <2>1 DEF Event
<1>2. ASSUME NEW j \in DOMAIN s, NEW k \in DOMAIN s, Real(s[j]), Real(s[k])
      PROVE  s[j].of = s[k].of /\ (j < k => s[j].i < s[k].i)
  BY <1>2 DEF Run
<1>3. ASSUME NEW j \in DOMAIN s, NEW k \in DOMAIN s, s[j].kind = "done", s[k].kind = "done"
      PROVE  j = k
  <2>1. Real(s[j]) /\ Real(s[k]) /\ s[j].i = s[k].i
    BY <1>3 DEF Run
  <2>2. ~(s[j].i < s[k].i) /\ ~(s[k].i < s[j].i)
    BY <1>1, <2>1
  <2>3. ~(j < k) /\ ~(k < j)
    BY <1>2, <2>1, <2>2
  <2> QED
    BY <1>1, <2>3
<1> QED
  BY <1>2, <1>3 DEF OneIn

-----------------------------------------------------------------------------
\* The first line of the body is forwarded as it is, as none, or as no event.
LEMMA AtMostOne == \A n \in Nat : n <= 1 => n = 0 \/ n = 1
OBVIOUS

LEMMA LenZero == \A S : <<>> \in Seq(S) /\ \A s \in Seq(S) : Len(s) = 0 => s = <<>>
OBVIOUS

LEMMA OneEvent == \A e \in Event : <<e>> \in Seq(Event) /\ Len(<<e>>) = 1 /\ \A k \in DOMAIN <<e>> : <<e>>[k] = e
OBVIOUS

\* What is left of a broken line.
Broken == {[Junk EXCEPT !.mark = m] : m \in BOOLEAN}

LEMMA BrokenLine ==
    \A e \in Broken : e \in Event /\ ~Real(e) /\ e.kind = "junk" /\ e.part = "whole"
BY DEF Broken, Junk, Event, Real

LEMMA BrokenOne ==
    ASSUME NEW marks \in SUBSET BOOLEAN, NEW s \in Garbled(marks)
    PROVE  \E e \in Broken : s = <<e>>
<1>1. PICK m \in {FALSE} \cup marks : s = <<[Junk EXCEPT !.mark = m]>>
  BY DEF Garbled
<1>2. m \in BOOLEAN
  OBVIOUS
<1> DEFINE e == [Junk EXCEPT !.mark = m]
<1>3. e \in Broken
  BY <1>2 DEF Broken
<1> QED
  BY <1>1, <1>3

\* One line: not out of place in any stream, before or after anything.
LEMMA BrokenRun ==
    ASSUME NEW n, NEW last, NEW e \in Broken
    PROVE  Run(<<e>>, n, last) /\ (\A u : Before(u, <<e>>) /\ Before(<<e>>, u))
<1>1. e \in Event /\ ~Real(e) /\ e.kind # "done"
  BY BrokenLine
<1>2. <<e>> \in Seq(Event) /\ \A k \in DOMAIN <<e>> : <<e>>[k] = e
  BY <1>1, OneEvent
<1> QED
  BY <1>1, <1>2 DEF Run, Before

LEMMA BeforeBoth ==
    ASSUME NEW s \in Seq(Event), NEW t \in Seq(Event), NEW u, Before(u, s), Before(u, t)
    PROVE  Before(u, s \o t)
<1>1. \A k \in DOMAIN (s \o t) :
         \/ k \in DOMAIN s /\ (s \o t)[k] = s[k]
         \/ k - Len(s) \in DOMAIN t /\ (s \o t)[k] = t[k - Len(s)]
  OBVIOUS
<1> QED
  BY <1>1 DEF Before

LEMMA PendCases ==
    ASSUME dPend \in Seq(Event), Len(dPend) <= 1
    PROVE  dPend = <<>> \/ (dPend # <<>> /\ Len(dPend) = 1 /\ dPend[1] \in Event /\ DOMAIN dPend = {1})
<1>1. Len(dPend) \in Nat
  OBVIOUS
<1>2. Len(dPend) = 0 \/ Len(dPend) = 1
  BY <1>1, AtMostOne, Zenon
<1>3. Len(dPend) = 0 => dPend = <<>>
  BY LenZero
<1>4. Len(dPend) = 1 => dPend # <<>> /\ dPend[1] \in Event /\ DOMAIN dPend = {1}
  OBVIOUS
<1> QED
  BY <1>2, <1>3, <1>4

LEMMA JoinedLine ==
    ASSUME NEW line \in Event, dPend \in Seq(Event), Len(dPend) <= 1,
           NEW first \in Joined(dPend, line)
    PROVE  \/ first = <<>>
           \/ \E e \in Broken : first = <<e>>
           \/ dPend = <<>> /\ first = <<line>> /\ line.part = "whole"
           \/ first = dPend /\ Len(dPend) = 1 /\ line = RestOf(dPend[1])
<1>1. line.part \in {"whole", "tail"} /\ line.mark \in BOOLEAN
  BY DEF Event
<1>2. CASE dPend = <<>> /\ line.part = "tail"
  <2>1. first \in Garbled({line.mark})
    BY <1>2 DEF Joined
  <2>2. {line.mark} \in SUBSET BOOLEAN
    BY <1>1
  <2> QED
    BY <2>1, <2>2, BrokenOne
<1>3. CASE dPend = <<>> /\ line.part = "whole"
  BY <1>3 DEF Joined
<1>4. CASE dPend # <<>> /\ Len(dPend) = 1 /\ dPend[1] \in Event
  <2>1. CASE line = RestOf(dPend[1])
    BY <1>4, <2>1 DEF Joined
  <2>2. CASE line # RestOf(dPend[1])
    <3>1. first \in {<<>>} \cup Garbled({dPend[1].mark, line.mark})
      BY <1>4, <2>2 DEF Joined
    <3>2. dPend[1].mark \in BOOLEAN
      BY <1>4 DEF Event
    <3>3. {dPend[1].mark, line.mark} \in SUBSET BOOLEAN
      BY <1>1, <3>2
    <3>4. CASE first \in Garbled({dPend[1].mark, line.mark})
      BY <3>3, <3>4, BrokenOne
    <3> QED
      BY <3>1, <3>4
  <2> QED
    BY <2>1, <2>2
<1> QED
  BY <1>1, <1>2, <1>3, <1>4, PendCases

LEMMA FedLine ==
    ASSUME NEW line \in Event, dPend \in Seq(Event), Len(dPend) <= 1, AllWhole(dPend),
           NEW out \in Fed(dPend, <<line>>)
    PROVE  /\ out \in Seq(Event) /\ Len(out) <= 1 /\ AllWhole(out)
           /\ \A k \in DOMAIN out :
                 \/ out[k] \in Broken
                 \/ /\ out[k].of = line.of /\ out[k].i = line.i
                    /\ out[k].kind = line.kind /\ out[k].mark = line.mark
<1>1. Head(<<line>>) = line /\ Tail(<<line>>) = <<>>
  OBVIOUS
<1>2. PICK first \in Joined(dPend, line) : out = first \o <<>>
  BY <1>1 DEF Fed
<1>3. \A s \in Seq(Event) : s \o <<>> = s
  OBVIOUS
<1>4. CASE first = <<>>
  BY <1>2, <1>3, <1>4, LenZero DEF AllWhole
<1>5. ASSUME NEW e \in Broken, first = <<e>>
      PROVE  out \in Seq(Event) /\ Len(out) <= 1 /\ \A k \in DOMAIN out : out[k] = e /\ e.part = "whole"
  BY <1>2, <1>3, <1>5, BrokenLine, OneEvent
<1>6. CASE first = <<line>> /\ line.part = "whole"
  <2>1. out = <<line>>
    BY <1>2, <1>3, <1>6, OneEvent
  <2>2. <<line>> \in Seq(Event) /\ Len(<<line>>) <= 1 /\ \A k \in DOMAIN <<line>> : <<line>>[k] = line
    BY OneEvent
  <2> QED
    BY <1>6, <2>1, <2>2 DEF AllWhole
<1>7. CASE first = dPend /\ Len(dPend) = 1 /\ line = RestOf(dPend[1])
  <2>1. out = dPend /\ dPend[1] \in Event /\ DOMAIN dPend = {1}
    BY <1>2, <1>3, <1>7
  <2>2. line.of = dPend[1].of /\ line.i = dPend[1].i /\ line.kind = dPend[1].kind /\ line.mark = dPend[1].mark
    BY <1>7, <2>1 DEF RestOf, Event
  <2> QED
    BY <2>1, <2>2 DEF AllWhole
<1> QED
  BY <1>4, <1>5, <1>6, <1>7, JoinedLine DEF AllWhole

\* A prefix passes as it is, but for its first line after one that was begun.
LEMMA FedPrefix ==
    ASSUME dPend \in Seq(Event), Len(dPend) <= 1, dPrefix \in Seq(Event), dPrefix # <<>>, AllWhole(dPrefix),
           NEW out \in Fed(dPend, dPrefix)
    PROVE  out = dPrefix \/ out = Tail(dPrefix) \/ \E e \in Broken : out = <<e>> \o Tail(dPrefix)
<1>1. Head(dPrefix) \in Event /\ Head(dPrefix).part = "whole" /\ <<Head(dPrefix)>> \o Tail(dPrefix) = dPrefix
      /\ <<>> \o Tail(dPrefix) = Tail(dPrefix)
  BY DEF AllWhole
<1>2. PICK first \in Joined(dPend, Head(dPrefix)) : out = first \o Tail(dPrefix)
  BY DEF Fed
<1>3. \A e \in Event : RestOf(e).part = "tail"
  BY DEF RestOf, Event
<1>4. ~(Len(dPend) = 1 /\ Head(dPrefix) = RestOf(dPend[1]))
  BY <1>1, <1>3
<1> QED
  BY <1>1, <1>2, <1>4, JoinedLine

LEMMA RunTail ==
    ASSUME NEW n, NEW last, NEW s, Run(s, n, last), s # <<>>
    PROVE  /\ Run(Tail(s), n, last)
           /\ \A t : Before(t, s) => Before(t, Tail(s))
           /\ \A t : Before(s, t) => Before(Tail(s), t)
<1>1. s \in Seq(Event) /\ Tail(s) \in Seq(Event) /\ DOMAIN s = 1 .. Len(s) /\ Len(s) \in Nat
      /\ \A k \in DOMAIN Tail(s) : k \in Nat /\ k + 1 \in DOMAIN s /\ Tail(s)[k] = s[k + 1]
  BY DEF Run
<1> DEFINE u == Tail(s)
<1> HIDE DEF u
<1>2. \A k \in DOMAIN u : /\ Real(u[k]) => u[k].of = n
                          /\ u[k].kind = "done" => Real(u[k]) /\ u[k].i = last /\ u[k].mark
  BY <1>1 DEF Run, u
<1>3. ASSUME NEW j \in DOMAIN u, NEW k \in DOMAIN u, j < k, Real(u[j]), Real(u[k]) PROVE u[j].i < u[k].i
  <2>1. j + 1 < k + 1 /\ j + 1 \in DOMAIN s /\ k + 1 \in DOMAIN s /\ u[j] = s[j + 1] /\ u[k] = s[k + 1]
    BY <1>1, <1>3 DEF u
  <2> QED
    BY <1>3, <2>1 DEF Run
<1>4. \A t : Before(t, s) => Before(t, u)
  BY <1>1 DEF Before, u
<1>5. \A t : Before(s, t) => Before(u, t)
  BY <1>1 DEF Before, u
<1> QED
  BY <1>1, <1>2, <1>3, <1>4, <1>5 DEF Run, u

-----------------------------------------------------------------------------
\* A read of the body: what it forwards follows what was read before, and what is
\* left follows both.
LEMMA ReadBody ==
    ASSUME DeliveryShape, NEW last \in Nat, BodyRun(last), dBody # <<>>, UNCHANGED dTry,
           NEW begun \in Begun, dPend' = begun, dBody' = Rest(begun),
           NEW out \in Fed(dPend, <<dBody[1]>>)
    PROVE  /\ Run(out, dTry, last) /\ AllWhole(out) /\ Before(out, dBody') /\ Len(out) <= 1
           /\ \A s : Before(s, dBody) => Before(s, out) /\ Before(s, dBody')
           /\ BodyRun(last)'
           /\ dPend' \in Seq(Event) /\ Len(dPend') <= 1 /\ AllWhole(dPend')
<1>1. /\ dBody \in Seq(Event) /\ dBody[1] \in Event /\ DOMAIN dBody = 1 .. Len(dBody) /\ Len(dBody) \in Nat
      /\ 1 \in DOMAIN dBody /\ Tail(dBody) \in Seq(Event)
      /\ Len(Tail(dBody)) = Len(dBody) - 1 /\ DOMAIN Tail(dBody) = 1 .. (Len(dBody) - 1)
      /\ \A k \in 1 .. (Len(dBody) - 1) : Tail(dBody)[k] = dBody[k + 1]
  BY DEF BodyRun, Run
<1>2. /\ out \in Seq(Event) /\ Len(out) <= 1 /\ AllWhole(out)
      /\ \A k \in DOMAIN out :
            \/ out[k] \in Broken
            \/ /\ out[k].of = dBody[1].of /\ out[k].i = dBody[1].i
               /\ out[k].kind = dBody[1].kind /\ out[k].mark = dBody[1].mark
  BY <1>1, FedLine DEF DeliveryShape
<1>3. /\ dBody' \in Seq(Event) /\ DOMAIN dBody' = 1 .. (Len(dBody) - 1)
      /\ \A k \in DOMAIN dBody' : /\ dBody'[k].of = dBody[k + 1].of /\ dBody'[k].i = dBody[k + 1].i
                                  /\ dBody'[k].kind = dBody[k + 1].kind /\ dBody'[k].mark = dBody[k + 1].mark
                                  /\ k > 1 => dBody'[k].part = dBody[k + 1].part
  <2>1. CASE begun = <<>>
    BY <1>1, <2>1 DEF Rest
  <2>2. CASE begun # <<>>
    <3>1. Len(dBody) > 1 /\ dBody[2] \in Event
      BY <1>1, <2>2 DEF Begun
    <3>2. /\ RestOf(dBody[2]) \in Event /\ RestOf(dBody[2]).of = dBody[2].of /\ RestOf(dBody[2]).i = dBody[2].i
          /\ RestOf(dBody[2]).kind = dBody[2].kind /\ RestOf(dBody[2]).mark = dBody[2].mark
      BY <3>1 DEF RestOf, Event
    <3>3. dBody' = [Tail(dBody) EXCEPT ![1] = RestOf(dBody[2])]
      BY <2>2 DEF Rest
    <3> DEFINE r == RestOf(dBody[2])
    <3> HIDE DEF r
    <3>4. dBody' = [Tail(dBody) EXCEPT ![1] = r] /\ r \in Event /\ r.of = dBody[2].of /\ r.i = dBody[2].i
          /\ r.kind = dBody[2].kind /\ r.mark = dBody[2].mark
      BY <3>2, <3>3 DEF r
    <3>5. \A k \in DOMAIN dBody' : dBody'[k] = IF k = 1 THEN r ELSE dBody[k + 1]
      BY <1>1, <3>4
    <3>6. dBody' \in Seq(Event) /\ DOMAIN dBody' = 1 .. (Len(dBody) - 1)
      BY <1>1, <3>1, <3>4
    <3> QED
      BY <1>1, <3>4, <3>5, <3>6
  <2> QED
    BY <2>1, <2>2
<1>4. \A k \in DOMAIN dBody' : k \in Nat /\ k > 0 /\ k + 1 \in DOMAIN dBody /\ 1 < k + 1
  BY <1>1, <1>3
<1>5. \A k \in DOMAIN dBody : Real(dBody[k]) /\ (k > 1 => dBody[k].part = "whole")
  BY DEF BodyRun
<1>6. BodyRun(last)'
  <2>1. \A k \in DOMAIN dBody' : /\ Real(dBody'[k]) /\ dBody'[k].of = dTry
                                 /\ dBody'[k].kind = "done" => dBody'[k].i = last /\ dBody'[k].mark
                                 /\ k > 1 => dBody'[k].part = "whole"
    BY <1>3, <1>4, <1>5 DEF BodyRun, Run, Real
  <2>2. ASSUME NEW j \in DOMAIN dBody', NEW k \in DOMAIN dBody', j < k PROVE dBody'[j].i < dBody'[k].i
    <3>1. dBody[j + 1].i < dBody[k + 1].i
      BY <1>4, <1>5, <2>2 DEF BodyRun, Run
    <3> QED
      BY <1>3, <3>1
  <2> QED
    BY <1>3, <2>1, <2>2 DEF BodyRun, Run
<1>7. \A e \in Broken : ~Real(e) /\ e.kind = "junk"
  BY BrokenLine
<1>8. \A k \in DOMAIN out :
         Real(out[k]) => /\ out[k].of = dBody[1].of /\ out[k].i = dBody[1].i
                         /\ out[k].kind = dBody[1].kind /\ out[k].mark = dBody[1].mark
  BY <1>2, <1>7
<1>9. Run(out, dTry, last)
  <2>1. \A k \in DOMAIN out : out[k].kind = "done" => Real(out[k])
    BY <1>1, <1>2, <1>5, <1>7 DEF Real
  <2>2. \A j, k \in DOMAIN out : ~(j < k)
    BY <1>2
  <2> QED
    BY <1>1, <1>2, <1>8, <2>1, <2>2 DEF BodyRun, Run
<1>10. Before(out, dBody')
  BY <1>1, <1>3, <1>4, <1>5, <1>8 DEF Before, BodyRun, Run
<1>11. ASSUME NEW s, Before(s, dBody) PROVE Before(s, out) /\ Before(s, dBody')
  BY <1>1, <1>3, <1>4, <1>5, <1>8, <1>11 DEF Before
<1>12. dPend' \in Seq(Event) /\ Len(dPend') <= 1 /\ AllWhole(dPend')
  <2>1. CASE begun = <<>>
    BY <2>1 DEF AllWhole
  <2>2. CASE begun # <<>>
    <3>1. Len(dBody) > 1 /\ begun = <<dBody[2]>> /\ 2 \in DOMAIN dBody /\ dBody[2] \in Event
      BY <1>1, <2>2 DEF Begun
    <3> QED
      BY <1>5, <3>1, OneEvent DEF AllWhole
  <2> QED
    BY <2>1, <2>2
<1> QED
  BY <1>2, <1>6, <1>9, <1>10, <1>11, <1>12

\* Another stream begins.
LEMMA NewStream ==
    ASSUME NEW n \in Nat \ {0}, NEW script \in Scripts, dTry' = n, dBody' = Events(n, script)
    PROVE  \E last \in Nat : BodyRun(last)'
<1>1. script \in Seq(Sent) /\ Len(script) \in Nat
      /\ \A i \in DOMAIN script : script[i].kind = "done" => i = Len(script) /\ script[i].mark
  BY DeliveryAssumption
<1>2. /\ dBody' \in Seq(Event) /\ DOMAIN dBody' = DOMAIN script
      /\ \A k \in DOMAIN script : /\ dBody'[k].of = n /\ dBody'[k].i = k /\ dBody'[k].kind = script[k].kind
                                  /\ dBody'[k].mark = script[k].mark /\ dBody'[k].part = "whole"
  <2> DEFINE event(i) == [of |-> n, i |-> i, kind |-> script[i].kind, mark |-> script[i].mark, part |-> "whole"]
  <2>1. \A i \in DOMAIN script : event(i) \in Event
    <3>1. \A i \in DOMAIN script : i \in Nat /\ script[i].kind \in EventKinds /\ script[i].mark \in BOOLEAN
      <4>1. \A i \in DOMAIN script : i \in Nat /\ script[i] \in Sent
        BY <1>1
      <4>2. \A e \in Sent : e.kind \in EventKinds /\ e.mark \in BOOLEAN
        BY DEF Sent
      <4> QED
        BY <4>1, <4>2
    <3> QED
      BY <3>1 DEF Event
  <2>2. \A i \in DOMAIN script : /\ event(i).of = n /\ event(i).i = i /\ event(i).kind = script[i].kind
                                 /\ event(i).mark = script[i].mark /\ event(i).part = "whole"
    OBVIOUS
  <2> HIDE DEF event
  <2>3. dBody' = [i \in 1 .. Len(script) |-> event(i)] /\ DOMAIN script = 1 .. Len(script)
    BY <1>1 DEF Events, event
  <2>4. dBody' \in Seq(Event)
    BY <1>1, <2>1, <2>3
  <2> QED
    BY <2>2, <2>3, <2>4
<1> WITNESS Len(script) \in Nat
<1>3. \A k \in DOMAIN dBody' : /\ Real(dBody'[k]) /\ dBody'[k].of = n /\ dBody'[k].part = "whole"
                               /\ dBody'[k].kind = "done" => dBody'[k].i = Len(script) /\ dBody'[k].mark
  BY <1>1, <1>2 DEF Real
<1>4. \A j, k \in DOMAIN dBody' : j < k => dBody'[j].i < dBody'[k].i
  BY <1>2
<1> QED
  BY <1>2, <1>3, <1>4 DEF BodyRun, Run

-----------------------------------------------------------------------------
LEMMA BeforeNone == \A s : Before(s, <<>>) /\ Before(<<>>, s)
BY DEF Before

LEMMA DeliveryInitInv == DeliveryInit => DeliveryInv
<1> SUFFICES ASSUME DeliveryInit PROVE DeliveryInv
  OBVIOUS
<1>1. \A S : <<>> \in Seq(S) /\ Len(<<>>) = 0 /\ DOMAIN <<>> = {}
  OBVIOUS
<1> QED
  BY <1>1, DeliveryAssumption DEF DeliveryInit, DeliveryInv, DeliveryShape, ReportedOnce, OneStream, AllWhole

LEMMA HoldReadInv == ASSUME DeliveryInv, HoldRead PROVE DeliveryInv'
<1>1. /\ DeliveryShape /\ dAt = "hold" /\ dBody # <<>> /\ ~dGone /\ dTry' = dTry /\ dGone' = dGone
      /\ dOut = <<>> /\ dPrefix = <<>> /\ dReports = <<>> /\ dTry > 0
  BY DEF DeliveryInv, HoldRead, DeliveryShape
<1>2. PICK last \in Nat : InOrder(last)
  BY <1>1 DEF DeliveryInv
<1>3. PICK begun \in Begun : dPend' = begun /\ dBody' = Rest(begun)
  BY DEF HoldRead
<1>13. PICK out \in Fed(dPend, <<dBody[1]>>) : LET held == dHeld \o out IN
      \/ /\ Complete(dHeld, out)
         /\ dAt' = "done" /\ dOut' = held /\ dReports' = <<FALSE>> /\ dHeld' = <<>>
         /\ UNCHANGED dPrefix
      \/ /\ ~Complete(dHeld, out) /\ held # <<>>
         /\ dAt' = "pass" /\ dPrefix' = held /\ dHeld' = <<>>
         /\ UNCHANGED <<dOut, dReports>>
      \/ /\ ~Complete(dHeld, out) /\ Len(held) < HoldMax
         /\ dHeld' = held
         /\ UNCHANGED <<dAt, dPrefix, dOut, dReports>>
  BY DEF HoldRead
<1> DEFINE held == dHeld \o out
<1>4. /\ Run(out, dTry, last) /\ AllWhole(out) /\ Before(out, dBody') /\ Len(out) <= 1
      /\ \A s : Before(s, dBody) => Before(s, out) /\ Before(s, dBody')
      /\ BodyRun(last)'
      /\ dPend' \in Seq(Event) /\ Len(dPend') <= 1 /\ AllWhole(dPend')
  BY <1>1, <1>2, <1>3, ReadBody DEF InOrder
<1>5. \/ /\ Complete(dHeld, out)
         /\ dAt' = "done" /\ dOut' = held /\ dReports' = <<FALSE>> /\ dHeld' = <<>>
         /\ UNCHANGED dPrefix
      \/ /\ ~Complete(dHeld, out) /\ held # <<>>
         /\ dAt' = "pass" /\ dPrefix' = held /\ dHeld' = <<>>
         /\ UNCHANGED <<dOut, dReports>>
      \/ /\ ~Complete(dHeld, out) /\ Len(held) < HoldMax
         /\ dHeld' = held
         /\ UNCHANGED <<dAt, dPrefix, dOut, dReports>>
  BY <1>13
<1>6. Complete(dHeld, out) <=> Ends(held)
  BY DEF Complete
<1>7. Run(dHeld, dTry, last) /\ Before(dHeld, dBody) /\ AllWhole(dHeld) /\ dHeld \in Seq(Event) /\ out \in Seq(Event)
  BY <1>2, <1>4 DEF InOrder, Run
<1>8. Run(held, dTry, last) /\ Before(held, dBody') /\ AllWhole(held) /\ held \in Seq(Event)
  BY <1>4, <1>7, RunConcat, BeforeConcat, WholeConcat
<1> HIDE DEF held
<1>9. Run(<<>>, dTry, last) /\ AllWhole(<<>>) /\ \A s : Before(<<>>, s) /\ Before(s, <<>>)
  BY RunOfNone DEF AllWhole, Before
<1>10. CASE Ends(held) /\ dAt' = "done" /\ dOut' = held /\ dReports' = <<FALSE>> /\ dHeld' = <<>> /\ UNCHANGED dPrefix
  <2>1. OneStream'
    BY <1>8, <1>10, RunIsOne DEF OneStream, OneIn, Real
  <2>2. <<FALSE>> \in Seq(BOOLEAN) /\ Len(<<FALSE>>) = 1 /\ <<FALSE>> # <<>>
    OBVIOUS
  <2>3. DeliveryShape'
    BY <1>1, <1>4, <1>8, <1>10, <2>2 DEF DeliveryShape
  <2>4. ReportedOnce'
    <3>1. <<FALSE>> # <<TRUE>>
      OBVIOUS
    <3> QED
      BY <1>10, <2>2, <3>1 DEF ReportedOnce, Ends
  <2> QED
    BY <1>10, <2>1, <2>3, <2>4 DEF DeliveryInv
<1>11. CASE dAt' = "pass" /\ dPrefix' = held /\ dHeld' = <<>> /\ UNCHANGED <<dOut, dReports>>
  <2>1. DeliveryShape'
    BY <1>1, <1>4, <1>11 DEF DeliveryShape
  <2>2. InOrder(last)'
    BY <1>1, <1>4, <1>8, <1>9, <1>11 DEF InOrder
  <2> QED
    BY <1>1, <1>11, <2>1, <2>2 DEF DeliveryInv, ReportedOnce, OneStream
<1>12. CASE dHeld' = held /\ UNCHANGED <<dAt, dPrefix, dOut, dReports>>
  <2>1. DeliveryShape'
    BY <1>1, <1>4, <1>12 DEF DeliveryShape
  <2>2. InOrder(last)'
    BY <1>1, <1>4, <1>8, <1>9, <1>12 DEF InOrder
  <2> QED
    BY <1>1, <1>12, <2>1, <2>2 DEF DeliveryInv, ReportedOnce, OneStream
<1> QED
  BY <1>5, <1>6, <1>10, <1>11, <1>12

LEMMA HoldCutInv == ASSUME DeliveryInv, HoldCut PROVE DeliveryInv'
<1>1. /\ DeliveryShape /\ dAt = "hold" /\ dBody = <<>>
      /\ dOut = <<>> /\ dPrefix = <<>> /\ dReports = <<>> /\ dTry > 0 /\ dTry \in Nat
      /\ UNCHANGED <<dPend, dOut, dReports, dGone>>
  BY DEF DeliveryInv, HoldCut, DeliveryShape
<1>2. CASE /\ dTry <= HoldRetries /\ dTry' = dTry + 1 /\ dHeld' = Held
           /\ \E script \in Scripts : dBody' = Events(dTry + 1, script)
           /\ UNCHANGED <<dAt, dPrefix>>
  <2>1. PICK last \in Nat : BodyRun(last)'
    <3>1. dTry + 1 \in Nat \ {0}
      BY <1>1
    <3> QED
      BY <1>2, <3>1, NewStream
  <2>2. InOrder(last)'
    <3>1. dOut' = <<>> /\ dHeld' = <<>> /\ dPrefix' = <<>>
      BY <1>1, <1>2 DEF Held
    <3>2. Run(<<>>, dTry', last) /\ AllWhole(<<>>)
      BY RunOfNone DEF AllWhole
    <3> QED
      BY <2>1, <3>1, <3>2, BeforeNone DEF InOrder
  <2>3. dTry' \in 0 .. (HoldRetries + 1) /\ dTry' > 0
    BY <1>1, <1>2, DeliveryAssumption
  <2>4. DeliveryShape'
    BY <1>1, <1>2, <2>3 DEF DeliveryShape
  <2> QED
    BY <1>1, <1>2, <2>2, <2>4 DEF DeliveryInv, ReportedOnce, OneStream
<1>3. CASE dAt' = "pass" /\ dPrefix' = dHeld /\ dHeld' = <<>> /\ UNCHANGED <<dTry, dBody>>
  <2>1. PICK last \in Nat : InOrder(last)
    BY <1>1 DEF DeliveryInv
  <2>2. Run(<<>>, dTry, last) /\ AllWhole(<<>>) /\ \A s : Before(<<>>, s) /\ Before(s, <<>>)
    BY RunOfNone DEF AllWhole, Before
  <2>3. InOrder(last)'
    BY <1>1, <1>3, <2>1, <2>2 DEF InOrder, BodyRun
  <2>4. DeliveryShape'
    BY <1>1, <1>3 DEF DeliveryShape
  <2> QED
    BY <1>1, <1>3, <2>3, <2>4 DEF DeliveryInv, ReportedOnce, OneStream
<1> QED
  BY <1>2, <1>3 DEF HoldCut

LEMMA PassReadInv == ASSUME DeliveryInv, PassRead PROVE DeliveryInv'
<1>1. /\ DeliveryShape /\ dAt = "pass" /\ ~dGone /\ dHeld = <<>> /\ dReports = <<>>
      /\ UNCHANGED <<dAt, dTry, dHeld, dReports, dGone>>
  BY DEF DeliveryInv, PassRead, DeliveryShape
<1>2. PICK last \in Nat : InOrder(last)
  BY <1>1 DEF DeliveryInv
<1>3. Run(<<>>, dTry, last) /\ AllWhole(<<>>) /\ \A s : Before(<<>>, s) /\ Before(s, <<>>)
  BY RunOfNone DEF AllWhole, Before
<1>4. dOut \in Seq(Event) /\ dPrefix \in Seq(Event)
  BY <1>2 DEF InOrder, Run
<1>5. ASSUME /\ dPrefix # <<>> /\ dPrefix' = <<>> /\ dPend' = <<>>
             /\ UNCHANGED dBody,
             NEW fed \in Fed(dPend, dPrefix), dOut' = dOut \o fed
      PROVE  DeliveryInv'
  <2>1. fed = dPrefix \/ fed = Tail(dPrefix) \/ \E e \in Broken : fed = <<e>> \o Tail(dPrefix)
    BY <1>1, <1>2, <1>4, <1>5, FedPrefix DEF DeliveryShape, InOrder
  <2>2. Run(fed, dTry, last) /\ Before(dOut, fed) /\ Before(fed, dBody)
    <3> DEFINE rest == Tail(dPrefix)
    <3>1. Run(dPrefix, dTry, last) /\ Before(dOut, dPrefix) /\ Before(dPrefix, dBody)
      BY <1>2 DEF InOrder
    <3>2. Run(rest, dTry, last) /\ Before(dOut, rest) /\ Before(rest, dBody)
      BY <1>5, <3>1, RunTail
    <3>3. rest \in Seq(Event)
      BY <3>2 DEF Run
    <3> HIDE DEF rest
    <3>4. ASSUME NEW e \in Broken, fed = <<e>> \o rest
          PROVE  Run(fed, dTry, last) /\ Before(dOut, fed) /\ Before(fed, dBody)
      <4>1. Run(<<e>>, dTry, last) /\ Before(dOut, <<e>>) /\ Before(<<e>>, rest) /\ Before(<<e>>, dBody)
        BY BrokenRun
      <4>2. <<e>> \in Seq(Event)
        BY <4>1 DEF Run
      <4> QED
        BY <3>2, <3>3, <3>4, <4>1, <4>2, RunConcat, BeforeConcat, BeforeBoth
    <3> QED
      BY <2>1, <3>1, <3>2, <3>4 DEF rest
  <2>3. fed \in Seq(Event)
    BY <2>2 DEF Run
  <2>4. Run(dOut', dTry, last) /\ Before(dOut', dBody)
    BY <1>2, <1>4, <1>5, <2>2, <2>3, RunConcat, BeforeConcat DEF InOrder
  <2>5. InOrder(last)'
    BY <1>1, <1>2, <1>3, <1>5, <2>4 DEF InOrder, BodyRun
  <2>6. dPend' \in Seq(Event) /\ Len(dPend') <= 1 /\ AllWhole(dPend') /\ dOut' \in Seq(Event)
    BY <1>3, <1>5, <2>4, LenZero DEF Run
  <2>7. DeliveryShape'
    BY <1>1, <2>6 DEF DeliveryShape
  <2>8. OneStream'
    BY <2>4, RunIsOne DEF OneStream, OneIn, Real
  <2> QED
    BY <1>1, <2>5, <2>7, <2>8 DEF DeliveryInv, ReportedOnce
<1>6. ASSUME /\ dPrefix = <<>> /\ dBody # <<>>
             /\ UNCHANGED dPrefix,
             NEW out \in Fed(dPend, <<dBody[1]>>), dOut' = dOut \o out,
             NEW begun \in Begun, dPend' = begun, dBody' = Rest(begun)
      PROVE  DeliveryInv'
  <2>1. /\ Run(out, dTry, last) /\ AllWhole(out) /\ Before(out, dBody') /\ Len(out) <= 1
        /\ \A s : Before(s, dBody) => Before(s, out) /\ Before(s, dBody')
        /\ BodyRun(last)'
        /\ dPend' \in Seq(Event) /\ Len(dPend') <= 1 /\ AllWhole(dPend')
    BY <1>1, <1>2, <1>6, ReadBody DEF InOrder
  <2>2. out \in Seq(Event) /\ dOut' = dOut \o out
    BY <1>6, <2>1 DEF Run
  <2>3. Run(dOut', dTry, last) /\ Before(dOut', dBody')
    BY <1>2, <1>4, <2>1, <2>2, RunConcat, BeforeConcat DEF InOrder
  <2>4. InOrder(last)'
    BY <1>1, <1>2, <1>3, <1>6, <2>1, <2>3 DEF InOrder
  <2>5. dOut' \in Seq(Event)
    BY <2>3 DEF Run
  <2>6. DeliveryShape'
    BY <1>1, <2>1, <2>5 DEF DeliveryShape
  <2>7. OneStream'
    BY <2>3, RunIsOne DEF OneStream, OneIn, Real
  <2> QED
    BY <1>1, <2>4, <2>6, <2>7 DEF DeliveryInv, ReportedOnce
<1> QED
  BY <1>5, <1>6 DEF PassRead

LEMMA PassEndsInv == ASSUME DeliveryInv, PassEnds PROVE DeliveryInv'
<1>1. /\ DeliveryShape /\ dAt = "pass" /\ dPrefix = <<>> /\ dBody = <<>> /\ dHeld = <<>> /\ dReports = <<>>
      /\ dPend' = <<>> /\ UNCHANGED <<dTry, dBody, dHeld, dPrefix, dGone>> /\ dTry > 0
  BY DEF DeliveryInv, PassEnds, DeliveryShape
<1>2. PICK last \in Nat : InOrder(last)
  BY <1>1 DEF DeliveryInv
<1>14. PICK extra \in Flushed(dPend) : LET lines == dOut \o extra IN
         /\ dOut' = lines
         /\ dReports' \in {Append(dReports, ~Ends(lines)), Append(dReports, ~Ends(lines) \/ ~HasText(lines))}
         /\ dAt' \in {"done"} \cup (IF Eligible(lines) THEN {"resume"} ELSE {})
  BY DEF PassEnds
<1> DEFINE lines == dOut \o extra
<1>3. /\ dOut' = lines
      /\ \/ dReports' = <<~Ends(lines)>>
         \/ dReports' = <<(~Ends(lines) \/ ~HasText(lines))>>
      /\ dAt' \in {"done"} \cup (IF Eligible(lines) THEN {"resume"} ELSE {})
  <2>1. /\ dOut' = lines
        /\ dReports' \in {Append(dReports, ~Ends(lines)), Append(dReports, ~Ends(lines) \/ ~HasText(lines))}
        /\ dAt' \in {"done"} \cup (IF Eligible(lines) THEN {"resume"} ELSE {})
    BY <1>14
  <2>2. \A x : Append(dReports, x) = <<x>>
    BY <1>1
  <2> QED
    BY <2>1, <2>2, Zenon
<1>4. Run(extra, dTry, last) /\ Before(dOut, extra)
  <2>1. CASE dPend = <<>>
    <3>1. extra = <<>>
      BY <2>1 DEF Flushed
    <3> QED
      BY <3>1, RunOfNone, BeforeNone
  <2>2. CASE dPend # <<>>
    <3>1. extra \in Garbled({dPend[1].mark}) /\ dPend[1].mark \in BOOLEAN
      <4>1. dPend[1] \in Event
        BY <1>1, <2>2, PendCases DEF DeliveryShape
      <4> QED
        BY <2>2, <4>1 DEF Flushed, Event
    <3>2. \E e \in Broken : extra = <<e>>
      BY <3>1, BrokenOne
    <3> QED
      BY <3>2, BrokenRun
  <2> QED
    BY <2>1, <2>2
<1>5. Run(lines, dTry, last) /\ lines \in Seq(Event)
  <2>1. Run(dOut, dTry, last)
    BY <1>2 DEF InOrder
  <2>2. Run(lines, dTry, last)
    BY <1>4, <2>1, RunConcat
  <2> QED
    BY <2>2 DEF Run
<1> HIDE DEF lines
<1>6. OneStream'
  BY <1>3, <1>5, RunIsOne DEF OneStream, OneIn, Real
<1>7. dAt' \in {"done", "resume"} /\ (dAt' = "resume" => ~Ends(lines))
  BY <1>3 DEF Eligible
<1>8. PICK truncated \in BOOLEAN : /\ dReports' = <<truncated>> /\ (~truncated => Ends(lines))
                                   /\ (truncated /\ HasText(lines) => ~Ends(lines))
  <2>1. \A l : Ends(l) \in BOOLEAN /\ HasText(l) \in BOOLEAN
    BY DEF Ends, HasText
  <2> QED
    BY <1>3, <2>1
<1>9. dReports' \in Seq(BOOLEAN) /\ Len(dReports') = 1 /\ dReports' # <<>>
      /\ (dReports' = <<FALSE>> => Ends(lines)) /\ (dAt' = "resume" => dReports' # <<FALSE>>)
      /\ (dReports' = <<TRUE>> /\ HasText(lines) => ~Ends(lines))
  <2>1. <<TRUE>> # <<FALSE>>
    OBVIOUS
  <2>2. <<truncated>> \in Seq(BOOLEAN) /\ Len(<<truncated>>) = 1 /\ <<truncated>> # <<>>
    OBVIOUS
  <2>3. truncated = TRUE \/ truncated = FALSE
    BY Zenon
  <2> QED
    BY <1>7, <1>8, <2>1, <2>2, <2>3, Zenon
<1>10. dPend' \in Seq(Event) /\ Len(dPend') <= 1 /\ AllWhole(dPend')
  BY <1>1, LenZero DEF AllWhole
<1>11. DeliveryShape'
  BY <1>1, <1>3, <1>5, <1>7, <1>9, <1>10 DEF DeliveryShape, Ends
<1>12. ReportedOnce'
  <2>1. Len(dReports') <= 1 /\ dReports' # <<>>
    BY <1>9
  <2>2. dReports' = <<FALSE>> => Ends(dOut)'
    BY <1>3, <1>9 DEF Ends
  <2>3. \A k \in DOMAIN lines : lines[k].kind = "done" => Ends(lines)
    BY <1>5 DEF Run, Ends
  <2>4. (dReports = <<TRUE>> /\ HasText(dOut) => \A k \in DOMAIN dOut : dOut[k].kind = "done" => dOut[k].of = 0)'
    BY <1>3, <1>9, <2>3 DEF HasText
  <2> QED
    BY <2>1, <2>2, <2>4 DEF ReportedOnce
<1>13. InOrder(last)'
  BY <1>1, <1>2, <1>3, <1>5, BeforeNone DEF InOrder, BodyRun
<1> QED
  BY <1>6, <1>11, <1>12, <1>13 DEF DeliveryInv

LEMMA ResumeInv == ASSUME DeliveryInv, Resume PROVE DeliveryInv'
<1>1. /\ DeliveryShape /\ OneStream /\ dAt = "resume" /\ dAt' = "done" /\ Len(dReports) = 1 /\ dReports # <<FALSE>>
      /\ ~Ends(dOut) /\ dHeld = <<>> /\ dOut \in Seq(Event)
      /\ UNCHANGED <<dTry, dBody, dPend, dHeld, dPrefix, dReports, dGone>>
  BY DEF DeliveryInv, Resume, DeliveryShape
<1> DEFINE tail == [Junk EXCEPT !.kind = "tail"]
           done == [Junk EXCEPT !.kind = "done", !.mark = TRUE]
<1>2. tail \in Event /\ done \in Event /\ ~Real(tail) /\ ~Real(done) /\ tail.kind # "done"
  BY DEF Junk, Event, Real, EventKinds
<1>3. dOut' = dOut \/ dOut' = dOut \o <<tail, done>>
  BY DEF Resume
<1> HIDE DEF tail, done
<1>7. \A k \in DOMAIN dOut : dOut[k].kind # "done"
  <2>1. PICK last \in Nat : InOrder(last)
    BY <1>1 DEF DeliveryInv
  <2>2. \A k \in DOMAIN dOut : dOut[k].kind = "done" => dOut[k].mark
    BY <2>1 DEF InOrder, Run
  <2> QED
    BY <1>1, <2>2 DEF Ends
<1>8. ASSUME NEW k \in DOMAIN dOut', dOut'[k].kind = "done" PROVE dOut'[k].of = 0
  <2>1. CASE dOut' = dOut
    BY <1>7, <1>8, <2>1
  <2>2. CASE dOut' = dOut \o <<tail, done>>
    <3>1. dOut'[k] = tail \/ dOut'[k] = done \/ (k \in DOMAIN dOut /\ dOut'[k] = dOut[k])
      BY <1>1, <1>2, <2>2
    <3> QED
      BY <1>2, <1>7, <1>8, <3>1 DEF Real
  <2> QED
    BY <1>3, <2>1, <2>2
<1>4. ReportedOnce'
  <2>1. \A s : Len(s) = 1 => s # <<>> /\ Len(s) <= 1
    OBVIOUS
  <2>2. dReports # <<>> /\ Len(dReports) <= 1
    BY <1>1, <2>1, Zenon
  <2>3. dReports' = dReports /\ dReports # <<FALSE>>
    BY <1>1, Zenon
  <2> QED
    BY <1>1, <1>8, <2>2, <2>3, Zenon DEF ReportedOnce
<1>5. CASE dOut' = dOut \o <<tail, done>>
  <2>1. dOut' \in Seq(Event) /\ DOMAIN dOut' = 1 .. (Len(dOut) + 2) /\ Len(dOut) \in Nat /\ DOMAIN dOut = 1 .. Len(dOut)
        /\ \A k \in DOMAIN dOut' : \/ k \in DOMAIN dOut /\ dOut'[k] = dOut[k]
                                   \/ k = Len(dOut) + 1 /\ dOut'[k] = tail
                                   \/ k = Len(dOut) + 2 /\ dOut'[k] = done
    BY <1>1, <1>2, <1>5
  <2>2. \A k \in DOMAIN dOut : dOut[k].kind # "done"
    BY <1>7
  <2>3. \A k \in DOMAIN dOut' : /\ dOut'[k].of # 0 => k \in DOMAIN dOut /\ dOut'[k] = dOut[k]
                                /\ dOut'[k].kind = "done" => k = Len(dOut) + 2
    BY <1>2, <2>1, <2>2 DEF Real
  <2>4. ASSUME NEW j \in DOMAIN dOut', NEW k \in DOMAIN dOut', dOut'[j].of # 0, dOut'[k].of # 0
        PROVE  dOut'[j].of = dOut'[k].of /\ (j < k => dOut'[j].i < dOut'[k].i)
    <3>1. j \in DOMAIN dOut /\ k \in DOMAIN dOut /\ dOut'[j] = dOut[j] /\ dOut'[k] = dOut[k]
      BY <2>3, <2>4
    <3>2. dOut[j].of # 0 /\ dOut[k].of # 0
      BY <2>4, <3>1, Zenon
    <3>3. dOut[j].of = dOut[k].of /\ (j < k => dOut[j].i < dOut[k].i)
      BY <1>1, <3>1, <3>2, Zenon DEF OneStream
    <3> QED
      BY <3>1, <3>3, Zenon
  <2>5. OneStream'
    <3>1. ASSUME NEW j \in DOMAIN dOut', NEW k \in DOMAIN dOut', dOut'[j].kind = "done", dOut'[k].kind = "done"
          PROVE  j = k
      BY <2>3, <3>1
    <3> QED
      BY <2>4, <3>1, Zenon DEF OneStream
  <2> QED
    BY <1>1, <1>4, <2>1, <2>5 DEF DeliveryInv, DeliveryShape
<1>6. CASE dOut' = dOut
  BY <1>1, <1>4, <1>6 DEF DeliveryInv, DeliveryShape, OneStream
<1> QED
  BY <1>3, <1>5, <1>6

LEMMA DeliveryNextInv == DeliveryInv /\ [DeliveryNext]_deliveryVars => DeliveryInv'
<1> SUFFICES ASSUME DeliveryInv, [DeliveryNext]_deliveryVars PROVE DeliveryInv'
  OBVIOUS
<1>1. CASE DeliverWhole
  <2>1. PICK kind \in {"body", "error"} : dOut' = <<[Junk EXCEPT !.kind = kind]>>
    BY <1>1 DEF DeliverWhole
  <2> DEFINE e == [Junk EXCEPT !.kind = kind]
  <2>2. e \in Event /\ ~Real(e)
    BY <2>1 DEF Junk, Event, Real
  <2> HIDE DEF e
  <2>3. dOut' = <<e>>
    BY <2>1 DEF e
  <2>4. dOut' \in Seq(Event) /\ DOMAIN dOut' = {1} /\ dOut'[1] = e
    BY <2>2, <2>3
  <2>5. OneStream'
    BY <2>2, <2>4 DEF OneStream, Real
  <2>6. dTry' = 0 /\ dReports' = <<>> /\ dAt' = "done"
    BY <1>1 DEF DeliverWhole, DeliveryInv, DeliveryShape
  <2>7. ReportedOnce'
    BY <2>6 DEF ReportedOnce
  <2> QED
    BY <1>1, <2>4, <2>5, <2>6, <2>7 DEF DeliverWhole, DeliveryInv, DeliveryShape
<1>2. CASE DeliverStream
  <2>1. PICK script \in Scripts : dBody' = Events(1, script)
    BY <1>2 DEF DeliverStream
  <2>2. PICK last \in Nat : BodyRun(last)'
    BY <1>2, <2>1, NewStream DEF DeliverStream
  <2>3. /\ dOut = <<>> /\ dPrefix = <<>> /\ dHeld = <<>> /\ dReports = <<>> /\ dAt' \in {"hold", "pass"} /\ dTry' = 1
        /\ UNCHANGED <<dPend, dHeld, dPrefix, dOut, dReports, dGone>>
    BY <1>2 DEF DeliverStream, DeliveryInv, DeliveryShape
  <2>4. InOrder(last)'
    <3>1. dOut' = <<>> /\ dHeld' = <<>> /\ dPrefix' = <<>>
      BY <2>3
    <3>2. Run(<<>>, dTry', last) /\ AllWhole(<<>>)
      BY RunOfNone DEF AllWhole
    <3> QED
      BY <2>2, <3>1, <3>2, BeforeNone DEF InOrder
  <2>5. 1 \in 0 .. (HoldRetries + 1)
    BY DeliveryAssumption
  <2>6. DeliveryShape'
    BY <2>3, <2>5 DEF DeliveryInv, DeliveryShape
  <2> QED
    BY <2>3, <2>4, <2>6 DEF DeliveryInv, ReportedOnce, OneStream
<1>3. CASE Cut \/ StallKill
  <2>1. /\ dBody' = <<>> /\ UNCHANGED <<dAt, dTry, dPend, dHeld, dPrefix, dOut, dReports, dGone>>
        /\ dAt \in {"hold", "pass"}
    BY <1>3 DEF Cut, StallKill
  <2>2. PICK last \in Nat : InOrder(last)
    BY <2>1 DEF DeliveryInv
  <2>3. BodyRun(last)'
    BY <2>1, RunOfNone DEF BodyRun
  <2>4. InOrder(last)'
    BY <2>1, <2>2, <2>3, BeforeNone DEF InOrder
  <2> QED
    BY <2>1, <2>4 DEF DeliveryInv, DeliveryShape, ReportedOnce, OneStream
<1>4. CASE HoldRead
  BY <1>4, HoldReadInv
<1>5. CASE HoldCut
  BY <1>5, HoldCutInv
<1>6. CASE PassRead
  BY <1>6, PassReadInv
<1>7. CASE PassEnds
  BY <1>7, PassEndsInv
<1>8. CASE Resume
  BY <1>8, ResumeInv
<1>9. CASE HangUpClient
  BY <1>9 DEF HangUpClient, DeliveryInv, DeliveryShape, ReportedOnce, OneStream, InOrder, BodyRun
<1>10. CASE Abandon
  BY <1>10 DEF Abandon, DeliveryInv, DeliveryShape, ReportedOnce, OneStream
<1>11. CASE DeliverNext
  <2>1. \A S : <<>> \in Seq(S) /\ Len(<<>>) = 0 /\ DOMAIN <<>> = {}
    OBVIOUS
  <2> QED
    BY <1>11, <2>1, DeliveryAssumption DEF DeliverNext, DeliveryInv, DeliveryShape, ReportedOnce, OneStream, AllWhole
<1>12. CASE UNCHANGED deliveryVars
  BY <1>12 DEF deliveryVars, DeliveryInv, DeliveryShape, ReportedOnce, OneStream, InOrder, BodyRun
<1> QED
  BY <1>1, <1>2, <1>3, <1>4, <1>5, <1>6, <1>7, <1>8, <1>9, <1>10, <1>11, <1>12 DEF DeliveryNext

\* writeWithHoldback, streamResponse and finish: whatever is cut, asked for again,
\* held or broken within a line, what the client has got is of one stream, in its
\* order and with one end, for any streams, retries and buffer.
THEOREM StreamIsOne == DeliverySpec => []OneStream
<1>1. DeliveryInv => OneStream
  BY DEF DeliveryInv
<1> QED
  BY DeliveryInitInv, DeliveryNextInv, <1>1, PTL DEF DeliverySpec

\* observe, whatever the streams, retries and buffer, and whichever of their events
\* carry a marker: the outcome of a stream is reported once, unless the client left;
\* it is called intact only if the client has got a marker, and never truncated if
\* the client has got the stream's own end and text.
THEOREM OutcomeReported == DeliverySpec => []ReportedOnce
<1>1. DeliveryInv => ReportedOnce
  BY DEF DeliveryInv
<1> QED
  BY DeliveryInitInv, DeliveryNextInv, <1>1, PTL DEF DeliverySpec

-----------------------------------------------------------------------------
(* AbsorbCache: one entry per key, and no more than the bound.              *)

CacheInv ==
    /\ AbsorbCacheTypeOK /\ cacheNow \in 0 .. LastTick
    /\ IsFiniteSet(cacheEntries)

LEMMA CacheInitInv == AbsorbCacheInit => CacheInv
BY FS_EmptySet, AbsorbCacheAssumption DEF AbsorbCacheInit, CacheInv, AbsorbCacheTypeOK, NoReplay

\* One of another age in place of an entry
LEMMA ReplayInv == ASSUME CacheInv, NEW r \in CacheReqs, Replay(r) PROVE CacheInv'
<1>1. PICK e \in cacheEntries :
        /\ e.key = CacheKey(r)
        /\ cacheEntries' = (cacheEntries \ {e}) \cup {[e EXCEPT !.lastUsed = cacheNow]}
        /\ cacheReplay' = [asked |-> {r}, madeFor |-> {e.madeFor}]
        /\ UNCHANGED <<cacheNow, cacheAsking, cacheSpent>>
  BY DEF Replay
<1> DEFINE f == [e EXCEPT !.lastUsed = cacheNow]
<1>2. e \in CacheEntry /\ cacheNow \in 0 .. LastTick
  BY DEF CacheInv, AbsorbCacheTypeOK
<1>3. f \in CacheEntry /\ f.key = e.key /\ f.lastUsed = cacheNow
  BY <1>2 DEF CacheEntry
<1> HIDE DEF f
<1>4. cacheEntries' = (cacheEntries \ {e}) \cup {f}
  BY <1>1 DEF f
<1>5. IsFiniteSet(cacheEntries') /\ Cardinality(cacheEntries') <= CacheBound
  <2>1. IsFiniteSet(cacheEntries) /\ Cardinality(cacheEntries) \in Nat /\ Cardinality(cacheEntries) <= CacheBound
    BY FS_CardinalityType DEF CacheInv, AbsorbCacheTypeOK
  <2>2. IsFiniteSet(cacheEntries \ {e}) /\ Cardinality(cacheEntries \ {e}) = Cardinality(cacheEntries) - 1
    BY <2>1, FS_RemoveElement
  <2> DEFINE rest == cacheEntries \ {e}
  <2> HIDE DEF rest
  <2>3. IsFiniteSet(rest) /\ Cardinality(rest) \in Nat /\ cacheEntries' = rest \cup {f}
    BY <1>4, <2>2, FS_CardinalityType DEF rest
  <2>4. IsFiniteSet(cacheEntries') /\ (Cardinality(cacheEntries') = Cardinality(rest) \/ Cardinality(cacheEntries') = Cardinality(rest) + 1)
    BY <2>3, FS_AddElement
  <2> QED
    BY <2>1, <2>2, <2>3, <2>4, AbsorbCacheAssumption DEF rest
<1>6. \A g, h \in cacheEntries' : g.key = h.key => g = h
  BY <1>3, <1>4 DEF CacheInv, AbsorbCacheTypeOK
<1>7. cacheEntries' \subseteq CacheEntry
  BY <1>2, <1>3, <1>4 DEF CacheInv, AbsorbCacheTypeOK
<1>8. e.madeFor \in CacheReqs
  BY <1>2 DEF CacheEntry
<1> QED
  BY <1>1, <1>5, <1>6, <1>7, <1>8 DEF CacheInv, AbsorbCacheTypeOK

LEMMA AskUpstreamInv == ASSUME CacheInv, NEW r \in CacheReqs, AskUpstream(r) PROVE CacheInv'
<1>1. /\ cacheSpent < Dispatches /\ cacheSpent' = cacheSpent + 1 /\ UNCHANGED cacheNow
      /\ cacheEntries' = {e \in cacheEntries : e.key # CacheKey(r)}
      /\ cacheAsking' = cacheAsking \cup {[of |-> r, nth |-> cacheSpent]}
      /\ cacheReplay' = [asked |-> {}, madeFor |-> {}]
  BY DEF AskUpstream, NoReplay
<1>2. IsFiniteSet(cacheEntries') /\ Cardinality(cacheEntries') <= CacheBound
  <2>1. IsFiniteSet(cacheEntries) /\ Cardinality(cacheEntries) \in Nat /\ Cardinality(cacheEntries) <= CacheBound
    BY FS_CardinalityType DEF CacheInv, AbsorbCacheTypeOK
  <2>2. IsFiniteSet(cacheEntries') /\ Cardinality(cacheEntries') <= Cardinality(cacheEntries)
        /\ Cardinality(cacheEntries') \in Nat
    BY <1>1, <2>1, FS_Subset, FS_CardinalityType
  <2> QED
    BY <2>1, <2>2, AbsorbCacheAssumption
<1>3. cacheSpent' \in 0 .. Dispatches /\ cacheAsking' \subseteq [of : CacheReqs, nth : 0 .. (Dispatches - 1)]
  BY <1>1, AbsorbCacheAssumption DEF CacheInv, AbsorbCacheTypeOK
<1>4. cacheReplay'.asked \subseteq CacheReqs /\ cacheReplay'.madeFor \subseteq CacheReqs
  BY <1>1
<1> QED
  BY <1>1, <1>2, <1>3, <1>4 DEF CacheInv, AbsorbCacheTypeOK

\* store: whatever entry gives way, one per key and no more than the bound are left.
LEMMA StoredInv ==
    ASSUME CacheInv, NEW r \in CacheReqs, NEW es \in Stored(cacheEntries, r)
    PROVE  /\ es \subseteq CacheEntry /\ IsFiniteSet(es) /\ Cardinality(es) <= CacheBound
           /\ \A e, f \in es : e.key = f.key => e = f
<1> DEFINE new == [key |-> CacheKey(r), madeFor |-> r, storedAt |-> cacheNow, lastUsed |-> cacheNow]
           others == {e \in cacheEntries : e.key # CacheKey(r)}
           with == others \cup {new}
<1>1. new \in CacheEntry /\ new.key = CacheKey(r)
  BY DEF CacheInv, CacheKey, CacheEntry
<1>2. \/ es = with /\ Cardinality(with) <= CacheBound
      \/ \E e \in LeastUsed(with) : es = with \ {e}
  BY DEF Stored
<1> HIDE DEF new
<1>3. IsFiniteSet(others) /\ Cardinality(others) \in Nat /\ Cardinality(others) <= CacheBound
  <2>1. IsFiniteSet(cacheEntries) /\ Cardinality(cacheEntries) \in Nat /\ Cardinality(cacheEntries) <= CacheBound
    BY FS_CardinalityType DEF CacheInv, AbsorbCacheTypeOK
  <2>2. IsFiniteSet(others) /\ Cardinality(others) <= Cardinality(cacheEntries) /\ Cardinality(others) \in Nat
    BY <2>1, FS_Subset, FS_CardinalityType
  <2> QED
    BY <2>1, <2>2, AbsorbCacheAssumption
<1>4. new \notin others
  BY <1>1
<1>5. IsFiniteSet(with) /\ Cardinality(with) = Cardinality(others) + 1
  BY <1>3, <1>4, FS_AddElement
<1>6. with \subseteq CacheEntry /\ \A e, f \in with : e.key = f.key => e = f
  BY <1>1 DEF CacheInv, AbsorbCacheTypeOK
<1> HIDE DEF with
<1>7. CASE es = with /\ Cardinality(with) <= CacheBound
  BY <1>5, <1>6, <1>7
<1>8. ASSUME NEW e \in LeastUsed(with), es = with \ {e}
      PROVE  es \subseteq with /\ IsFiniteSet(es) /\ Cardinality(es) <= CacheBound
  <2>1. e \in with
    BY DEF LeastUsed
  <2>2. IsFiniteSet(es) /\ Cardinality(es) = Cardinality(with) - 1
    BY <1>5, <1>8, <2>1, FS_RemoveElement
  <2> QED
    BY <1>3, <1>5, <1>8, <2>2
<1> QED
  BY <1>2, <1>6, <1>7, <1>8

LEMMA CacheNextInv == CacheInv /\ [AbsorbCacheNext]_absorbCacheVars => CacheInv'
<1> SUFFICES ASSUME CacheInv, [AbsorbCacheNext]_absorbCacheVars PROVE CacheInv'
  OBVIOUS
<1>1. ASSUME NEW r \in CacheReqs, Replay(r) PROVE CacheInv'
  BY <1>1, ReplayInv
<1>2. ASSUME NEW r \in CacheReqs, AskUpstream(r) PROVE CacheInv'
  BY <1>2, AskUpstreamInv
<1>3. ASSUME NEW d \in cacheAsking, CacheFill(d) PROVE CacheInv'
  <2>1. d.of \in CacheReqs /\ cacheReplay' = [asked |-> {}, madeFor |-> {}]
        /\ UNCHANGED <<cacheNow, cacheSpent>> /\ cacheAsking' \subseteq cacheAsking
    BY <1>3 DEF CacheFill, CacheInv, AbsorbCacheTypeOK, NoReplay
  <2>2. cacheEntries' \in Stored(cacheEntries, d.of) \/ cacheEntries' = cacheEntries
    BY <1>3 DEF CacheFill
  <2>3. CASE cacheEntries' \in Stored(cacheEntries, d.of)
    BY <2>1, <2>3, StoredInv DEF CacheInv, AbsorbCacheTypeOK
  <2>4. CASE cacheEntries' = cacheEntries
    BY <2>1, <2>4 DEF CacheInv, AbsorbCacheTypeOK
  <2> QED
    BY <2>2, <2>3, <2>4
<1>4. CASE CacheTick
  <2>1. /\ cacheNow < LastTick /\ cacheNow' = cacheNow + 1 /\ UNCHANGED <<cacheEntries, cacheAsking, cacheSpent>>
        /\ cacheReplay' = [asked |-> {}, madeFor |-> {}]
    BY <1>4 DEF CacheTick, NoReplay
  <2>2. cacheNow' \in 0 .. LastTick
    BY <2>1, AbsorbCacheAssumption DEF CacheInv
  <2> QED
    BY <2>1, <2>2 DEF CacheInv, AbsorbCacheTypeOK
<1>5. CASE UNCHANGED absorbCacheVars
  BY <1>5 DEF absorbCacheVars, CacheInv, AbsorbCacheTypeOK
<1> QED
  BY <1>1, <1>2, <1>3, <1>4, <1>5 DEF AbsorbCacheNext

-----------------------------------------------------------------------------
(* ModelCatalog: while a chain is walked, what it has brought can be tried  *)
(* again and no place that is left is of a model that was asked; a model     *)
(* still to be probed is alive.                                              *)

Outcomes == {"ok", "clientError", "fatal", "retryable", "failed"}
Results == {"none", "ok", "clientError", "fatal", "retryable", "error"}
Dispatched == [model : STRING, came : Outcomes]

MReqType ==
    [at : {"idle", "resolve", "send", "over"}, asked : STRING \cup {"none"}, chain : SUBSET Nat,
     sent : Seq(Dispatched), best : {"none", "retryable"}, result : Results]

HealthType == [status : Verdicts, fails : 0 .. DeadFails, recent : BOOLEAN]

\* What is known of a model that was probed
HealthSound == DOMAIN mHealth \subseteq STRING /\ \A m \in DOMAIN mHealth : mHealth[m] \in HealthType

NoneTwice(sent) == \A j, k \in DOMAIN sent : sent[j].model = sent[k].model => j = k

Untried(q) ==
    /\ \A k \in q.chain, i \in DOMAIN q.sent : q.sent[i].model # Candidates(q.asked)[k]
    /\ \A j, k \in q.chain : Candidates(q.asked)[j] = Candidates(q.asked)[k] => j = k

\* What was tried in vain, and what is remembered of it
InVain(q) ==
    /\ \A i \in DOMAIN q.sent : q.sent[i].came \in {"retryable", "failed"}
    /\ q.best = "retryable" <=> Came(q, "retryable")

\* The result of a request fits what came.
Fits(q) ==
    /\ \A i \in DOMAIN q.sent :
          q.sent[i].came \in {"ok", "clientError"} => i = Len(q.sent) /\ q.result = q.sent[i].came
    /\ q.result \in {"ok", "clientError", "retryable"} => Came(q, q.result)
    /\ q.result = "error" => \A i \in DOMAIN q.sent : q.sent[i].came = "failed"

ChainSound(q) ==
    /\ q.at # "idle" => q.asked \in STRING
    /\ q.at = "send" => q.chain # {} /\ InVain(q)
    /\ q.at # "send" => q.chain = {}
    /\ q.chain \subseteq DOMAIN Candidates(q.asked)
    /\ ~Unified(q.asked) => NoneTwice(q.sent) /\ Untried(q)
    /\ q.at \in {"idle", "resolve"} => q.sent = <<>> /\ q.best = "none"
    /\ q.at = "over" => Fits(q)

CatalogInv ==
    /\ mCache \in {"none", "failed", "stale", "committed"}
    /\ mPass \subseteq DOMAIN ShortName \cup ExtraModels
    /\ \A m \in mPass : Alive(m)
    /\ HealthSound
    /\ mReq \in [MReqs -> MReqType]
    /\ \A r \in MReqs : ChainSound(mReq[r])

LEMMA CatalogInvProps == CatalogInv => CatalogTypeOK /\ ResultMatchesChain
<1> SUFFICES ASSUME CatalogInv PROVE CatalogTypeOK /\ ResultMatchesChain
  OBVIOUS
<1>1. CatalogTypeOK
  BY DEF CatalogInv, CatalogTypeOK, ChainSound, HealthSound, HealthType, MReqAt
<1>2. ResultMatchesChain
  BY DEF CatalogInv, ResultMatchesChain, ChainSound, Fits, NoneTwice, MReqAt
<1> QED
  BY <1>1, <1>2

\* A request that has asked no model and has no chain
LEMMA NothingSent ==
    ASSUME NEW q, q.at \in {"idle", "resolve"}, q.at # "idle" => q.asked \in STRING,
           q.chain = {}, q.sent = <<>>, q.best = "none"
    PROVE  ChainSound(q)
<1>1. DOMAIN q.sent = {}
  OBVIOUS
<1> QED
  BY <1>1 DEF ChainSound, NoneTwice, Untried

LEMMA IdleSound == IdleReq \in MReqType /\ ChainSound(IdleReq) /\ IdleReq.at = "idle"
<1> DEFINE none == <<>>
<1>1. none \in Seq(Dispatched)
  OBVIOUS
<1> HIDE DEF none
<1>2. IdleReq = [at |-> "idle", asked |-> "none", chain |-> {}, sent |-> none, best |-> "none", result |-> "none"]
  BY DEF IdleReq, none
<1>3. IdleReq.at = "idle" /\ IdleReq.chain = {} /\ IdleReq.sent = none /\ IdleReq.best = "none"
  BY <1>2
<1>4. IdleReq \in MReqType
  <2>1. {} \in SUBSET Nat
    OBVIOUS
  <2> QED
    BY <1>1, <1>2, <2>1 DEF MReqType, Results
<1>5. ChainSound(IdleReq)
  BY <1>3, NothingSent DEF none
<1> QED
  BY <1>3, <1>4, <1>5

LEMMA CatalogInitInv == CatalogInit => CatalogInv
<1> SUFFICES ASSUME CatalogInit PROVE CatalogInv
  OBVIOUS
<1>1. mReq \in [MReqs -> MReqType] /\ \A r \in MReqs : ChainSound(mReq[r])
  BY IdleSound DEF CatalogInit
<1>2. HealthSound
  <2>1. DOMAIN mHealth = {}
    BY DEF CatalogInit
  <2> QED
    BY <2>1 DEF HealthSound
<1>3. mPass = {}
  BY DEF CatalogInit
<1> QED
  BY <1>1, <1>2, <1>3 DEF CatalogInit, CatalogInv

\* A request moves, the others rest.
LEMMA RequestMoves2 ==
    ASSUME mReq \in [MReqs -> MReqType], \A r \in MReqs : ChainSound(mReq[r]),
           NEW r \in MReqs, NEW q \in MReqType, ChainSound(q), mReq' = [mReq EXCEPT ![r] = q]
    PROVE  mReq' \in [MReqs -> MReqType] /\ \A s \in MReqs : ChainSound(mReq'[s])
<1>1. \A s \in MReqs : mReq'[s] = IF s = r THEN q ELSE mReq[s]
  OBVIOUS
<1>2. mReq' \in [MReqs -> MReqType]
  OBVIOUS
<1> QED
  BY <1>1, <1>2

LEMMA CandidateNames ==
    ASSUME NEW model \in STRING
    PROVE  Candidates(model) \in Seq(STRING) /\ DOMAIN Candidates(model) \subseteq Nat \ {0}
           /\ 1 \in DOMAIN Candidates(model)
<1>1. CASE Unified(model)
  <2>1. AutoPool \in Seq(STRING) /\ AutoPool # <<>>
    BY <1>1, CatalogAssumption DEF Unified
  <2> QED
    BY <1>1, <2>1 DEF Candidates
<1>2. CASE ~Unified(model)
  <2>1. <<model>> \o Fallbacks \in Seq(STRING) /\ Len(<<model>> \o Fallbacks) = 1 + Len(Fallbacks) /\ Len(Fallbacks) \in Nat
    BY CatalogAssumption
  <2> DEFINE c == <<model>> \o Fallbacks
  <2>2. Candidates(model) = c
    BY <1>2 DEF Candidates
  <2>3. c \in Seq(STRING) /\ Len(c) = 1 + Len(Fallbacks) /\ Len(Fallbacks) \in Nat
    BY <2>1
  <2> HIDE DEF c
  <2>4. DOMAIN c = 1 .. Len(c)
    BY <2>3
  <2>5. 1 \in DOMAIN c /\ DOMAIN c \subseteq Nat \ {0}
    BY <2>3, <2>4
  <2> QED
    BY <2>2, <2>3, <2>5
<1> QED
  BY <1>1, <1>2

LEMMA JudgedType ==
    ASSUME HealthSound, NEW m, NEW verdict \in Verdicts PROVE Judged(Health(m), verdict) \in HealthType
<1>1. Health(m).fails \in 0 .. DeadFails
  BY DEF Health, HealthSound, HealthType, NoHealth, DeadFails
<1> DEFINE fails == IF verdict \in {"working", "rateLimited"} THEN 0 ELSE Health(m).fails + 1
           status == IF verdict = "flaky" /\ fails >= DeadFails THEN "dead" ELSE verdict
           kept == IF fails > DeadFails THEN DeadFails ELSE fails
<1>2. fails \in 0 .. (DeadFails + 1) /\ kept \in 0 .. DeadFails
  BY <1>1 DEF DeadFails
<1>3. status \in Verdicts
  BY DEF Verdicts
<1> HIDE DEF fails, status, kept
<1>4. Judged(Health(m), verdict) = [status |-> status, fails |-> kept, recent |-> TRUE]
  BY DEF Judged, fails, status, kept
<1> QED
  BY <1>2, <1>3, <1>4 DEF HealthType

\* What a dispatch adds to the record of a request
LEMMA AskedRecord ==
    ASSUME NEW q \in MReqType, ChainSound(q), q.at = "send", NEW k \in q.chain, NEW came \in Outcomes
    PROVE  LET a == Asked(q, k, came) IN
           /\ a \in MReqType /\ a.at = q.at /\ a.asked = q.asked /\ a.best = q.best /\ a.chain = q.chain \ {k}
           /\ DOMAIN a.sent = 1 .. Len(a.sent) /\ Len(a.sent) = Len(q.sent) + 1 /\ Len(q.sent) \in Nat
           /\ DOMAIN q.sent = 1 .. Len(q.sent)
           /\ \A i \in DOMAIN q.sent : i \in DOMAIN a.sent /\ a.sent[i] = q.sent[i]
           /\ a.sent[Len(a.sent)].came = came
           /\ ~Unified(a.asked) => NoneTwice(a.sent) /\ Untried(a)
<1> DEFINE one == [model |-> Candidates(q.asked)[k], came |-> came]
           s == Append(q.sent, one)
           a == [q EXCEPT !.sent = s, !.chain = q.chain \ {k}]
<1>1. q.asked \in STRING /\ k \in DOMAIN Candidates(q.asked) /\ q.sent \in Seq(Dispatched) /\ q.chain \in SUBSET Nat
  BY DEF ChainSound, MReqType
<1>2. one \in Dispatched /\ one.model = Candidates(q.asked)[k] /\ one.came = came
  <2>1. Candidates(q.asked)[k] \in STRING
    BY <1>1, CandidateNames
  <2> QED
    BY <2>1 DEF Dispatched
<1> HIDE DEF one
<1>3. /\ s \in Seq(Dispatched) /\ Len(s) = Len(q.sent) + 1 /\ Len(q.sent) \in Nat
      /\ DOMAIN s = 1 .. Len(s) /\ DOMAIN q.sent = 1 .. Len(q.sent)
      /\ s[Len(s)] = one /\ \A i \in DOMAIN q.sent : i \in DOMAIN s /\ s[i] = q.sent[i]
  BY <1>1, <1>2
<1> HIDE DEF s
<1>4. q.chain \ {k} \in SUBSET Nat
  BY <1>1
<1>5. a \in MReqType /\ a.at = q.at /\ a.asked = q.asked /\ a.best = q.best /\ a.chain = q.chain \ {k} /\ a.sent = s
  BY <1>3, <1>4 DEF MReqType
<1> HIDE DEF a
<1>6. \A i \in DOMAIN s : (i \in DOMAIN q.sent /\ s[i] = q.sent[i]) \/ (i = Len(s) /\ s[i] = one)
  BY <1>3
<1>7. ASSUME ~Unified(a.asked) PROVE NoneTwice(a.sent) /\ Untried(a)
  <2>1. NoneTwice(q.sent) /\ Untried(q)
    BY <1>5, <1>7 DEF ChainSound
  <2>2. \A i \in DOMAIN q.sent : q.sent[i].model # one.model
    BY <1>2, <2>1 DEF Untried
  <2>3. NoneTwice(s)
    BY <1>6, <2>1, <2>2 DEF NoneTwice
  <2>4. \A j \in q.chain \ {k} : Candidates(q.asked)[j] # one.model
    BY <1>2, <2>1 DEF Untried
  <2>5. \A j \in q.chain \ {k}, i \in DOMAIN s : s[i].model # Candidates(q.asked)[j]
    BY <1>6, <2>1, <2>4 DEF Untried
  <2>6. \A i, j \in q.chain \ {k} : Candidates(q.asked)[i] = Candidates(q.asked)[j] => i = j
    BY <2>1 DEF Untried
  <2>7. Untried(a)
    BY <1>5, <2>5, <2>6 DEF Untried
  <2> QED
    BY <1>5, <2>3, <2>7
<1>8. Asked(q, k, came) = a
  BY DEF Asked, a, s, one
<1> QED
  BY <1>2, <1>3, <1>5, <1>7, <1>8

\* A request that has its answer
LEMMA OverSound ==
    ASSUME NEW q \in MReqType, q.asked \in STRING, ~Unified(q.asked) => NoneTwice(q.sent),
           NEW result \in Results,
           \A i \in DOMAIN q.sent : q.sent[i].came \in {"ok", "clientError"} => i = Len(q.sent) /\ result = q.sent[i].came,
           result \in {"ok", "clientError", "retryable"} => Came(q, result),
           result = "error" => \A i \in DOMAIN q.sent : q.sent[i].came = "failed"
    PROVE  Over(q, result) \in MReqType /\ ChainSound(Over(q, result))
<1> DEFINE e == Over(q, result)
<1>1. /\ e \in MReqType /\ e.at = "over" /\ e.chain = {} /\ e.sent = q.sent /\ e.asked = q.asked
      /\ e.result = result
  BY DEF Over, MReqType
<1> HIDE DEF e
<1>2. Fits(e)
  BY <1>1 DEF Fits, Came
<1>3. ChainSound(e)
  BY <1>1, <1>2 DEF ChainSound, Untried
<1> QED
  BY <1>1, <1>3 DEF e

\* What is left over of models asked in vain
LEMMA LeftoverFits ==
    ASSUME NEW q \in MReqType, InVain(q)
    PROVE  /\ Leftover(q) \in {"retryable", "error"}
           /\ Leftover(q) = "retryable" => Came(q, "retryable")
           /\ Leftover(q) = "error" => \A i \in DOMAIN q.sent : q.sent[i].came = "failed"
<1>1. q.best \in {"none", "retryable"}
  BY DEF MReqType
<1>2. CASE q.best = "retryable"
  BY <1>2 DEF Leftover, InVain
<1>3. CASE q.best = "none"
  <2>1. Leftover(q) = "error"
    BY <1>3 DEF Leftover
  <2>2. \A i \in DOMAIN q.sent : q.sent[i].came # "retryable"
    BY <1>3 DEF InVain, Came
  <2> QED
    BY <2>1, <2>2 DEF InVain
<1> QED
  BY <1>1, <1>2, <1>3

LEMMA SendToModelInv == ASSUME CatalogInv, NEW r \in MReqs, SendToModel(r) PROVE CatalogInv'
<1> DEFINE q == mReq[r]
<1>1. q \in MReqType /\ ChainSound(q) /\ q.at = "send" /\ UNCHANGED <<mCache, mHealth, mPass>>
  BY DEF CatalogInv, SendToModel, MReqAt
<1>2. PICK k \in q.chain :
        \/ \E came \in {"ok", "clientError", "fatal"} : mReq' = [mReq EXCEPT ![r] = Over(Asked(q, k, came), came)]
        \/ mReq' = [mReq EXCEPT ![r] = IF q.chain = {k} THEN Over(Asked(q, k, "retryable"), "retryable")
                                       ELSE [Asked(q, k, "retryable") EXCEPT !.best = "retryable"]]
        \/ mReq' = [mReq EXCEPT ![r] = IF q.chain = {k} THEN Over(Asked(q, k, "failed"), Leftover(q))
                                       ELSE Asked(q, k, "failed")]
        \/ mReq' = [mReq EXCEPT ![r] = Over(q, "fatal")]
        \/ mReq' = [mReq EXCEPT ![r] = Over(q, Leftover(q))]
  BY Zenon DEF SendToModel
<1>3. q.asked \in STRING /\ InVain(q) /\ (~Unified(q.asked) => NoneTwice(q.sent))
  BY <1>1 DEF ChainSound
<1>4. q.chain \subseteq DOMAIN Candidates(q.asked)
  BY <1>1 DEF ChainSound
<1> HIDE DEF q
<1> DEFINE Good(e) == e \in MReqType /\ ChainSound(e)
<1>5. ASSUME NEW came \in {"ok", "clientError", "fatal"} PROVE Good(Over(Asked(q, k, came), came))
  <2> DEFINE a == Asked(q, k, came)
  <2>1. came \in Outcomes /\ came \in Results
    BY DEF Outcomes, Results
  <2>2. /\ a \in MReqType /\ a.asked = q.asked
        /\ DOMAIN a.sent = 1 .. Len(a.sent) /\ Len(a.sent) = Len(q.sent) + 1 /\ Len(q.sent) \in Nat
        /\ DOMAIN q.sent = 1 .. Len(q.sent)
        /\ \A i \in DOMAIN q.sent : a.sent[i] = q.sent[i]
        /\ a.sent[Len(a.sent)].came = came
        /\ ~Unified(a.asked) => NoneTwice(a.sent)
    BY <1>1, <2>1, AskedRecord
  <2> HIDE DEF a
  <2>3. \A i \in DOMAIN a.sent : i = Len(a.sent) \/ (i \in DOMAIN q.sent /\ a.sent[i] = q.sent[i])
    BY <2>2
  <2>4. \A i \in DOMAIN a.sent :
           a.sent[i].came \in {"ok", "clientError"} => i = Len(a.sent) /\ came = a.sent[i].came
    BY <1>3, <2>2, <2>3 DEF InVain
  <2>5. Came(a, came)
    BY <2>2 DEF Came
  <2> QED
    BY <1>3, <2>1, <2>2, <2>4, <2>5, OverSound DEF a
<1>6. ASSUME NEW came \in {"retryable", "failed"}
      PROVE  LET a == Asked(q, k, came) IN
             /\ a \in MReqType /\ a.at = "send" /\ a.asked = q.asked /\ a.best = q.best /\ a.chain = q.chain \ {k}
             /\ \A i \in DOMAIN a.sent : a.sent[i].came \in {"retryable", "failed"}
             /\ Came(a, "retryable") <=> (came = "retryable" \/ Came(q, "retryable"))
             /\ (\A i \in DOMAIN a.sent : a.sent[i].came = "failed")
                   <=> (came = "failed" /\ \A i \in DOMAIN q.sent : q.sent[i].came = "failed")
             /\ ~Unified(a.asked) => NoneTwice(a.sent) /\ Untried(a)
  <2> DEFINE a == Asked(q, k, came)
  <2>1. came \in Outcomes
    BY DEF Outcomes
  <2>2. /\ a \in MReqType /\ a.at = q.at /\ a.asked = q.asked /\ a.best = q.best /\ a.chain = q.chain \ {k}
        /\ DOMAIN a.sent = 1 .. Len(a.sent) /\ Len(a.sent) = Len(q.sent) + 1 /\ Len(q.sent) \in Nat
        /\ DOMAIN q.sent = 1 .. Len(q.sent)
        /\ \A i \in DOMAIN q.sent : i \in DOMAIN a.sent /\ a.sent[i] = q.sent[i]
        /\ a.sent[Len(a.sent)].came = came
        /\ ~Unified(a.asked) => NoneTwice(a.sent) /\ Untried(a)
    BY <1>1, <2>1, AskedRecord
  <2> HIDE DEF a
  <2>3. Len(a.sent) \in DOMAIN a.sent
        /\ \A i \in DOMAIN a.sent : i = Len(a.sent) \/ (i \in DOMAIN q.sent /\ a.sent[i] = q.sent[i])
    BY <2>2
  <2>4. \A i \in DOMAIN a.sent : a.sent[i].came \in {"retryable", "failed"}
    BY <1>3, <2>2, <2>3 DEF InVain
  <2>5. Came(a, "retryable") <=> (came = "retryable" \/ Came(q, "retryable"))
    BY <2>2, <2>3 DEF Came
  <2>6. (\A i \in DOMAIN a.sent : a.sent[i].came = "failed")
           <=> (came = "failed" /\ \A i \in DOMAIN q.sent : q.sent[i].came = "failed")
    BY <2>2, <2>3
  <2> QED
    BY <1>1, <2>2, <2>4, <2>5, <2>6 DEF a
<1>7. Good(Over(Asked(q, k, "retryable"), "retryable"))
  <2> DEFINE a == Asked(q, k, "retryable")
  <2>1. /\ a \in MReqType /\ a.asked = q.asked /\ Came(a, "retryable")
        /\ \A i \in DOMAIN a.sent : a.sent[i].came \in {"retryable", "failed"}
        /\ ~Unified(a.asked) => NoneTwice(a.sent)
    BY <1>6
  <2> HIDE DEF a
  <2>2. "retryable" \in Results
    BY DEF Results
  <2> QED
    BY <1>3, <2>1, <2>2, OverSound DEF a
<1>8. ASSUME q.chain # {k} PROVE Good([Asked(q, k, "retryable") EXCEPT !.best = "retryable"])
  <2> DEFINE a == Asked(q, k, "retryable")
             e == [a EXCEPT !.best = "retryable"]
  <2>1. /\ a \in MReqType /\ a.at = "send" /\ a.asked = q.asked /\ a.chain = q.chain \ {k} /\ Came(a, "retryable")
        /\ \A i \in DOMAIN a.sent : a.sent[i].came \in {"retryable", "failed"}
        /\ ~Unified(a.asked) => NoneTwice(a.sent) /\ Untried(a)
    BY <1>6
  <2> HIDE DEF a
  <2>2. /\ e \in MReqType /\ e.at = "send" /\ e.asked = q.asked /\ e.chain = q.chain \ {k} /\ e.best = "retryable"
        /\ e.sent = a.sent
    BY <2>1 DEF MReqType
  <2> HIDE DEF e
  <2>3. InVain(e)
    BY <2>1, <2>2 DEF InVain, Came
  <2>4. ~Unified(e.asked) => NoneTwice(e.sent) /\ Untried(e)
    BY <2>1, <2>2 DEF Untried
  <2>5. ChainSound(e)
    BY <1>3, <1>4, <1>8, <2>2, <2>3, <2>4 DEF ChainSound
  <2> QED
    BY <2>2, <2>5 DEF a, e
<1>9. Good(Over(Asked(q, k, "failed"), Leftover(q)))
  <2> DEFINE a == Asked(q, k, "failed")
  <2>1. /\ a \in MReqType /\ a.asked = q.asked /\ (Came(a, "retryable") <=> Came(q, "retryable"))
        /\ \A i \in DOMAIN a.sent : a.sent[i].came \in {"retryable", "failed"}
        /\ (\A i \in DOMAIN a.sent : a.sent[i].came = "failed") <=> (\A i \in DOMAIN q.sent : q.sent[i].came = "failed")
        /\ ~Unified(a.asked) => NoneTwice(a.sent)
    BY <1>6
  <2> HIDE DEF a
  <2>2. Leftover(q) \in Results
    BY <1>1, <1>3, LeftoverFits DEF Results
  <2>3. /\ Leftover(q) \in {"retryable", "error"}
        /\ Leftover(q) = "retryable" => Came(q, "retryable")
        /\ Leftover(q) = "error" => \A i \in DOMAIN q.sent : q.sent[i].came = "failed"
    BY <1>1, <1>3, LeftoverFits
  <2> QED
    BY <1>3, <2>1, <2>2, <2>3, OverSound DEF a
<1>10. ASSUME q.chain # {k} PROVE Good(Asked(q, k, "failed"))
  <2> DEFINE a == Asked(q, k, "failed")
  <2>1. /\ a \in MReqType /\ a.at = "send" /\ a.asked = q.asked /\ a.best = q.best /\ a.chain = q.chain \ {k}
        /\ (Came(a, "retryable") <=> Came(q, "retryable"))
        /\ \A i \in DOMAIN a.sent : a.sent[i].came \in {"retryable", "failed"}
        /\ ~Unified(a.asked) => NoneTwice(a.sent) /\ Untried(a)
    BY <1>6
  <2> HIDE DEF a
  <2>2. InVain(a)
    BY <1>3, <2>1 DEF InVain
  <2>3. ChainSound(a)
    BY <1>3, <1>4, <1>10, <2>1, <2>2 DEF ChainSound
  <2> QED
    BY <2>1, <2>3 DEF a
<1>11. Good(Over(q, "fatal")) /\ Good(Over(q, Leftover(q)))
  <2>1. "fatal" \in Results /\ Leftover(q) \in Results
    BY <1>1, <1>3, LeftoverFits DEF Results
  <2>2. \A i \in DOMAIN q.sent : q.sent[i].came \notin {"ok", "clientError"}
    BY <1>3 DEF InVain
  <2>3. /\ Leftover(q) \in {"retryable", "error"}
        /\ Leftover(q) = "retryable" => Came(q, "retryable")
        /\ Leftover(q) = "error" => \A i \in DOMAIN q.sent : q.sent[i].came = "failed"
    BY <1>1, <1>3, LeftoverFits
  <2>4. Good(Over(q, "fatal"))
    BY <1>1, <1>3, <2>1, <2>2, OverSound
  <2>5. Good(Over(q, Leftover(q)))
    BY <1>1, <1>3, <2>1, <2>2, <2>3, OverSound
  <2> QED
    BY <2>4, <2>5
<1> HIDE DEF Good
<1>12. \E e : Good(e) /\ mReq' = [mReq EXCEPT ![r] = e]
  <2>1. CASE q.chain = {k}
    BY <1>2, <1>5, <1>7, <1>9, <1>11, <2>1, Zenon
  <2>2. CASE q.chain # {k}
    BY <1>2, <1>5, <1>8, <1>10, <1>11, <2>2, Zenon
  <2> QED
    BY <2>1, <2>2
<1>13. mReq' \in [MReqs -> MReqType] /\ \A t \in MReqs : ChainSound(mReq'[t])
  BY <1>12, RequestMoves2 DEF CatalogInv, Good
<1> QED
  BY <1>1, <1>13 DEF CatalogInv, HealthSound, Alive, DeadModels

\* What a probe in turn does to those who are dead.
LEMMA ProbeKeepsDead ==
    ASSUME CatalogInv, NEW m \in DOMAIN ShortName \cup ExtraModels, ProbeModel(m)
    PROVE  /\ m \notin DeadModels
           /\ \A n \in DOMAIN mHealth : n # m => n \in DOMAIN mHealth' /\ mHealth'[n] = mHealth[n]
           /\ \A n \in DOMAIN mHealth' : n # m => n \in DOMAIN mHealth
<1>1. PICK verdict \in Verdicts :
          mHealth' = [n \in DOMAIN mHealth \cup {m} |-> IF n = m THEN Judged(Health(m), verdict) ELSE mHealth[n]]
  BY DEF ProbeModel
<1>2. m \notin DeadModels
  BY DEF ProbeModel, CatalogInv, Alive
<1> QED
  BY <1>1, <1>2

LEMMA CatalogNextInv == CatalogInv /\ [CatalogNext]_catalogVars => CatalogInv'
<1> SUFFICES ASSUME CatalogInv, [CatalogNext]_catalogVars PROVE CatalogInv'
  OBVIOUS
<1>0. NeedsList => mCache' \in {"none", "failed", "stale", "committed"}
  BY DEF NeedsList, CatalogInv
<1>1. CASE FailureForgotten
  BY <1>1 DEF FailureForgotten, CatalogInv, HealthSound, Alive, DeadModels
<1>2. CASE StartProbing
  <2>1. DOMAIN Rename \subseteq DOMAIN ShortName
    BY DEF Rename
  <2>2. mPass' \subseteq DOMAIN ShortName \cup ExtraModels /\ \A m \in mPass' : Alive(m)
    BY <1>2, <2>1 DEF StartProbing, Listed
  <2> QED
    BY <1>0, <1>2, <2>2 DEF StartProbing, CatalogInv, HealthSound, Alive, DeadModels
<1>3. ASSUME NEW m \in DOMAIN ShortName \cup ExtraModels, ProbeModel(m) PROVE CatalogInv'
  <2>1. PICK verdict \in Verdicts :
          mHealth' = [n \in DOMAIN mHealth \cup {m} |-> IF n = m THEN Judged(Health(m), verdict) ELSE mHealth[n]]
    BY <1>3 DEF ProbeModel
  <2>2. Judged(Health(m), verdict) \in HealthType /\ m \in STRING
    BY JudgedType, CatalogAssumption DEF CatalogInv
  <2>3. HealthSound'
    BY <2>1, <2>2 DEF HealthSound, CatalogInv
  <2>4. \A n \in mPass' : n \in mPass /\ n # m
    BY <1>3 DEF ProbeModel
  <2>5. \A n \in mPass' : Alive(n)'
    BY <1>3, <2>4, ProbeKeepsDead DEF CatalogInv, Alive, DeadModels
  <2> QED
    BY <1>3, <2>3, <2>5 DEF ProbeModel, CatalogInv
<1>4. ASSUME NEW m, ProbeAges(m) PROVE CatalogInv'
  <2>1. m \in DOMAIN mHealth /\ mHealth' = [mHealth EXCEPT ![m].recent = FALSE] /\ mHealth[m] \in HealthType
    BY <1>4 DEF ProbeAges, CatalogInv, HealthSound
  <2> DEFINE h == [mHealth[m] EXCEPT !.recent = FALSE]
  <2>2. h \in HealthType /\ h.status = mHealth[m].status /\ mHealth' = [mHealth EXCEPT ![m] = h]
    BY <2>1 DEF HealthType
  <2> HIDE DEF h
  <2>3. DOMAIN mHealth' = DOMAIN mHealth /\ \A n \in DOMAIN mHealth : mHealth'[n] = IF n = m THEN h ELSE mHealth[n]
    BY <2>2
  <2>4. HealthSound'
    BY <2>2, <2>3 DEF HealthSound, CatalogInv
  <2>5. \A n \in mPass : Alive(n)'
    BY <2>2, <2>3 DEF CatalogInv, Alive, DeadModels
  <2> QED
    BY <1>4, <2>4, <2>5 DEF ProbeAges, CatalogInv
<1>5. ASSUME NEW r \in MReqs, AskModel(r) PROVE CatalogInv'
  <2>1. PICK name \in Shown \cup Askable :
           mReq' = [mReq EXCEPT ![r] = [IdleReq EXCEPT !.at = "resolve", !.asked = Redirect(name)]]
    BY <1>5 DEF AskModel
  <2>2. Redirect(name) \in STRING
    <3>1. name \in STRING
      <4>1. \A rename \in {ShortName} : Names(rename) \subseteq STRING
        BY CatalogAssumption DEF Names
      <4>2. DOMAIN <<>> = {}
        OBVIOUS
      <4>3. Names(<<>>) \subseteq STRING
        BY <4>2, CatalogAssumption DEF Names
      <4> QED
        BY <2>1, <4>1, <4>3, CatalogAssumption DEF Shown
    <3>2. DOMAIN Rename \subseteq STRING
      BY CatalogAssumption DEF Rename
    <3> DEFINE from == {m \in DOMAIN Rename : Rename[m] = name}
    <3>3. from # {} => (CHOOSE m \in from : TRUE) \in from
      BY Zenon
    <3>4. Redirect(name) = IF name \in Suppliers \/ from = {} THEN name ELSE CHOOSE m \in from : TRUE
      BY DEF Redirect
    <3>5. from \subseteq STRING
      BY <3>2
    <3> HIDE DEF from
    <3> QED
      BY <3>1, <3>3, <3>4, <3>5
  <2> DEFINE q == [IdleReq EXCEPT !.at = "resolve", !.asked = Redirect(name)]
  <2>3. q \in MReqType /\ q.at = "resolve" /\ q.chain = {} /\ q.sent = <<>> /\ q.best = "none" /\ q.asked \in STRING
    BY <2>2, IdleSound DEF IdleReq, MReqType
  <2> HIDE DEF q
  <2>5. ChainSound(q)
    BY <2>3, NothingSent
  <2>6. mReq' \in [MReqs -> MReqType] /\ \A t \in MReqs : ChainSound(mReq'[t])
    BY <2>1, <2>3, <2>5, RequestMoves2 DEF CatalogInv, q
  <2> QED
    BY <1>0, <1>5, <2>6 DEF AskModel, CatalogInv, HealthSound, Alive, DeadModels
<1>6. ASSUME NEW r \in MReqs, ResolveChain(r) PROVE CatalogInv'
  <2> DEFINE chain == ChainOf(mReq[r].asked)
             q == [mReq[r] EXCEPT !.at = "send", !.chain = chain]
  <2>1. /\ mReq[r] \in MReqType /\ mReq[r].asked \in STRING /\ mReq[r].sent = <<>> /\ mReq[r].best = "none"
    BY <1>6 DEF ResolveChain, CatalogInv, MReqAt, ChainSound
  <2>2. mReq' = [mReq EXCEPT ![r] = q]
    BY <1>6 DEF ResolveChain
  <2>3. /\ chain \subseteq Nat /\ 1 \in chain
        /\ chain \subseteq DOMAIN Candidates(mReq[r].asked)
        /\ ~Unified(mReq[r].asked) => \A k \in chain : k = 1 \/ \A j \in DOMAIN Candidates(mReq[r].asked) :
                                          j < k => Candidates(mReq[r].asked)[j] # Candidates(mReq[r].asked)[k]
    BY <2>1, CandidateNames DEF ChainOf
  <2>4. ~Unified(mReq[r].asked) => \A j, k \in chain :
           Candidates(mReq[r].asked)[j] = Candidates(mReq[r].asked)[k] => j = k
    <3> SUFFICES ASSUME ~Unified(mReq[r].asked), NEW j \in chain, NEW k \in chain, j < k
                 PROVE  Candidates(mReq[r].asked)[j] # Candidates(mReq[r].asked)[k]
      BY <2>3
    <3>1. j \in Nat \ {0} /\ k # 1
      BY <2>1, <2>3, CandidateNames
    <3> QED
      BY <2>3, <3>1
  <2> HIDE DEF chain
  <2>5. /\ q \in MReqType /\ q.at = "send" /\ q.chain = chain /\ q.sent = <<>> /\ q.best = "none"
        /\ q.asked = mReq[r].asked
    BY <2>1, <2>3 DEF MReqType
  <2>6. DOMAIN q.sent = {}
    BY <2>5
  <2> HIDE DEF q
  <2>7. ChainSound(q)
    BY <2>1, <2>3, <2>4, <2>5, <2>6 DEF ChainSound, InVain, Came, NoneTwice, Untried
  <2>8. mReq' \in [MReqs -> MReqType] /\ \A t \in MReqs : ChainSound(mReq'[t])
    BY <2>2, <2>5, <2>7, RequestMoves2 DEF CatalogInv
  <2> QED
    BY <1>6, <2>8 DEF ResolveChain, CatalogInv, HealthSound, Alive, DeadModels
<1>7. ASSUME NEW r \in MReqs, SendToModel(r) PROVE CatalogInv'
  BY <1>7, SendToModelInv
<1>8. ASSUME NEW r \in MReqs, AskAgain(r) PROVE CatalogInv'
  <2>1. mReq' \in [MReqs -> MReqType] /\ \A t \in MReqs : ChainSound(mReq'[t])
    BY <1>8, IdleSound, RequestMoves2 DEF AskAgain, CatalogInv
  <2> QED
    BY <1>8, <2>1 DEF AskAgain, CatalogInv, HealthSound, Alive, DeadModels
<1>9. CASE UNCHANGED catalogVars
  BY <1>9 DEF catalogVars, CatalogInv, HealthSound, Alive, DeadModels
<1> QED
  BY <1>1, <1>2, <1>3, <1>4, <1>5, <1>6, <1>7, <1>8, <1>9 DEF CatalogNext

\* dispatchUnified and dispatchModelChain, for any models, fallbacks, pools and
\* requests, and however the probes go on meanwhile: what a request ends with fits
\* what its dispatches brought, and outside a pool none is made twice for a model.
THEOREM ResultFitsChain == CatalogSpec => []ResultMatchesChain
BY CatalogInitInv, CatalogNextInv, CatalogInvProps, PTL DEF CatalogSpec

\* record and runModelProbePass: a model that is judged dead stays so, for any
\* models and whatever its probes or the fetching of the list bring: a pass is made
\* of models that live, and none of them is probed twice in it.
THEOREM DeathIsFinal == CatalogSpec => DeadStaysDead
<1>1. CatalogInv /\ [CatalogNext]_catalogVars => [\A m \in DeadModels : m \in DeadModels']_catalogVars
  <2> SUFFICES ASSUME CatalogInv, CatalogNext PROVE \A m \in DeadModels : m \in DeadModels'
    OBVIOUS
  <2>1. ASSUME NEW m \in DOMAIN ShortName \cup ExtraModels, ProbeModel(m) PROVE \A n \in DeadModels : n \in DeadModels'
    BY <2>1, ProbeKeepsDead DEF DeadModels
  <2>2. ASSUME NEW m, ProbeAges(m) PROVE \A n \in DeadModels : n \in DeadModels'
    <3>1. m \in DOMAIN mHealth /\ mHealth' = [mHealth EXCEPT ![m].recent = FALSE] /\ mHealth[m] \in HealthType
      BY <2>2 DEF ProbeAges, CatalogInv, HealthSound
    <3> DEFINE h == [mHealth[m] EXCEPT !.recent = FALSE]
    <3>2. h.status = mHealth[m].status /\ mHealth' = [mHealth EXCEPT ![m] = h]
      BY <3>1 DEF HealthType
    <3> HIDE DEF h
    <3> QED
      BY <3>2 DEF DeadModels
  <2>3. CASE UNCHANGED mHealth
    BY <2>3 DEF DeadModels
  <2>4. \/ UNCHANGED mHealth
        \/ \E m \in DOMAIN ShortName \cup ExtraModels : ProbeModel(m) \/ ProbeAges(m)
    BY DEF CatalogNext, FailureForgotten, StartProbing, AskModel, ResolveChain, SendToModel, AskAgain
  <2> QED
    BY <2>1, <2>2, <2>3, <2>4
<1> QED
  BY CatalogInitInv, CatalogNextInv, <1>1, PTL DEF CatalogSpec, DeadStaysDead

-----------------------------------------------------------------------------
(* ChatFrames: as long as upstream appends, all of its answer is streamed    *)
(* while frames come, but for the end that the final message brings.         *)

Text == Seq(STRING)

LEMMA PrefixElements ==
    ASSUME NEW s \in Text, NEW t \in Text
    PROVE  IsPrefix(s, t) <=> Len(s) <= Len(t) /\ \A i \in 1 .. Len(s) : s[i] = t[i]
<1>1. Len(s) \in Nat /\ Len(t) \in Nat /\ \A i \in 1 .. Len(s) : s[i] \in STRING
  BY DEF Text
<1>2. /\ Len(SubSeq(s, 1, Len(s))) = Len(s) /\ SubSeq(s, 1, Len(s)) \in Text
      /\ \A i \in 1 .. Len(s) : SubSeq(s, 1, Len(s))[i] = s[i]
  BY <1>1, SubSeqProperties DEF Text
<1>3. CASE Len(s) <= Len(t)
  <2>1. \A i \in 1 .. Len(s) : t[i] \in STRING
    BY <1>1, <1>3 DEF Text
  <2>2. /\ Len(SubSeq(t, 1, Len(s))) = Len(s) /\ SubSeq(t, 1, Len(s)) \in Text
        /\ \A i \in 1 .. Len(s) : SubSeq(t, 1, Len(s))[i] = t[i]
    BY <1>1, <2>1, SubSeqProperties DEF Text
  <2> DEFINE u == SubSeq(s, 1, Len(s))
             v == SubSeq(t, 1, Len(s))
  <2>3. IsPrefix(s, t) <=> u = v
    BY <1>3 DEF IsPrefix
  <2>4. u \in Seq(STRING) /\ v \in Seq(STRING) /\ Len(u) = Len(s) /\ Len(v) = Len(s)
        /\ \A i \in 1 .. Len(s) : u[i] = s[i] /\ v[i] = t[i]
    BY <1>2, <2>2 DEF Text
  <2> HIDE DEF u, v
  <2>5. (\A i \in 1 .. Len(s) : s[i] = t[i]) => u = v
    BY <2>4, SeqEqual
  <2> QED
    BY <1>3, <2>3, <2>4, <2>5
<1> QED
  BY <1>3 DEF IsPrefix

LEMMA Appended ==
    ASSUME NEW s \in Text, NEW t \in Text
    PROVE  /\ s \o t \in Text /\ Len(s \o t) = Len(s) + Len(t) /\ Len(s) \in Nat /\ Len(t) \in Nat
           /\ \A i \in 1 .. Len(s) : (s \o t)[i] = s[i]
           /\ \A i \in 1 .. Len(t) : (s \o t)[Len(s) + i] = t[i]
           /\ IsPrefix(s, s \o t)
<1>1. /\ s \o t \in Text /\ Len(s \o t) = Len(s) + Len(t) /\ Len(s) \in Nat /\ Len(t) \in Nat
      /\ \A i \in 1 .. Len(s) : (s \o t)[i] = s[i]
      /\ \A i \in 1 .. Len(t) : (s \o t)[Len(s) + i] = t[i]
  BY DEF Text
<1> DEFINE st == s \o t
<1>2. st \in Text /\ Len(s) <= Len(st) /\ \A i \in 1 .. Len(s) : s[i] = st[i]
  BY <1>1
<1> HIDE DEF st
<1>3. IsPrefix(s, st)
  BY <1>2, PrefixElements
<1> QED
  BY <1>1, <1>3 DEF st

\* What is behind a beginning makes it the whole.
LEMMA BehindPrefix ==
    ASSUME NEW s \in Text, NEW t \in Text, IsPrefix(s, t)
    PROVE  Behind(Len(s), t) \in Text /\ s \o Behind(Len(s), t) = t
<1>1. Len(s) \in Nat /\ Len(t) \in Nat /\ Len(s) <= Len(t) /\ \A i \in 1 .. Len(s) : s[i] = t[i]
  BY PrefixElements DEF Text
<1>2. \A i \in (Len(s) + 1) .. Len(t) : t[i] \in STRING
  BY <1>1 DEF Text
<1> DEFINE b == Behind(Len(s), t)
<1>3. /\ b \in Seq(STRING)
      /\ Len(b) = (IF Len(s) + 1 <= Len(t) THEN Len(t) - (Len(s) + 1) + 1 ELSE 0)
      /\ \A i \in 1 .. Len(t) - (Len(s) + 1) + 1 : b[i] = t[Len(s) + 1 + i - 1]
  <2>1. Len(s) + 1 \in Int /\ Len(t) \in Int
    BY <1>1
  <2> QED
    BY <1>2, <2>1, SubSeqProperties DEF Behind
<1> HIDE DEF b
<1>4. Len(b) = Len(t) - Len(s) /\ b \in Text
  BY <1>1, <1>3 DEF Text
<1>5. /\ s \o b \in Text /\ Len(s \o b) = Len(t)
      /\ \A i \in 1 .. Len(s) : (s \o b)[i] = t[i]
      /\ \A i \in 1 .. Len(b) : (s \o b)[Len(s) + i] = b[i]
  <2> DEFINE sb == s \o b
  <2>1. /\ sb \in Text /\ Len(sb) = Len(s) + Len(b)
        /\ \A i \in 1 .. Len(s) : sb[i] = s[i]
        /\ \A i \in 1 .. Len(b) : sb[Len(s) + i] = b[i]
    BY <1>4, Appended
  <2> HIDE DEF sb
  <2>2. Len(sb) = Len(t)
    BY <1>1, <1>4, <2>1
  <2> QED
    BY <1>1, <2>1, <2>2 DEF sb
<1>6. ASSUME NEW i \in 1 .. Len(t) PROVE (s \o b)[i] = t[i]
  <2>1. CASE i <= Len(s)
    BY <1>1, <1>5, <2>1
  <2>2. CASE i > Len(s)
    <3>1. i - Len(s) \in 1 .. Len(b) /\ Len(s) + (i - Len(s)) = i
      BY <1>1, <1>4, <2>2
    <3>2. (s \o b)[i] = b[i - Len(s)]
      BY <1>5, <3>1
    <3>3. i - Len(s) \in 1 .. Len(t) - (Len(s) + 1) + 1 /\ Len(s) + 1 + (i - Len(s)) - 1 = i
      BY <1>1, <2>2
    <3>4. b[i - Len(s)] = t[i]
      BY <1>3, <3>3
    <3> QED
      BY <3>2, <3>4
  <2>3. i <= Len(s) \/ i > Len(s)
    BY <1>1
  <2> QED
    BY <2>1, <2>2, <2>3, Zenon
<1>7. s \o b = t
  <2> DEFINE u == s \o b
  <2>1. u \in Seq(STRING) /\ t \in Seq(STRING) /\ Len(u) = Len(t) /\ \A i \in 1 .. Len(u) : u[i] = t[i]
    BY <1>5, <1>6 DEF Text
  <2> HIDE DEF u
  <2>2. u = t
    BY <2>1, SeqEqual
  <2> QED
    BY <2>2 DEF u
<1> QED
  BY <1>4, <1>7 DEF b

\* A beginning has all of itself in common with the whole.
LEMMA UnseenOfPrefix ==
    ASSUME NEW s \in Text, NEW t \in Text, IsPrefix(s, t)
    PROVE  Unseen(s, t) = Behind(Len(s), t)
<1>1. Len(s) \in Nat /\ Len(t) \in Nat /\ Len(s) <= Len(t) /\ \A i \in 1 .. Len(s) : s[i] = t[i]
  BY PrefixElements DEF Text
<1> DEFINE common(n) == /\ n <= Len(t) /\ \A i \in 1 .. n : s[i] = t[i]
                        /\ n < Len(s) /\ n < Len(t) => s[n + 1] # t[n + 1]
<1>2. Len(s) \in 0 .. Len(s) /\ common(Len(s))
  BY <1>1
<1>3. \A n \in 0 .. Len(s) : common(n) => n = Len(s)
  <2> SUFFICES ASSUME NEW n \in 0 .. Len(s), common(n), n # Len(s) PROVE FALSE
    OBVIOUS
  <2>1. n < Len(s) /\ n < Len(t) /\ n + 1 \in 1 .. Len(s)
    BY <1>1
  <2> QED
    BY <1>1, <2>1
<1>4. CommonPrefix(s, t) = CHOOSE n \in 0 .. Len(s) : common(n)
  BY DEF CommonPrefix
<1> HIDE DEF common
<1>5. CommonPrefix(s, t) = Len(s)
  BY <1>2, <1>3, <1>4, Zenon
<1> QED
  BY <1>5 DEF Unseen

-----------------------------------------------------------------------------
FramesInv ==
    fPlain =>
        /\ fAnswer \in Text /\ fStreamed \in Text /\ fFinal \in {<<>>, fAnswer}
        /\ IsPrefix(fStreamed, fAnswer)
        /\ fAt # "over" /\ fFinal = <<>> => fStreamed = fAnswer
        /\ fResult = "ok" => fAt = "over" /\ fStreamed = fAnswer /\ fText = fAnswer

LEMMA PrefixOfItself == \A s \in Text : IsPrefix(s, s)
<1>1. \A s \in Text : Len(s) <= Len(s)
  BY DEF Text
<1> QED
  BY <1>1, PrefixElements

LEMMA FramesInitInv == FramesInit => FramesInv
<1>1. <<>> \in Text
  BY DEF Text
<1> QED
  BY <1>1, PrefixOfItself DEF FramesInit, FramesInv

LEMMA AnswerGrowsInv == ASSUME FramesInv, AnswerGrows PROVE FramesInv'
<1> SUFFICES ASSUME fPlain PROVE FramesInv'
  BY DEF AnswerGrows, FramesInv
<1>1. /\ fAt = "read" /\ fFinal = <<>> /\ fFinal' = <<>> /\ fStreamed = fAnswer /\ fAnswer \in Text /\ fResult # "ok"
  BY DEF AnswerGrows, FramesInv
<1>2. PICK w \in Pieces, sent \in {"fragment", "snapshot", "both"} :
        LET fragment == IF sent = "snapshot" THEN <<>> ELSE w
            after == fStreamed \o fragment
            more == IF sent = "fragment" THEN <<>> ELSE Unseen(after, fAnswer')
            notice == Notice(fStreamed, IF fragment # <<>> THEN fragment ELSE more)
        IN  fAnswer' = fAnswer \o w /\ Forwarded(notice, fragment \o more)
  BY Zenon DEF AnswerGrows
<1>3. w \in Text /\ w # <<>> /\ <<>> \in Text
  BY FramesAssumption DEF Text
<1> DEFINE fragment == IF sent = "snapshot" THEN <<>> ELSE w
           after == fAnswer \o fragment
           more == IF sent = "fragment" THEN <<>> ELSE Unseen(after, fAnswer')
           notice == Notice(fStreamed, IF fragment # <<>> THEN fragment ELSE more)
<1>4. fAnswer' = fAnswer \o w /\ Forwarded(notice, fragment \o more)
  BY <1>1, <1>2
<1>5. fAnswer' \in Text /\ IsPrefix(fAnswer, fAnswer') /\ fAnswer \o <<>> = fAnswer /\ w \o <<>> = w
  BY <1>1, <1>3, <1>4, Appended DEF Text
<1>6. fragment \in Text /\ more \in Text /\ fAnswer \o (fragment \o more) = fAnswer'
  <2>1. CASE sent = "fragment"
    BY <1>3, <1>4, <1>5, <2>1
  <2>2. CASE sent = "snapshot"
    <3>1. fragment = <<>> /\ more = Unseen(fAnswer, fAnswer')
      BY <1>5, <2>2
    <3>2. more \in Text /\ fAnswer \o more = fAnswer'
      <4>1. fAnswer \in Text /\ fAnswer' \in Text /\ IsPrefix(fAnswer, fAnswer')
        BY <1>1, <1>5
      <4>2. Unseen(fAnswer, fAnswer') = Behind(Len(fAnswer), fAnswer')
        BY <4>1, UnseenOfPrefix
      <4>3. Behind(Len(fAnswer), fAnswer') \in Text /\ fAnswer \o Behind(Len(fAnswer), fAnswer') = fAnswer'
        BY <4>1, BehindPrefix
      <4> QED
        BY <3>1, <4>2, <4>3, Zenon
    <3> HIDE DEF more
    <3>3. <<>> \o more = more
      BY <3>2 DEF Text
    <3> QED
      BY <1>3, <3>1, <3>2, <3>3
  <2>3. CASE sent = "both"
    <3>1. fragment = w /\ more = Unseen(fAnswer', fAnswer')
      BY <1>4, <2>3
    <3>2. more \in Text /\ fAnswer' \o more = fAnswer'
      BY <1>5, <3>1, UnseenOfPrefix, BehindPrefix, PrefixOfItself
    <3> HIDE DEF more
    <3>3. (fAnswer \o w) \o more = fAnswer \o (w \o more)
      BY <1>1, <1>3, <3>2, ConcatAssociative DEF Text
    <3> QED
      BY <1>3, <1>4, <3>1, <3>2, <3>3
  <2> QED
    BY <2>1, <2>2, <2>3
<1> HIDE DEF notice, more, fragment, after
<1>7. CASE fStreamed' = fStreamed \o (fragment \o more) /\ UNCHANGED <<fAt, fConn, fResult, fText>>
  BY <1>1, <1>5, <1>6, <1>7, PrefixOfItself DEF FramesInv
<1>8. CASE UNCHANGED fStreamed /\ fAt' = "over" /\ fResult' \in {notice, "canceled"} /\ fResult' # "ok"
  BY <1>1, <1>5, <1>8 DEF FramesInv
<1>9. notice \in {"none", "limit", "policy"}
  BY DEF notice, Notice
<1> QED
  BY <1>4, <1>7, <1>8, <1>9 DEF Forwarded, Fails

LEMMA ResultFrameInv == ASSUME FramesInv, ResultFrame PROVE FramesInv'
<1> SUFFICES ASSUME fPlain PROVE FramesInv'
  BY DEF ResultFrame, FramesInv
<1>1. /\ fAt = "read" /\ fFinal = <<>> /\ fStreamed = fAnswer /\ fAnswer \in Text /\ fResult # "ok"
      /\ UNCHANGED <<fGone, fPlain, fStreamed, fOffense>>
  BY DEF ResultFrame, FramesInv
<1>2. CASE /\ \E w \in Pieces \cup {<<>>} :
                /\ Len(fAnswer \o w) \in 1 .. TextLen
                /\ fAnswer' = fAnswer \o w /\ fFinal' = fAnswer'
           /\ LET notice == IF Begins(fFinal', "policy") THEN "policy" ELSE Notice(fStreamed, fFinal')
              IN IF notice # "none" THEN Fails(notice) ELSE UNCHANGED <<fAt, fConn, fResult, fText>>
  <2>1. PICK w \in Pieces \cup {<<>>} : Len(fAnswer \o w) \in 1 .. TextLen /\ fAnswer' = fAnswer \o w /\ fFinal' = fAnswer'
    BY <1>2
  <2>2. w \in Text
    <3>1. CASE w = <<>>
      BY <3>1 DEF Text
    <3>2. CASE w \in Pieces
      BY <3>2, FramesAssumption DEF Text
    <3> QED
      BY <3>1, <3>2
  <2>3. fAnswer' \in Text /\ IsPrefix(fStreamed, fAnswer') /\ fAnswer' # <<>>
    <3>1. fAnswer' \in Text /\ IsPrefix(fAnswer, fAnswer')
      BY <1>1, <2>1, <2>2, Appended
    <3>2. Len(fAnswer') # 0 /\ Len(<<>>) = 0
      BY <2>1
    <3> QED
      BY <1>1, <3>1, <3>2
  <2>4. fResult' # "ok" \/ (fResult' = fResult /\ fAt' = fAt)
    BY <1>2 DEF Notice, Fails
  <2> QED
    BY <1>1, <2>1, <2>3, <2>4 DEF FramesInv
<1>3. CASE \E error \in {"limit", "upstream"} : Fails(error) /\ UNCHANGED <<fAnswer, fFinal>>
  BY <1>1, <1>3 DEF FramesInv, Fails
<1> QED
  BY <1>2, <1>3 DEF ResultFrame

LEMMA CompletionInv == ASSUME FramesInv, Completion PROVE FramesInv'
<1> SUFFICES ASSUME fPlain PROVE FramesInv'
  BY DEF Completion, FramesInv
<1>1. /\ fAt = "read" /\ fAnswer \in Text /\ fStreamed \in Text /\ IsPrefix(fStreamed, fAnswer) /\ fResult # "ok"
      /\ (fFinal = <<>> /\ fStreamed = fAnswer) \/ fFinal = fAnswer
      /\ UNCHANGED <<fGone, fPlain, fAnswer, fFinal, fOffense>>
  BY DEF Completion, FramesInv
<1>2. CASE \E error : error # "ok" /\ Fails(error) /\ UNCHANGED fStreamed
  BY <1>1, <1>2 DEF FramesInv, Fails
<1>3. /\ fStreamed \o MissingTail \in Text /\ fStreamed \o MissingTail = fAnswer
      /\ Finalized = fAnswer
  <2>1. CASE fFinal = fAnswer
    <3>1. MissingTail = Behind(Len(fStreamed), fAnswer)
      BY <1>1, <2>1 DEF MissingTail
    <3>2. fStreamed \o MissingTail = fAnswer
      BY <1>1, <3>1, BehindPrefix
    <3>3. Len(fAnswer) <= Len(fStreamed) => fStreamed = fAnswer
      <4>1. Len(fStreamed) \in Nat /\ Len(fAnswer) \in Nat /\ Len(fStreamed) <= Len(fAnswer)
            /\ \A i \in 1 .. Len(fStreamed) : fStreamed[i] = fAnswer[i]
        BY <1>1, PrefixElements DEF Text
      <4>2. Len(fAnswer) <= Len(fStreamed) => Len(fStreamed) = Len(fAnswer)
        BY <4>1
      <4> QED
        BY <1>1, <4>1, <4>2, SeqEqual DEF Text
    <3> QED
      BY <1>1, <2>1, <3>2, <3>3 DEF Finalized
  <2>2. CASE fFinal = <<>> /\ fStreamed = fAnswer
    <3>1. <<>> \in Text /\ Len(<<>>) = 0 /\ Len(fStreamed) \in Nat /\ fStreamed \o <<>> = fStreamed
      BY <1>1 DEF Text
    <3>2. Finalized = fStreamed
      <4>1. Len(<<>>) <= Len(fStreamed)
        BY <3>1
      <4> QED
        BY <2>2, <4>1 DEF Finalized
    <3>3. MissingTail = <<>>
      <4>1. CASE IsPrefix(fStreamed, fFinal)
        <5>1. Behind(Len(fStreamed), <<>>) \in Text /\ fStreamed \o Behind(Len(fStreamed), <<>>) = <<>>
          BY <1>1, <2>2, <3>1, <4>1, BehindPrefix
        <5> QED
          BY <1>1, <2>2, <4>1, <5>1, ConcatEqualIffEmpty DEF MissingTail, Text
      <4> QED
        BY <4>1 DEF MissingTail
    <3> QED
      BY <1>1, <2>2, <3>1, <3>2, <3>3
  <2> QED
    BY <1>1, <2>1, <2>2
<1>4. CASE fStreamed' = fStreamed \o MissingTail /\ fAt' = "over" /\ fResult' = "ok" /\ fText' = Finalized
  BY <1>1, <1>3, <1>4, PrefixOfItself DEF FramesInv
<1>5. CASE fStreamed' = fStreamed \o MissingTail /\ \E error : error # "ok" /\ Fails(error)
  BY <1>1, <1>3, <1>5, PrefixOfItself DEF FramesInv, Fails
<1> QED
  BY <1>2, <1>4, <1>5, Zenon DEF Completion

LEMMA FramesNextInv == FramesInv /\ [FramesNext]_frameVars => FramesInv'
<1> SUFFICES ASSUME FramesInv, [FramesNext]_frameVars PROVE FramesInv'
  OBVIOUS
<1>1. CASE Dial
  BY <1>1 DEF Dial, Fails, FramesInv
<1>2. CASE Upload
  BY <1>2 DEF Upload, Fails, FramesInv
<1>3. CASE Handshake
  BY <1>3 DEF Handshake, Fails, FramesInv
<1>4. CASE SendPayload
  BY <1>4 DEF SendPayload, Fails, FramesInv
<1>5. CASE AnswerGrows
  BY <1>5, AnswerGrowsInv
<1>6. CASE Rewrite
  BY <1>6 DEF Rewrite, FramesInv
<1>7. CASE OtherFrame
  BY <1>7 DEF OtherFrame, Fails, FramesInv
<1>8. CASE ResultFrame
  BY <1>8, ResultFrameInv
<1>9. CASE Completion
  BY <1>9, CompletionInv
<1>10. CASE ReadFails
  BY <1>10 DEF ReadFails, Fails, FramesInv
<1>11. CASE CallerGone
  BY <1>11 DEF CallerGone, FramesInv
<1>12. CASE SeeGone
  BY <1>12 DEF SeeGone, Fails, FramesInv
<1>13. CASE UNCHANGED frameVars
  BY <1>13 DEF frameVars, FramesInv
<1> QED
  BY <1>1, <1>2, <1>3, <1>4, <1>5, <1>6, <1>7, <1>8, <1>9, <1>10, <1>11, <1>12, <1>13 DEF FramesNext

\* emitSnapshot and finalizeText: an answer to which upstream only appends is streamed
\* as it is, in any mixture of fragments and snapshots, for any pieces and any
\* length.  Of an answer that upstream rewrites on the way this says nothing.
THEOREM AppendedAnswerStreamed == FramesSpec => []StreamExact
<1>1. FramesInv => StreamExact
  BY DEF FramesInv, StreamExact
<1> QED
  BY FramesInitInv, FramesNextInv, <1>1, PTL DEF FramesSpec

-----------------------------------------------------------------------------
(* MirrorPool keeps its type: wherever the cursor is, there is a mirror.     *)

LEMMA LeastOf == \A S \in SUBSET Nat : S # {} => Min(S) \in S
<1> SUFFICES ASSUME NEW S \in SUBSET Nat, S # {} PROVE Min(S) \in S
  OBVIOUS
<1>1. \E m \in S : \A k \in S : m <= k
  BY NatMin
<1> QED
  BY <1>1 DEF Min

LEMMA MirrorAtPlace ==
    /\ \A i \in Int : MirrorAt(i) \in Mirrors
    /\ \A m \in Mirrors : \E i \in 0 .. N - 1 : MirrorAt(i) = m
    /\ \A c \in 0 .. N - 1, m \in Mirrors : \E i \in 0 .. N - 1 : MirrorAt(c + i) = m
<1>1. N \in Nat /\ N >= 2 /\ DOMAIN Pool = 1 .. N
  BY PoolAssumption
<1>2. \A i \in Int : i % N \in 0 .. N - 1
  BY <1>1
<1>3. \A a \in 0 .. N - 1 : a % N = a /\ (a + N) % N = a
  BY <1>1
<1>4. ASSUME NEW i \in Int PROVE MirrorAt(i) \in Mirrors
  <2>1. i % N \in 0 .. N - 1
    BY <1>2
  <2> DEFINE place == i % N
  <2> HIDE DEF place
  <2>2. place + 1 \in DOMAIN Pool
    BY <1>1, <2>1 DEF place
  <2> QED
    BY <2>2 DEF MirrorAt, Mirrors, place
<1>5. ASSUME NEW m \in Mirrors PROVE \E i \in 0 .. N - 1 : MirrorAt(i) = m
  <2>1. PICK j \in 1 .. N : Pool[j] = m
    BY <1>1 DEF Mirrors
  <2>2. j - 1 \in 0 .. N - 1 /\ (j - 1) % N = j - 1 /\ (j - 1) + 1 = j
    BY <1>1, <1>3
  <2>3. MirrorAt(j - 1) = m
    BY <2>1, <2>2 DEF MirrorAt
  <2> QED
    BY <2>2, <2>3
<1>6. ASSUME NEW c \in 0 .. N - 1, NEW m \in Mirrors PROVE \E i \in 0 .. N - 1 : MirrorAt(c + i) = m
  <2>1. PICK a \in 0 .. N - 1 : MirrorAt(a) = m
    BY <1>5
  <2>2. CASE a >= c
    <3>1. a - c \in 0 .. N - 1 /\ c + (a - c) = a
      BY <1>1, <2>2
    <3> QED
      BY <2>1, <3>1
  <2>3. CASE a < c
    <3>1. a + N - c \in 0 .. N - 1 /\ c + (a + N - c) = a + N
      BY <1>1, <2>3
    <3>2. (a + N) % N = a % N
      BY <1>3
    <3>3. MirrorAt(a + N) = m
      BY <2>1, <3>2 DEF MirrorAt
    <3> QED
      BY <3>1, <3>3
  <2> QED
    BY <1>1, <2>2, <2>3
<1> QED
  BY <1>4, <1>5, <1>6

LEMMA PickedMirror == ASSUME MirrorTypeOK PROVE Picked \in Mirrors
<1> DEFINE ready == {i \in 0 .. N - 1 : Ready(MirrorAt(cursor + i))}
           soonest == {i \in 0 .. N - 1 : \A m \in Mirrors :
                          health[MirrorAt(cursor + i)].cooling <= health[m].cooling}
           cooling == {health[m].cooling : m \in Mirrors}
<1>1. N \in Nat /\ N >= 2 /\ cursor \in 0 .. N - 1 /\ Cooldown \in Nat
  BY PoolAssumption DEF MirrorTypeOK
<1>2. soonest # {}
  <2>1. \A m \in Mirrors : health[m].cooling \in Nat
    BY <1>1 DEF MirrorTypeOK
  <2>2. cooling \in SUBSET Nat
    BY <2>1
  <2>3. cooling # {}
    <3>1. MirrorAt(0) \in Mirrors
      BY MirrorAtPlace
    <3> QED
      BY <3>1
  <2>4. PICK c \in cooling : \A k \in cooling : c <= k
    BY <2>2, <2>3, NatMin
  <2>5. PICK m \in Mirrors : health[m].cooling = c
    BY <2>4
  <2>6. PICK i \in 0 .. N - 1 : MirrorAt(cursor + i) = m
    BY <1>1, MirrorAtPlace
  <2>7. i \in soonest
    BY <2>4, <2>5, <2>6
  <2> QED
    BY <2>7
<1> DEFINE S == IF ready # {} THEN ready ELSE soonest
<1>3. S \in SUBSET Nat /\ S # {}
  BY <1>1, <1>2
<1>4. Picked = MirrorAt(cursor + Min(S))
  BY DEF Picked
<1> HIDE DEF S
<1>5. cursor + Min(S) \in Int
  <2>1. Min(S) \in S
    BY <1>3, LeastOf, Zenon
  <2> DEFINE least == Min(S)
  <2> HIDE DEF least
  <2>2. least \in Nat
    BY <1>3, <2>1 DEF least
  <2>3. cursor + least \in Int
    BY <1>1, <2>2
  <2> QED
    BY <2>3 DEF least
<1> QED
  BY <1>4, <1>5, MirrorAtPlace

LEMMA MirrorInitType == MirrorInit => MirrorTypeOK
<1> SUFFICES ASSUME MirrorInit PROVE MirrorTypeOK
  OBVIOUS
<1>1. N \in Nat /\ N >= 2 /\ Threshold \in Nat \ {0} /\ Cooldown \in Nat /\ MaxLanes \in Nat
  BY PoolAssumption
<1>2. 0 \in 0 .. N - 1 /\ 0 \in 0 .. Threshold - 1 /\ 0 \in 0 .. Cooldown /\ 0 \in 0 .. MaxLanes
  BY <1>1
<1>3. MaxTries \in Nat /\ 0 \in 0 .. MaxTries
  <2>1. {N, 3} \in SUBSET Nat /\ {N, 3} # {}
    BY <1>1
  <2>2. Min({N, 3}) \in {N, 3}
    BY <2>1, LeastOf
  <2>3. MaxTries \in Nat
    BY <2>1, <2>2 DEF MaxTries
  <2> QED
    BY <2>3
<1>4. MirrorAt(0) \in Mirrors
  BY MirrorAtPlace
<1>5. Well \in [fails : 0 .. Threshold - 1, cooling : 0 .. Cooldown]
  BY <1>2 DEF Well
<1> QED
  BY <1>2, <1>3, <1>4, <1>5 DEF MirrorInit, MirrorTypeOK

LEMMA NotedType ==
    ASSUME MirrorTypeOK, NEW m \in Mirrors, NEW ok \in BOOLEAN
    PROVE  MirrorNoted(m, ok) \in [Mirrors -> [fails : 0 .. Threshold - 1, cooling : 0 .. Cooldown]]
<1> DEFINE H == [fails : 0 .. Threshold - 1, cooling : 0 .. Cooldown]
           h == IF ok THEN Well
                ELSE IF health[m].fails + 1 < Threshold THEN [fails |-> health[m].fails + 1, cooling |-> health[m].cooling]
                ELSE [fails |-> 0, cooling |-> Cooldown]
<1>1. health \in [Mirrors -> H] /\ health[m] \in H /\ Threshold \in Nat \ {0} /\ Cooldown \in Nat
  BY PoolAssumption DEF MirrorTypeOK
<1>2. h \in H
  <2>1. Well \in H /\ [fails |-> 0, cooling |-> Cooldown] \in H
    BY <1>1 DEF Well
  <2>2. health[m].fails + 1 < Threshold => [fails |-> health[m].fails + 1, cooling |-> health[m].cooling] \in H
    BY <1>1
  <2> QED
    BY <2>1, <2>2
<1>3. MirrorNoted(m, ok) = [health EXCEPT ![m] = h]
  <2>1. CASE ok
    BY <2>1 DEF MirrorNoted
  <2>2. CASE ~ok /\ health[m].fails + 1 < Threshold
    BY <2>2 DEF MirrorNoted
  <2>3. CASE ~ok /\ ~(health[m].fails + 1 < Threshold)
    BY <2>3 DEF MirrorNoted
  <2> QED
    BY <2>1, <2>2, <2>3
<1> HIDE DEF h, H
<1>4. [health EXCEPT ![m] = h] \in [Mirrors -> H]
  BY <1>1, <1>2
<1> QED
  BY <1>3, <1>4 DEF H

LEMMA MirrorNextType == MirrorTypeOK /\ [MirrorNext]_mirrorVars => MirrorTypeOK'
<1> SUFFICES ASSUME MirrorTypeOK, [MirrorNext]_mirrorVars PROVE MirrorTypeOK'
  OBVIOUS
<1>1. /\ N \in Nat /\ N >= 2 /\ Threshold \in Nat \ {0} /\ Cooldown \in Nat /\ MaxLanes \in Nat
      /\ MirrorAt(0) \in Mirrors
  BY PoolAssumption, MirrorAtPlace
<1> DEFINE H == [fails : 0 .. Threshold - 1, cooling : 0 .. Cooldown]
           Places == {"idle", "pick", "race", "racing", "failed", "limited", "won", "stream"}
<1>2. /\ cursor \in 0 .. N - 1 /\ health \in [Mirrors -> H] /\ at \in [Requests -> Places]
      /\ tries \in [Requests -> 0 .. MaxTries] /\ mirror \in [Requests -> Mirrors]
      /\ left \in [Requests -> 0 .. MaxLanes] /\ lanes \in [Requests -> 0 .. MaxLanes]
      /\ sentTo \in [Requests -> SUBSET Mirrors] /\ since \in [Mirrors -> Nat]
  BY DEF MirrorTypeOK
<1>3. \A m \in Mirrors, ok \in BOOLEAN : MirrorNoted(m, ok) \in [Mirrors -> H]
  BY NotedType
<1>4. \A r \in Requests, l \in Places : [at EXCEPT ![r] = l] \in [Requests -> Places]
  BY <1>2
<1>5. MaxTries \in Nat
  BY <1>1, LeastOf DEF MaxTries
<1> HIDE DEF H, Places
<1>l. "idle" \in Places /\ "pick" \in Places /\ "race" \in Places /\ "racing" \in Places
      /\ "failed" \in Places /\ "limited" \in Places /\ "won" \in Places /\ "stream" \in Places
  BY DEF Places
<1>g. ASSUME /\ cursor' \in 0 .. N - 1 /\ health' \in [Mirrors -> H] /\ at' \in [Requests -> Places]
             /\ tries' \in [Requests -> 0 .. MaxTries] /\ mirror' \in [Requests -> Mirrors]
             /\ left' \in [Requests -> 0 .. MaxLanes] /\ lanes' \in [Requests -> 0 .. MaxLanes]
             /\ sentTo' \in [Requests -> SUBSET Mirrors] /\ since' \in [Mirrors -> Nat]
      PROVE  MirrorTypeOK'
  BY <1>g DEF MirrorTypeOK, H, Places
<1>6. ASSUME NEW r \in Requests, NEW l \in Places, LeaveMirror(r, l), health' \in [Mirrors -> H]
      PROVE  MirrorTypeOK'
  <2>1. 0 \in 0 .. MaxLanes
    BY <1>1
  <2> QED
    BY <1>1, <1>2, <1>4, <1>6, <1>g, <2>1 DEF LeaveMirror, Goto
<1>7. ASSUME NEW r \in Requests, MirrorDispatch(r) PROVE MirrorTypeOK'
  <2>1. PICK n \in {left[r], MaxLanes} : left' = [left EXCEPT ![r] = n]
    BY <1>7 DEF MirrorDispatch
  <2>2. n \in 0 .. MaxLanes /\ 0 \in 0 .. MaxTries
    BY <1>1, <1>2, <1>5, <2>1
  <2> QED
    BY <1>2, <1>4, <1>7, <1>g, <1>l, <2>1, <2>2 DEF MirrorDispatch, Goto
<1>8. ASSUME NEW r \in Requests, PickMirror(r) PROVE MirrorTypeOK'
  <2>1. tries[r] + 1 \in 0 .. MaxTries
    BY <1>2, <1>5, <1>8 DEF PickMirror
  <2>2. Picked \in Mirrors
    BY PickedMirror
  <2>3. cursor' \in 0 .. N - 1
    <3>1. (cursor + 1) % N \in 0 .. N - 1
      BY <1>1, <1>2
    <3> QED
      BY <1>8, <3>1 DEF PickMirror, Advanced
  <2>4. since' \in [Mirrors -> Nat]
    <3>1. \A m \in Mirrors : (IF m = Picked \/ ~Ready(m) THEN 0 ELSE since[m] + 1) \in Nat
      BY <1>2
    <3>2. since' = [m \in Mirrors |-> IF m = Picked \/ ~Ready(m) THEN 0 ELSE since[m] + 1]
      BY <1>8 DEF PickMirror
    <3> QED
      BY <3>1, <3>2
  <2>5. tries' \in [Requests -> 0 .. MaxTries] /\ mirror' \in [Requests -> Mirrors]
    BY <1>2, <1>8, <2>1, <2>2 DEF PickMirror
  <2> QED
    BY <1>2, <1>4, <1>8, <1>g, <1>l, <2>3, <2>4, <2>5 DEF PickMirror, Goto
<1>9. ASSUME NEW r \in Requests, GiveUp(r) PROVE MirrorTypeOK'
  BY <1>2, <1>4, <1>9, <1>g, <1>l DEF GiveUp, Goto, requestVars
<1>10. ASSUME NEW r \in Requests, NothingLeft(r) PROVE MirrorTypeOK'
  BY <1>2, <1>4, <1>10, <1>g, <1>l DEF NothingLeft, Goto
<1>11. ASSUME NEW r \in Requests, NEW l \in {"failed", "limited", "won"}, NEW m \in Mirrors, RaceEnds(r, l, m)
       PROVE  MirrorTypeOK'
  <2>1. 0 \in 0 .. MaxLanes
    BY <1>1
  <2> QED
    BY <1>2, <1>4, <1>11, <1>g, <1>l, <2>1 DEF RaceEnds, Goto
<1>12. ASSUME NEW r \in Requests, RaceLost(r) \/ RaceLimited(r) PROVE MirrorTypeOK'
  <2>1. mirror[r] \in Mirrors
    BY <1>2
  <2> QED
    BY <1>11, <1>12, <2>1 DEF RaceLost, RaceLimited
<1>13. ASSUME NEW r \in Requests, Cancelled(r) PROVE MirrorTypeOK'
  BY <1>2, <1>6, <1>13, <1>l DEF Cancelled
<1>14. ASSUME NEW r \in Requests, NEW k \in 1 .. MaxLanes, Race(r, k) PROVE MirrorTypeOK'
  <2> DEFINE start == CHOOSE i \in 0 .. N - 1 : MirrorAt(i) = mirror[r]
  <2>1. start \in 0 .. N - 1
    <3>1. mirror[r] \in Mirrors
      BY <1>2
    <3> QED
      BY <3>1, MirrorAtPlace
  <2>2. sentTo' = [sentTo EXCEPT ![r] = {MirrorAt(start + j) : j \in 0 .. k - 1}]
    BY <1>14 DEF Race
  <2> HIDE DEF start
  <2>3. \A j \in 0 .. k - 1 : start + j \in Int
    BY <1>1, <2>1
  <2>4. {MirrorAt(start + j) : j \in 0 .. k - 1} \in SUBSET Mirrors
    BY <2>3, MirrorAtPlace
  <2>5. sentTo' \in [Requests -> SUBSET Mirrors]
    BY <1>2, <2>2, <2>4
  <2>6. left[r] - k \in 0 .. MaxLanes /\ k \in 0 .. MaxLanes
    <3>1. left[r] \in 0 .. MaxLanes /\ k <= left[r]
      BY <1>2, <1>14 DEF Race
    <3> QED
      BY <1>1, <3>1
  <2>7. left' \in [Requests -> 0 .. MaxLanes] /\ lanes' \in [Requests -> 0 .. MaxLanes]
    BY <1>2, <1>14, <2>6 DEF Race
  <2> QED
    BY <1>2, <1>4, <1>14, <1>g, <1>l, <2>5, <2>7 DEF Race, Goto
<1>15. ASSUME NEW r \in Requests, NEW m \in Mirrors, LaneEmpty(r, m) \/ RaceWon(r, m) PROVE MirrorTypeOK'
  <2>1. CASE LaneEmpty(r, m)
    <3>1. lanes[r] - 1 \in 0 .. MaxLanes
      <4>1. lanes[r] \in 0 .. MaxLanes /\ lanes[r] > 0
        BY <1>2, <2>1 DEF LaneEmpty
      <4> QED
        BY <1>1, <4>1
    <3>2. lanes' \in [Requests -> 0 .. MaxLanes] /\ health' \in [Mirrors -> H]
      BY <1>2, <1>3, <2>1, <3>1 DEF LaneEmpty, Note
    <3> QED
      BY <1>2, <1>g, <2>1, <3>2 DEF LaneEmpty
  <2>2. CASE RaceWon(r, m)
    BY <1>11, <2>2 DEF RaceWon
  <2> QED
    BY <1>15, <2>1, <2>2
<1>16. ASSUME NEW r \in Requests, ChargePicked(r) \/ SparePicked(r) \/ StreamEnds(r) PROVE MirrorTypeOK'
  <2>1. mirror[r] \in Mirrors
    BY <1>2
  <2>2. health' \in [Mirrors -> H] /\ (LeaveMirror(r, "pick") \/ LeaveMirror(r, "idle"))
    BY <1>2, <1>3, <1>16, <2>1 DEF ChargePicked, SparePicked, StreamEnds, Note
  <2> QED
    BY <1>6, <1>l, <2>2
<1>17. ASSUME NEW r \in Requests, CreditWinner(r) PROVE MirrorTypeOK'
  <2>1. mirror[r] \in Mirrors
    BY <1>2
  <2>2. health' \in [Mirrors -> H]
    BY <1>3, <1>17, <2>1 DEF CreditWinner, Note
  <2> QED
    BY <1>2, <1>4, <1>17, <1>g, <1>l, <2>2 DEF CreditWinner, Goto, requestVars
<1>18. ASSUME NEW m \in Mirrors, NEW ok \in BOOLEAN, FetchModels(m, ok) PROVE MirrorTypeOK'
  BY <1>2, <1>3, <1>18, <1>g DEF FetchModels, Note, requestVars
<1>19. CASE Tick
  <2>1. ASSUME NEW m \in Mirrors PROVE [health[m] EXCEPT !.cooling = Max({0, @ - 1})] \in H
    <3>1. health[m] \in H
      BY <1>2
    <3> DEFINE c == health[m].cooling
               left0 == Max({0, c - 1})
    <3>2. c \in 0 .. Cooldown
      BY <3>1 DEF H
    <3> HIDE DEF c
    <3>3. left0 \in 0 .. Cooldown
      <4>1. c >= 1 => \E x \in {0, c - 1} : \A y \in {0, c - 1} : x >= y
        BY <1>1, <3>2
      <4>2. c = 0 => \E x \in {0, c - 1} : \A y \in {0, c - 1} : x >= y
        BY <1>1, <3>2
      <4>3. \E x \in {0, c - 1} : \A y \in {0, c - 1} : x >= y
        BY <1>1, <3>2, <4>1, <4>2
      <4>4. left0 \in {0, c - 1} /\ left0 >= 0
        BY <4>3 DEF Max
      <4> QED
        BY <1>1, <3>2, <4>4
    <3>4. [health[m] EXCEPT !.cooling = Max({0, @ - 1})] = [health[m] EXCEPT !.cooling = left0]
      BY <3>1 DEF c, H
    <3> HIDE DEF left0
    <3>5. [health[m] EXCEPT !.cooling = left0] \in H
      BY <3>1, <3>3 DEF H
    <3> QED
      BY <3>4, <3>5
  <2>2. health' \in [Mirrors -> H]
    <3>1. health' = [m \in Mirrors |-> [health[m] EXCEPT !.cooling = Max({0, @ - 1})]]
      BY <1>19 DEF Tick
    <3> QED
      BY <2>1, <3>1
  <2> QED
    BY <1>2, <1>19, <1>g, <2>2 DEF Tick, requestVars
<1>20. CASE UNCHANGED mirrorVars
  BY <1>2, <1>20, <1>g DEF mirrorVars
<1> QED
  BY <1>7, <1>8, <1>9, <1>10, <1>12, <1>13, <1>14, <1>15, <1>16, <1>17, <1>18, <1>19, <1>20 DEF MirrorNext

-----------------------------------------------------------------------------
(* ChatFrames keeps its type: what is streamed outgrows the answer only by   *)
(* what was streamed before the answer was begun anew.                       *)

Tokens == UNION {ToSet(p) : p \in Pieces}

FramesType ==
    /\ fAt \in {"dial", "upload", "handshake", "payload", "read", "over"}
    /\ fConn <=> fAt \in {"upload", "handshake", "payload", "read"}
    /\ fResult = "none" <=> fAt # "over"
    /\ fAnswer \in Seq(Tokens) /\ fFinal \in Seq(Tokens) /\ fStreamed \in Seq(Tokens)
    /\ Len(fAnswer) <= TextLen /\ Len(fFinal) <= TextLen
    /\ Len(fStreamed) <= TextLen + Len(fAnswer)

LEMMA Bounded ==
    ASSUME NEW S, NEW n \in Nat
    PROVE  /\ \A s \in Seq(S) : Len(s) <= n => s \in BoundedSeq(S, n)
           /\ \A s \in BoundedSeq(S, n) : s \in Seq(S) /\ Len(s) <= n
<1>1. ASSUME NEW s \in Seq(S), Len(s) <= n PROVE s \in BoundedSeq(S, n)
  <2>1. Len(s) \in 0 .. n /\ s \in [1 .. Len(s) -> S]
    BY <1>1
  <2> QED
    BY <2>1 DEF BoundedSeq, SeqOf
<1>2. ASSUME NEW s \in BoundedSeq(S, n) PROVE s \in Seq(S) /\ Len(s) <= n
  <2>1. PICK m \in 0 .. n : s \in [1 .. m -> S]
    BY <1>2 DEF BoundedSeq, SeqOf
  <2> QED
    BY <2>1
<1> QED
  BY <1>1, <1>2

LEMMA PieceTokens ==
    /\ TextLen \in Nat
    /\ \A w \in Pieces : w \in Seq(Tokens)
    /\ \A t \in Texts : t \in Seq(Tokens) /\ Len(t) <= TextLen
<1>1. TextLen \in Nat /\ \A w \in Pieces : w \in Seq(STRING)
  BY FramesAssumption
<1>2. ASSUME NEW w \in Pieces PROVE w \in Seq(Tokens)
  <2>1. Len(w) \in Nat /\ w \in [1 .. Len(w) -> STRING]
    BY <1>1
  <2>2. \A i \in 1 .. Len(w) : w[i] \in Tokens
    BY <2>1 DEF Tokens, ToSet
  <2>3. w \in [1 .. Len(w) -> Tokens]
    BY <2>1, <2>2
  <2> QED
    BY <2>1, <2>3
<1>3. \A t \in Texts : t \in BoundedSeq(Tokens, TextLen)
  BY DEF Texts, Tokens
<1> QED
  BY <1>1, <1>2, <1>3, Bounded

LEMMA Joined2 ==
    ASSUME NEW S, NEW s \in Seq(S), NEW t \in Seq(S)
    PROVE  s \o t \in Seq(S) /\ Len(s \o t) = Len(s) + Len(t) /\ Len(s) \in Nat /\ Len(t) \in Nat
OBVIOUS

LEMMA BehindType ==
    ASSUME NEW S, NEW t \in Seq(S), NEW n \in 0 .. Len(t)
    PROVE  Behind(n, t) \in Seq(S) /\ Len(Behind(n, t)) = Len(t) - n
<1>1. Len(t) \in Nat /\ n + 1 \in Int /\ \A i \in n + 1 .. Len(t) : t[i] \in S
  OBVIOUS
<1>2. SubSeq(t, n + 1, Len(t)) \in Seq(S)
      /\ Len(SubSeq(t, n + 1, Len(t))) = IF n + 1 <= Len(t) THEN Len(t) - (n + 1) + 1 ELSE 0
  BY <1>1, SubSeqProperties
<1> QED
  BY <1>1, <1>2 DEF Behind

LEMMA CommonPrefixBound ==
    ASSUME NEW S, NEW s \in Seq(S), NEW t \in Seq(S)
    PROVE  CommonPrefix(s, t) \in 0 .. Len(s) /\ CommonPrefix(s, t) <= Len(t)
<1> DEFINE differ == {n \in 0 .. Len(s) : n <= Len(t) /\ (n < Len(s) /\ n < Len(t) => s[n + 1] # t[n + 1])}
           common(n) == /\ n <= Len(t) /\ \A i \in 1 .. n : s[i] = t[i]
                        /\ n < Len(s) /\ n < Len(t) => s[n + 1] # t[n + 1]
<1>1. Len(s) \in Nat /\ Len(t) \in Nat
  OBVIOUS
<1>2. differ \in SUBSET Nat /\ differ # {}
  <2>1. IF Len(s) <= Len(t) THEN Len(s) \in differ ELSE Len(t) \in differ
    BY <1>1
  <2> QED
    BY <1>1, <2>1
<1>3. PICK n \in differ : \A k \in differ : n <= k
  BY <1>2, NatMin
<1>4. n \in 0 .. Len(s) /\ n <= Len(t) /\ (n < Len(s) /\ n < Len(t) => s[n + 1] # t[n + 1])
  BY <1>3
<1>5. ASSUME NEW i \in 1 .. n PROVE s[i] = t[i]
  <2>1. i - 1 \in 0 .. Len(s) /\ i - 1 < n /\ i - 1 < Len(s) /\ i - 1 < Len(t) /\ (i - 1) + 1 = i
    BY <1>1, <1>4
  <2>2. i - 1 \notin differ
    BY <1>3, <1>4, <2>1
  <2> QED
    BY <1>1, <2>1, <2>2
<1>6. common(n)
  BY <1>4, <1>5
<1>7. CommonPrefix(s, t) = CHOOSE k \in 0 .. Len(s) : common(k)
  BY DEF CommonPrefix
<1>8. \A k : common(k) => k <= Len(t)
  OBVIOUS
<1> HIDE DEF common
<1> QED
  BY <1>4, <1>6, <1>7, <1>8, Zenon

\* A snapshot makes the stream longer than itself only if it was not begun as
\* the stream was.
LEMMA UnseenType ==
    ASSUME NEW S, NEW s \in Seq(S), NEW t \in Seq(S), Len(t) <= TextLen, Len(s) <= TextLen + Len(t), TextLen \in Nat
    PROVE  Unseen(s, t) \in Seq(S) /\ Len(s) + Len(Unseen(s, t)) <= TextLen + Len(t)
<1> DEFINE n == CommonPrefix(s, t)
<1>1. Len(s) \in Nat /\ Len(t) \in Nat /\ n \in 0 .. Len(s) /\ n <= Len(t)
  BY CommonPrefixBound
<1>2. Unseen(s, t) = IF n = Len(s) THEN Behind(n, t)
                     ELSE IF Len(t) <= Len(s) \/ n = 0 THEN <<>> ELSE Behind(n, t)
  BY DEF Unseen
<1> HIDE DEF n
<1>3. Behind(n, t) \in Seq(S) /\ Len(Behind(n, t)) = Len(t) - n
  BY <1>1, BehindType
<1>4. CASE n = Len(s)
  BY <1>1, <1>2, <1>3, <1>4
<1>5. CASE n # Len(s) /\ (Len(t) <= Len(s) \/ n = 0)
  <2> DEFINE none == <<>>
  <2>1. Unseen(s, t) = none
    BY <1>2, <1>5
  <2>2. none \in Seq(S) /\ Len(none) = 0
    OBVIOUS
  <2> HIDE DEF none
  <2> QED
    BY <1>1, <2>1, <2>2
<1>6. CASE n # Len(s) /\ ~(Len(t) <= Len(s) \/ n = 0)
  <2>1. Unseen(s, t) = Behind(n, t)
    BY <1>2, <1>6
  <2> QED
    BY <1>1, <1>3, <1>6, <2>1
<1> QED
  BY <1>4, <1>5, <1>6

LEMMA FramesTypeInit == FramesInit => FramesType
<1> DEFINE none == <<>>
<1>1. none \in Seq(Tokens) /\ Len(none) = 0 /\ TextLen \in Nat
  BY PieceTokens
<1> HIDE DEF none
<1>2. FramesInit => fAnswer = none /\ fStreamed = none /\ fFinal = none
  BY DEF FramesInit, none
<1> QED
  BY <1>1, <1>2 DEF FramesInit, FramesType

\* A frame that forwards a text.
LEMMA ForwardedType ==
    ASSUME FramesType, fAt = "read", NEW text \in Seq(Tokens), NEW notice \in {"none", "limit", "policy"},
           Forwarded(notice, text), fFinal' = fFinal, fAnswer' \in Seq(Tokens), Len(fAnswer') <= TextLen,
           Len(fStreamed) <= TextLen + Len(fAnswer'),
           Len(fStreamed) + Len(text) <= TextLen + Len(fAnswer')
    PROVE  FramesType'
<1>1. \/ Fails(notice) /\ notice # "none" /\ UNCHANGED fStreamed
      \/ Fails("canceled") /\ UNCHANGED fStreamed
      \/ fStreamed' = fStreamed \o text /\ UNCHANGED <<fAt, fConn, fResult, fText>>
  BY Zenon DEF Forwarded
<1>2. fStreamed \o text \in Seq(Tokens) /\ Len(fStreamed \o text) = Len(fStreamed) + Len(text)
  BY Joined2 DEF FramesType
<1> DEFINE longer == fStreamed \o text
<1> HIDE DEF longer
<1>3. \/ fStreamed' = fStreamed /\ fAt' = "over" /\ fConn' = FALSE /\ fResult' \in {"limit", "policy", "canceled"}
      \/ fStreamed' = longer /\ UNCHANGED <<fAt, fConn, fResult, fText>>
  BY <1>1 DEF Fails, longer
<1>4. longer \in Seq(Tokens) /\ Len(longer) = Len(fStreamed) + Len(text)
  BY <1>2 DEF longer
<1> QED
  BY <1>3, <1>4 DEF FramesType

LEMMA NoticeKind == \A s, t : Notice(s, t) \in {"none", "limit", "policy"}
BY DEF Notice

LEMMA AnswerGrowsType == ASSUME FramesType, AnswerGrows PROVE FramesType'
<1>1. PICK w \in Pieces, sent \in {"fragment", "snapshot", "both"} :
        LET fragment == IF sent = "snapshot" THEN <<>> ELSE w
            after == fStreamed \o fragment
            more == IF sent = "fragment" THEN <<>> ELSE Unseen(after, fAnswer')
            notice == Notice(fStreamed, IF fragment # <<>> THEN fragment ELSE more)
        IN  Len(fAnswer \o w) <= TextLen /\ fAnswer' = fAnswer \o w /\ Forwarded(notice, fragment \o more)
  BY Zenon DEF AnswerGrows
<1> DEFINE none == <<>>
           fragment == IF sent = "snapshot" THEN none ELSE w
           after == fStreamed \o fragment
           more == IF sent = "fragment" THEN none ELSE Unseen(after, fAnswer')
           notice == Notice(fStreamed, IF fragment # none THEN fragment ELSE more)
<1>2. Len(fAnswer \o w) <= TextLen /\ fAnswer' = fAnswer \o w /\ Forwarded(notice, fragment \o more)
  BY <1>1
<1>3. w \in Seq(Tokens) /\ none \in Seq(Tokens) /\ Len(none) = 0 /\ TextLen \in Nat
  BY PieceTokens
<1>4. notice \in {"none", "limit", "policy"}
  BY NoticeKind
<1>5. fAt = "read" /\ fFinal' = fFinal /\ fPlain' = fPlain
  BY DEF AnswerGrows
<1> HIDE DEF notice, none
<1>6. /\ fAnswer' \in Seq(Tokens) /\ Len(fAnswer') = Len(fAnswer) + Len(w) /\ Len(fAnswer') <= TextLen
      /\ Len(fAnswer) \in Nat /\ Len(w) \in Nat
  BY <1>2, <1>3, Joined2 DEF FramesType
<1>7. fragment \in Seq(Tokens) /\ Len(fragment) <= Len(w) /\ Len(fragment) \in Nat
  BY <1>3, <1>6
<1> HIDE DEF fragment
<1>8. after \in Seq(Tokens) /\ Len(after) = Len(fStreamed) + Len(fragment) /\ Len(fStreamed) \in Nat
  BY <1>7, Joined2 DEF FramesType
<1> HIDE DEF after
<1>9. Len(after) <= TextLen + Len(fAnswer')
  BY <1>3, <1>6, <1>7, <1>8 DEF FramesType
<1>10. more \in Seq(Tokens) /\ Len(after) + Len(more) <= TextLen + Len(fAnswer') /\ Len(more) \in Nat
  <2>1. CASE sent = "fragment"
    <3>1. more = none
      BY <2>1
    <3> HIDE DEF more
    <3> QED
      BY <1>3, <1>8, <1>9, <3>1
  <2>2. CASE sent # "fragment"
    <3>1. more = Unseen(after, fAnswer')
      BY <2>2
    <3> HIDE DEF more
    <3>2. Unseen(after, fAnswer') \in Seq(Tokens) /\ Len(after) + Len(Unseen(after, fAnswer')) <= TextLen + Len(fAnswer')
      BY <1>3, <1>6, <1>8, <1>9, UnseenType
    <3> QED
      BY <3>1, <3>2
  <2> QED
    BY <2>1, <2>2
<1>11. Len(fStreamed) <= TextLen + Len(fAnswer') /\ Len(fStreamed) + (Len(fragment) + Len(more)) <= TextLen + Len(fAnswer')
  <2> HIDE DEF more
  <2> QED
    BY <1>3, <1>6, <1>7, <1>8, <1>9, <1>10 DEF FramesType
<1> HIDE DEF more
<1> DEFINE text == fragment \o more
<1>12. text \in Seq(Tokens) /\ Len(text) = Len(fragment) + Len(more)
  BY <1>7, <1>10, Joined2
<1>13. Forwarded(notice, text)
  BY <1>2
<1> HIDE DEF text
<1>14. Len(fStreamed) + Len(text) <= TextLen + Len(fAnswer')
  BY <1>11, <1>12
<1> QED
  BY <1>4, <1>5, <1>6, <1>11, <1>12, <1>13, <1>14, ForwardedType

LEMMA RewriteType == ASSUME FramesInv, FramesType, Rewrite PROVE FramesType'
<1> DEFINE text == Unseen(fStreamed, fAnswer')
           notice == Notice(fStreamed, fAnswer')
<1>1. fAnswer' \in Texts /\ Forwarded(notice, text) /\ fAt = "read" /\ fFinal' = fFinal /\ fPlain
  BY DEF Rewrite
<1>2. notice \in {"none", "limit", "policy"}
  BY NoticeKind
<1>3. fAnswer' \in Seq(Tokens) /\ Len(fAnswer') <= TextLen /\ TextLen \in Nat
  BY <1>1, PieceTokens
<1>4. Len(fStreamed) <= Len(fAnswer)
  BY <1>1, PrefixElements DEF FramesInv
<1>5. Len(fStreamed) <= TextLen + Len(fAnswer') /\ fStreamed \in Seq(Tokens)
  <2>1. Len(fStreamed) \in Nat /\ Len(fAnswer) \in Nat /\ Len(fAnswer') \in Nat /\ Len(fAnswer) <= TextLen /\ fStreamed \in Seq(Tokens)
    BY <1>3 DEF FramesType
  <2> QED
    BY <1>3, <1>4, <2>1
<1>6. text \in Seq(Tokens) /\ Len(fStreamed) + Len(text) <= TextLen + Len(fAnswer')
  BY <1>3, <1>5, UnseenType
<1> HIDE DEF text, notice
<1> QED
  BY <1>1, <1>2, <1>3, <1>5, <1>6, ForwardedType

LEMMA ResultFrameType == ASSUME FramesType, ResultFrame PROVE FramesType'
<1>1. fAt = "read" /\ UNCHANGED <<fPlain, fStreamed>>
  BY DEF ResultFrame
<1>2. CASE \E error \in {"limit", "upstream"} : Fails(error) /\ UNCHANGED <<fAnswer, fFinal>>
  BY <1>1, <1>2 DEF Fails, FramesType
<1>3. CASE /\ \E w \in Pieces \cup {<<>>} :
                /\ Len(fAnswer \o w) \in 1 .. TextLen
                /\ fAnswer' = fAnswer \o w /\ fFinal' = fAnswer'
           /\ LET notice == IF Begins(fFinal', "policy") THEN "policy" ELSE Notice(fStreamed, fFinal')
              IN IF notice # "none" THEN Fails(notice) ELSE UNCHANGED <<fAt, fConn, fResult, fText>>
  <2>1. PICK w \in Pieces \cup {<<>>} : Len(fAnswer \o w) \in 1 .. TextLen /\ fAnswer' = fAnswer \o w /\ fFinal' = fAnswer'
    BY <1>3
  <2>2. w \in Seq(Tokens)
    <3>1. CASE w = <<>>
      BY <3>1
    <3>2. CASE w \in Pieces
      BY <3>2, PieceTokens
    <3> QED
      BY <3>1, <3>2
  <2>3. fAnswer' \in Seq(Tokens) /\ Len(fAnswer') = Len(fAnswer) + Len(w) /\ Len(fAnswer) \in Nat /\ Len(w) \in Nat
    BY <2>1, <2>2, Joined2 DEF FramesType
  <2>4. Len(fAnswer') <= TextLen /\ TextLen \in Nat
    BY <2>1, PieceTokens
  <2>5. Len(fStreamed') <= TextLen + Len(fAnswer')
    <3>1. Len(fStreamed) \in Nat /\ Len(fStreamed) <= TextLen + Len(fAnswer) /\ fStreamed' = fStreamed
      BY <1>1 DEF FramesType
    <3> QED
      BY <2>3, <2>4, <3>1
  <2>6. \/ fAt' = "over" /\ fConn' = FALSE /\ fResult' \in {"limit", "policy"}
        \/ UNCHANGED <<fAt, fConn, fResult, fText>>
    BY <1>3, NoticeKind DEF Fails
  <2> QED
    BY <1>1, <2>1, <2>3, <2>4, <2>5, <2>6 DEF FramesType
<1> QED
  BY <1>2, <1>3 DEF ResultFrame

LEMMA MissingTailType ==
    ASSUME FramesType
    PROVE  /\ fStreamed \o MissingTail \in Seq(Tokens)
           /\ Len(fStreamed \o MissingTail) <= TextLen + Len(fAnswer)
<1>1. /\ fStreamed \in Seq(Tokens) /\ fFinal \in Seq(Tokens) /\ Len(fFinal) <= TextLen /\ TextLen \in Nat
      /\ Len(fStreamed) \in Nat /\ Len(fFinal) \in Nat /\ Len(fAnswer) \in Nat
      /\ Len(fStreamed) <= TextLen + Len(fAnswer)
  BY PieceTokens DEF FramesType
<1>2. CASE IsPrefix(fStreamed, fFinal)
  <2>1. Len(fStreamed) \in 0 .. Len(fFinal)
    BY <1>1, <1>2 DEF IsPrefix
  <2>2. MissingTail \in Seq(Tokens) /\ Len(MissingTail) = Len(fFinal) - Len(fStreamed)
    BY <1>1, <1>2, <2>1, BehindType DEF MissingTail
  <2> DEFINE tail == MissingTail
             whole == fStreamed \o tail
  <2> HIDE DEF tail
  <2>3. whole \in Seq(Tokens) /\ Len(whole) = Len(fStreamed) + Len(tail)
    BY <1>1, <2>2, Joined2 DEF tail
  <2> HIDE DEF whole
  <2>4. Len(whole) = Len(fFinal)
    BY <1>1, <2>2, <2>3 DEF tail
  <2>5. Len(whole) <= TextLen + Len(fAnswer)
    BY <1>1, <2>4
  <2> QED
    BY <2>3, <2>5 DEF tail, whole
<1>3. CASE ~IsPrefix(fStreamed, fFinal)
  <2>1. MissingTail = <<>>
    BY <1>3 DEF MissingTail
  <2>2. fStreamed \o <<>> = fStreamed
    BY <1>1
  <2> QED
    BY <1>1, <2>1, <2>2
<1> QED
  BY <1>2, <1>3

LEMMA CompletionType == ASSUME FramesType, Completion PROVE FramesType'
<1>1. fAt = "read" /\ UNCHANGED <<fPlain, fAnswer, fFinal>>
  BY DEF Completion
<1> DEFINE whole == fStreamed \o MissingTail
<1>2. whole \in Seq(Tokens) /\ Len(whole) <= TextLen + Len(fAnswer)
  BY MissingTailType
<1>3. /\ fStreamed' \in {fStreamed, whole}
      /\ \/ \E error \in {"limit", "upstream", "canceled", "empty", "policy"} : Fails(error)
         \/ fAt' = "over" /\ fConn' = FALSE /\ fResult' = "ok"
  BY Zenon DEF Completion
<1> HIDE DEF whole
<1>4. fAt' = "over" /\ fConn' = FALSE /\ fResult' # "none"
  BY <1>3 DEF Fails
<1> QED
  BY <1>1, <1>2, <1>3, <1>4 DEF FramesType

LEMMA FramesTypeNext == FramesInv /\ FramesType /\ [FramesNext]_frameVars => FramesType'
<1> SUFFICES ASSUME FramesInv, FramesType, [FramesNext]_frameVars PROVE FramesType'
  OBVIOUS
<1>1. CASE Dial
  BY <1>1 DEF Dial, Fails, FramesType
<1>2. CASE Upload
  BY <1>2 DEF Upload, Fails, FramesType
<1>3. CASE Handshake
  BY <1>3 DEF Handshake, Fails, FramesType
<1>4. CASE SendPayload
  BY <1>4 DEF SendPayload, Fails, FramesType
<1>5. CASE OtherFrame
  BY <1>5 DEF OtherFrame, Fails, FramesType
<1>6. CASE ReadFails
  BY <1>6 DEF ReadFails, Fails, FramesType
<1>7. CASE CallerGone
  BY <1>7 DEF CallerGone, FramesType
<1>8. CASE SeeGone
  BY <1>8 DEF SeeGone, Fails, FramesType
<1>9. CASE UNCHANGED frameVars
  BY <1>9 DEF frameVars, FramesType
<1> QED
  BY <1>1, <1>2, <1>3, <1>4, <1>5, <1>6, <1>7, <1>8, <1>9, AnswerGrowsType, RewriteType, ResultFrameType,
     CompletionType DEF FramesNext

LEMMA FramesTyped == FramesType => FramesTypeOK
<1> SUFFICES ASSUME FramesType PROVE FramesTypeOK
  OBVIOUS
<1>1. Len(fStreamed) <= 2 * TextLen /\ 2 * TextLen \in Nat
  <2>1. /\ Len(fStreamed) \in Nat /\ Len(fAnswer) \in Nat /\ TextLen \in Nat
        /\ Len(fStreamed) <= TextLen + Len(fAnswer) /\ Len(fAnswer) <= TextLen
    BY PieceTokens DEF FramesType
  <2> QED
    BY <2>1
<1>2. fStreamed \in BoundedSeq(Tokens, 2 * TextLen)
  BY <1>1, Bounded DEF FramesType
<1> QED
  BY <1>2 DEF FramesType, FramesTypeOK, Tokens

-----------------------------------------------------------------------------
(* LogKit keeps its type: of the archives no more stay than are kept.        *)

LogType ==
    /\ LogTypeOK
    /\ lgNow \in Nat /\ lgBackups \in SUBSET Nat /\ IsFiniteSet(lgBackups)

\* The least of the n largest has all the others of them above it.
LEMMA LargestFew ==
    ASSUME NEW n \in Nat, NEW set \in SUBSET Nat, IsFiniteSet(set)
    PROVE  /\ Largest(n, set) \in SUBSET Nat /\ IsFiniteSet(Largest(n, set))
           /\ Cardinality(Largest(n, set)) <= n
<1> DEFINE few == Largest(n, set)
<1>1. few \subseteq set /\ IsFiniteSet(few)
  <2>1. few \subseteq set
    BY DEF Largest
  <2> QED
    BY <2>1, FS_Subset
<1>2. CASE few = {}
  BY <1>1, <1>2, FS_EmptySet
<1>3. CASE few # {}
  <2>1. PICK least \in few : \A k \in few : least <= k
    BY <1>1, <1>3, NatMin
  <2> DEFINE above == {t \in set : t > least}
  <2>2. Cardinality(above) < n
    BY <2>1 DEF Largest
  <2>3. IsFiniteSet(above) /\ Cardinality(above) \in Nat
    <3>1. above \subseteq set
      OBVIOUS
    <3> QED
      BY <3>1, FS_Subset, FS_CardinalityType
  <2>4. few \ {least} \subseteq above
    <3>1. ASSUME NEW k \in few, k # least PROVE k > least /\ k \in set
      <4>1. k \in Nat /\ least \in Nat /\ least <= k
        BY <1>1, <2>1
      <4> QED
        BY <1>1, <3>1, <4>1
    <3> QED
      BY <3>1
  <2>5. Cardinality(few \ {least}) <= Cardinality(above)
    BY <2>3, <2>4, FS_Subset
  <2>6. Cardinality(few \ {least}) = Cardinality(few) - 1 /\ Cardinality(few) \in Nat
    BY <1>1, <2>1, FS_RemoveElement, FS_CardinalityType
  <2>7. Cardinality(few \ {least}) \in Nat
    BY <1>1, FS_RemoveElement, FS_CardinalityType
  <2> HIDE DEF few, above
  <2>8. Cardinality(few) <= n
    BY <2>2, <2>3, <2>5, <2>6
  <2> QED
    BY <1>1, <2>8 DEF few
<1> QED
  BY <1>2, <1>3

LEMMA EmittedType ==
    ASSUME LogType, NEW n \in 0 .. 3, Emitted(n)
    PROVE  /\ lgFile' \in -1 .. MaxFileSize
           /\ lgBackups' \in SUBSET Nat /\ IsFiniteSet(lgBackups')
           /\ Cardinality(lgBackups') <= MaxBackups + One(lgFile' = -1)
<1>1. /\ lgFile \in -1 .. MaxFileSize /\ lgNow \in Nat /\ lgBackups \in SUBSET Nat /\ IsFiniteSet(lgBackups)
      /\ Cardinality(lgBackups) <= MaxBackups + One(lgFile = -1) /\ Cardinality(lgBackups) \in Nat
      /\ MaxFileSize \in Nat /\ MaxFileSize >= 3 /\ MaxBackups \in Nat
  BY LogAssumption, FS_CardinalityType DEF LogType, LogTypeOK
<1> DEFINE archives == lgBackups \cup {lgNow}
<1>2. archives \in SUBSET Nat /\ IsFiniteSet(archives)
  BY <1>1, FS_AddElement
<1>3. Cardinality(archives) <= Cardinality(lgBackups) + 1 /\ Cardinality(archives) \in Nat
  BY <1>1, <1>2, FS_AddElement, FS_CardinalityType
<1> HIDE DEF archives
<1>4. CASE UNCHANGED <<lgFile, lgBackups>>
  BY <1>1, <1>4
<1>5. CASE lgFile # -1 /\ lgFile + n <= MaxFileSize /\ lgFile' = lgFile + n /\ UNCHANGED lgBackups
  <2>1. lgFile' \in -1 .. MaxFileSize /\ lgFile' # -1
    BY <1>1, <1>5
  <2> QED
    BY <1>1, <1>5, <2>1 DEF One
<1>6. CASE lgFile # -1 /\ lgFile + n > MaxFileSize /\ lgFile' = lgFile + n - MaxFileSize /\ lgBackups' = Largest(MaxBackups, archives)
  <2>1. lgFile' \in 0 .. MaxFileSize
    BY <1>1, <1>6
  <2>2. lgBackups' \in SUBSET Nat /\ IsFiniteSet(lgBackups') /\ Cardinality(lgBackups') <= MaxBackups
    BY <1>1, <1>2, <1>6, LargestFew
  <2> QED
    BY <1>1, <2>1, <2>2 DEF One
<1>7. CASE lgFile # -1 /\ lgFile' = -1 /\ lgBackups' = archives
  <2>1. Cardinality(lgBackups) <= MaxBackups
    BY <1>1, <1>7 DEF One
  <2>2. Cardinality(lgBackups') <= MaxBackups + 1
    BY <1>1, <1>3, <1>7, <2>1
  <2> QED
    BY <1>1, <1>2, <1>7, <2>2 DEF One
<1> QED
  BY <1>4, <1>5, <1>6, <1>7 DEF Emitted, archives

LEMMA LogTypeInit == LogInit => LogType
<1> SUFFICES ASSUME LogInit PROVE LogType
  OBVIOUS
<1>1. Cardinality({}) = 0 /\ IsFiniteSet({})
  BY FS_EmptySet
<1> QED
  BY <1>1, LogAssumption DEF LogInit, LogType, LogTypeOK, One

LEMMA LogTypeNext == LogInv /\ LogType /\ [LogNext]_logVars => LogType'
<1> SUFFICES ASSUME LogInv, LogType, [LogNext]_logVars PROVE LogType'
  OBVIOUS
<1>1. CASE LogTick
  BY <1>1 DEF LogTick, LogType, LogTypeOK, One
<1>2. CASE TimerFires
  BY <1>2 DEF TimerFires, LogType, LogTypeOK, One
<1>3. CASE TimerReports
  <2>1. One(Folded > 0) \in 0 .. 3 /\ Emitted(One(Folded > 0)) /\ lgMsg' = NoLine /\ lgCount' = 0 /\ lgNow' = lgNow
    BY <1>3 DEF TimerReports, One
  <2> QED
    BY <2>1, EmittedType DEF LogType, LogTypeOK
<1>4. ASSUME NEW m \in Lines, Repeat(m) PROVE LogType'
  BY <1>4, LogAssumption DEF Repeat, LogType, LogTypeOK, LogInv, LogCounts, LastCounted, One
<1>5. ASSUME NEW m \in Lines, WriteLine(m) PROVE LogType'
  <2> DEFINE n == One(Folded > 0) + One(Reported > 0) + One(~(SecCount > FloodPerSec))
  <2>1. n \in 0 .. 3
    BY DEF One
  <2>2. Emitted(n) /\ lgMsg' = m /\ lgCount' = 1 /\ lgNow' = lgNow
    BY <1>5 DEF WriteLine
  <2> HIDE DEF n
  <2> QED
    BY <2>1, <2>2, EmittedType, LogAssumption DEF LogType, LogTypeOK
<1>6. CASE UNCHANGED logVars
  BY <1>6 DEF logVars, LogType, LogTypeOK, One
<1> QED
  BY <1>1, <1>2, <1>3, <1>4, <1>5, <1>6 DEF LogNext

-----------------------------------------------------------------------------
(* The whole: each part keeps its invariant, the others rest.                *)

LEMMA HeldFits ==
    ASSUME DeliveryInv, DeliveryInv', Len(dHeld) <= HoldMax, [DeliveryNext]_deliveryVars
    PROVE  Len(dHeld') <= HoldMax
<1>1. HoldMax \in Nat /\ Len(<<>>) = 0
  BY DeliveryAssumption
<1>2. dHeld' = <<>> \/ dHeld' \in Seq(Event)
  <2>1. CASE dAt' = "hold"
    <3>1. PICK last \in Nat : InOrder(last)'
      BY <2>1 DEF DeliveryInv
    <3>2. Run(dHeld, dTry, last)'
      BY <3>1 DEF InOrder
    <3> QED
      BY <3>2 DEF Run
  <2>2. CASE dAt' # "hold"
    BY <2>2 DEF DeliveryInv, DeliveryShape
  <2> QED
    BY <2>1, <2>2
<1>3. dHeld' = <<>> \/ dHeld' = dHeld \/ Len(dHeld') < HoldMax
  BY Zenon DEF DeliveryNext, DeliverWhole, DeliverStream, Cut, HoldRead, HoldCut, Held, PassRead, StallKill,
     PassEnds, Resume, HangUpClient, Abandon, DeliverNext, deliveryVars
<1>4. CASE Len(dHeld') < HoldMax /\ dHeld' \in Seq(Event)
  BY <1>1, <1>4
<1> QED
  BY <1>1, <1>2, <1>3, <1>4

AnswersInv ==
    /\ HistoryInv /\ CatalogInv /\ MirrorTypeOK /\ CacheInv
    /\ DeliveryInv /\ Len(dHeld) <= HoldMax
    /\ FramesInv /\ FramesType
    /\ LogInv /\ LogType

LEMMA AnswersInitInv == AnswersInit => AnswersInv
<1> SUFFICES ASSUME AnswersInit PROVE AnswersInv
  OBVIOUS
<1>1. HistoryInv
  <2>1. CASE HistoryInit
    BY <2>1, HistoryInitInv
  <2>2. CASE hMsgs = <<>> /\ hAt = "arrived" /\ hChanged = FALSE
    BY <2>2 DEF HistoryInv, RolesAlternate
  <2> QED
    BY <2>1, <2>2 DEF AnswersInit
<1>2. Len(dHeld) <= HoldMax
  BY DeliveryAssumption DEF AnswersInit, DeliveryInit
<1> QED
  BY <1>1, <1>2, CatalogInitInv, MirrorInitType, CacheInitInv, DeliveryInitInv, FramesInitInv, FramesTypeInit,
     LogInitInv, LogTypeInit DEF AnswersInit, AnswersInv

LEMMA AnswersParts ==
    [AnswersNext]_AnswersVars =>
        /\ [HistoryNext]_historyVars /\ [CatalogNext]_catalogVars /\ [MirrorNext]_mirrorVars
        /\ [DeliveryNext]_deliveryVars /\ [AbsorbCacheNext]_absorbCacheVars
        /\ [FramesNext]_frameVars /\ [LogNext]_logVars
BY DEF AnswersNext, AnswersVars

LEMMA AnswersNextInv == AnswersInv /\ [AnswersNext]_AnswersVars => AnswersInv'
<1> SUFFICES ASSUME AnswersInv, [AnswersNext]_AnswersVars PROVE AnswersInv'
  OBVIOUS
<1>1. HistoryInv' /\ CatalogInv' /\ MirrorTypeOK' /\ CacheInv' /\ DeliveryInv'
  BY AnswersParts, HistoryNextInv, CatalogNextInv, MirrorNextType, CacheNextInv, DeliveryNextInv DEF AnswersInv
<1>2. Len(dHeld') <= HoldMax
  BY <1>1, AnswersParts, HeldFits DEF AnswersInv
<1>3. FramesInv' /\ FramesType' /\ LogInv' /\ LogType'
  BY AnswersParts, FramesNextInv, FramesTypeNext, LogNextInv, LogTypeNext DEF AnswersInv
<1> QED
  BY <1>1, <1>2, <1>3 DEF AnswersInv

\* Each component between a client and its answer keeps its type, whichever of
\* them runs and for any instance: no index leaves its list, no counter, buffer or
\* number of archives its bound.
THEOREM AnswersTyped == AnswersSpec => []AnswersTypeOK
<1>1. HistoryInv => HistoryTypeOK
  BY DEF HistoryInv, HistoryTypeOK, HMessage, Roles
<1>2. DeliveryInv /\ Len(dHeld) <= HoldMax => DeliveryTypeOK
  BY DEF DeliveryInv, DeliveryShape, DeliveryTypeOK
<1>3. AnswersInv => AnswersTypeOK
  BY <1>1, <1>2, CatalogInvProps, FramesTyped DEF AnswersInv, AnswersTypeOK, CacheInv, LogType
<1> QED
  BY AnswersInitInv, AnswersNextInv, <1>3, PTL DEF AnswersSpec
=============================================================================
