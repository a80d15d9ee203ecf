--------------------------- MODULE Session_proofs ---------------------------
(***************************************************************************)
(* Proofs about two components that the host composes around a session:    *)
(* AskUserRemoteTool, and ConversationWorkspace.  They share no variable.  *)
(***************************************************************************)
EXTENDS AskUserRemoteTool, ConversationWorkspace, SequenceTheorems, WellFoundedInduction, TLAPS

-----------------------------------------------------------------------------
(* The tool that asks the user.  CardsTellTheTruth is not inductive: what  *)
(* the server is told of an answer is decided when the answer is already   *)
(* on its way, so the invariant has to say what holds between the card     *)
(* that shows an answer and the client that has not heard of it.           *)

\* A card is shown of a call that is resolved, and of no other.
ShownOnceResolved ==
    /\ \A r \in Requests : asked[r] \in {"idle", "resolving"} => card[r] = "none"
    /\ \A i \in 1..Len(cards) : card[cards[i]] # "none"

\* A handler returns an answer only if the card shows one.
AnswerReturned == \A r \in Requests : value[r] = "ok" => card[r] = "answered"

\* An answer the client has not heard of is on its way to it.
AnswerOnItsWay ==
    \A r \in Requests : card[r] = "answered" /\ told[r] = "none" =>
        /\ asked[r] = "returned" /\ value[r] = "ok"
        /\ r \in late => r \in overtaken

AskInv == AskTypeOK /\ CardsTellTheTruth /\ ShownOnceResolved /\ AnswerReturned /\ AnswerOnItsWay

-----------------------------------------------------------------------------

\* A set of naturals that is not empty has the least element Min names.
LEMMA MinOfNaturals ==
    ASSUME NEW I \in SUBSET Nat, I # {}
    PROVE  Min(I) \in I /\ \A j \in I : Min(I) <= j
<1> DEFINE R == OpToRel(<, Nat)
<1>1. IsWellFoundedOn(R, Nat)
    BY NatLessThanWellFounded
<1>2. \A x, y \in Nat : x < y => <<x, y>> \in R
    BY DEF OpToRel
<1> HIDE DEF R
<1>3. PICK x \in I : \A y \in I : ~ (<<y, x>> \in R)
    BY <1>1, WFMin
<1>4. ASSUME NEW y \in I PROVE x <= y
  <2>1. ~ (<<y, x>> \in R)
      BY <1>3
  <2>2. x \in Nat /\ y \in Nat
      OBVIOUS
  <2>3. ~ (y < x)
      BY <1>2, <2>1, <2>2
  <2> QED
      BY <2>2, <2>3
<1> QED
    BY <1>4 DEF Min

\* Range, by the positions of a sequence.
LEMMA RangeOfCards ==
    ASSUME NEW s \in Seq(Requests)
    PROVE  \A r : r \in Range(s) <=> \E i \in 1..Len(s) : s[i] = r
    BY RangeEquality

\* Removing one position of a sequence keeps the others, in order.
LEMMA RemoveAtProperties ==
    ASSUME NEW s \in Seq(Requests), NEW n \in 1..Len(s)
    PROVE  /\ RemoveAt(s, n) \in Seq(Requests)
           /\ Len(RemoveAt(s, n)) = Len(s) - 1
           /\ \A i \in 1..Len(s) - 1 : RemoveAt(s, n)[i] = s[IF i < n THEN i ELSE i + 1]
<1> DEFINE front == SubSeq(s, 1, n - 1)
           back == SubSeq(s, n + 1, Len(s))
<1>1. Len(s) \in Nat /\ n \in Nat /\ n >= 1 /\ n <= Len(s)
    OBVIOUS
<1>2. /\ front \in Seq(Requests) /\ Len(front) = n - 1
      /\ \A i \in 1..n - 1 : front[i] = s[i]
  <2>1. n - 1 \in Int /\ \A i \in 1..n - 1 : s[i] \in Requests
      BY <1>1
  <2>2. /\ front \in Seq(Requests)
        /\ Len(front) = IF 1 <= n - 1 THEN n - 1 - 1 + 1 ELSE 0
        /\ \A i \in 1..n - 1 - 1 + 1 : front[i] = s[1 + i - 1]
      BY <2>1, SubSeqProperties
  <2> QED
      BY <1>1, <2>2
<1>3. /\ back \in Seq(Requests) /\ Len(back) = Len(s) - n
      /\ \A i \in 1..Len(s) - n : back[i] = s[n + i]
  <2>1. n + 1 \in Int /\ Len(s) \in Int /\ \A i \in n + 1..Len(s) : s[i] \in Requests
      BY <1>1
  <2>2. /\ back \in Seq(Requests)
        /\ Len(back) = IF n + 1 <= Len(s) THEN Len(s) - (n + 1) + 1 ELSE 0
        /\ \A i \in 1..Len(s) - (n + 1) + 1 : back[i] = s[n + 1 + i - 1]
      BY <2>1, SubSeqProperties
  <2> QED
      BY <1>1, <2>2
<1> HIDE DEF front, back
<1>4. /\ front \o back \in Seq(Requests)
      /\ Len(front \o back) = Len(front) + Len(back)
      /\ \A i \in 1..Len(front) + Len(back) :
            (front \o back)[i] = IF i <= Len(front) THEN front[i] ELSE back[i - Len(front)]
    BY <1>2, <1>3, ConcatProperties
<1>5. RemoveAt(s, n) = front \o back
    BY DEF RemoveAt, front, back
<1>6. /\ RemoveAt(s, n) \in Seq(Requests)
      /\ Len(RemoveAt(s, n)) = Len(s) - 1
  <2>1. Len(front) + Len(back) = Len(s) - 1
      BY <1>1, <1>2, <1>3
  <2> QED
      BY <1>4, <1>5, <2>1
<1>7. ASSUME NEW i \in 1..Len(s) - 1, i < n
      PROVE  RemoveAt(s, n)[i] = s[i]
    BY <1>1, <1>2, <1>3, <1>4, <1>5, <1>7
<1>8. ASSUME NEW i \in 1..Len(s) - 1, ~(i < n)
      PROVE  RemoveAt(s, n)[i] = s[i + 1]
  <2>1. (front \o back)[i] = back[i - (n - 1)]
      BY <1>1, <1>2, <1>3, <1>4, <1>8
  <2>2. i - (n - 1) \in 1..Len(s) - n /\ n + (i - (n - 1)) = i + 1
      BY <1>1, <1>8
  <2> QED
      BY <1>3, <1>5, <2>1, <2>2
<1> QED
    BY <1>6, <1>7, <1>8

\* A card gives way to a new one only if it is settled.
LEMMA RoomIsMade ==
    ASSUME AskTypeOK, Replaceable # {}
    PROVE  /\ Removed \in Seq(Requests) /\ Len(Removed) = Len(cards) - 1 /\ IsInjective(Removed)
           /\ \A i \in 1..Len(Removed) : Removed[i] \in Range(cards)
           /\ \A r \in Range(cards) : Open(r) => r \in Range(Removed)
<1> DEFINE I == {i \in 1..Len(cards) : cards[i] \in Replaceable}
           n == SelectInSeq(cards, LAMBDA r : r \in Replaceable)
<1>1. cards \in Seq(Requests) /\ Len(cards) \in Nat
    BY DEF AskTypeOK
<1>2. I # {} /\ I \in SUBSET Nat
    BY <1>1, RangeOfCards DEF Replaceable
<1>3. n \in I
    BY <1>2, MinOfNaturals DEF SelectInSeq
<1>4. Removed = RemoveAt(cards, n)
    BY DEF Removed
<1>5. n \in 1..Len(cards) /\ ~Open(cards[n])
    BY <1>3 DEF Replaceable
<1> HIDE DEF n, I
<1>6. /\ Removed \in Seq(Requests) /\ Len(Removed) = Len(cards) - 1
      /\ \A i \in 1..Len(cards) - 1 : Removed[i] = cards[IF i < n THEN i ELSE i + 1]
    BY <1>1, <1>4, <1>5, RemoveAtProperties
<1>7. IsInjective(Removed)
  <2> SUFFICES ASSUME NEW a \in 1..Len(Removed), NEW b \in 1..Len(Removed), Removed[a] = Removed[b]
               PROVE  a = b
      BY <1>6, LenProperties DEF IsInjective
  <2> DEFINE up(i) == IF i < n THEN i ELSE i + 1
  <2>1. up(a) \in 1..Len(cards) /\ up(b) \in 1..Len(cards) /\ cards[up(a)] = cards[up(b)]
      BY <1>1, <1>5, <1>6
  <2>2. up(a) = up(b)
      BY <2>1, <1>1, LenProperties DEF AskTypeOK, IsInjective
  <2> QED
      BY <2>2, <1>1, <1>5, <1>6
<1>8. \A i \in 1..Len(Removed) : Removed[i] \in Range(cards)
    BY <1>1, <1>5, <1>6, RangeOfCards
<1>9. ASSUME NEW r \in Range(cards), Open(r)
      PROVE  r \in Range(Removed)
  <2>1. PICK i \in 1..Len(cards) : cards[i] = r
      BY <1>1, RangeOfCards
  <2>2. i # n
      BY <2>1, <1>5, <1>9
  <2> DEFINE down == IF i < n THEN i ELSE i - 1
  <2>3. down \in 1..Len(Removed) /\ Removed[down] = r
      BY <2>1, <2>2, <1>1, <1>5, <1>6
  <2> QED
      BY <2>3, <1>6, RangeOfCards
<1> QED
    BY <1>6, <1>7, <1>8, <1>9

-----------------------------------------------------------------------------

\* The parts of the invariant that say how far the calls and their cards are,
\* without the display.
AskCallsTyped ==
    /\ card \in [Requests -> {"none", "open", "drafted", "answered", "timeout", "cancelled"}]
    /\ asked \in [Requests -> {"idle", "resolving", "waiting", "returned", "over"}]
    /\ value \in [Requests -> {"none", "ok"} \cup Reasons]
    /\ late \subseteq Requests /\ overtaken \subseteq Requests
    /\ told \in [Requests -> {"none", "ok"} \cup Reasons]

\* A step that leaves the display alone and every card on it a card keeps it.
LEMMA DisplayKept ==
    ASSUME AskInv, AskCallsTyped', UNCHANGED <<toolDisposed, cards>>,
           \A r \in Requests : card[r] # "none" => card'[r] # "none",
           \A r \in Requests : asked'[r] = "waiting" => asked[r] = "waiting" /\ Open(r)',
           \A r \in Requests : asked'[r] \in {"idle", "resolving"} =>
                                  asked[r] \in {"idle", "resolving"} /\ card'[r] = card[r]
    PROVE  AskTypeOK' /\ WaitingIsShown' /\ ShownOnceResolved'
<1> USE DEF AskInv, AskTypeOK, CardsTellTheTruth
<1>1. AskTypeOK'
    BY DEF AskCallsTyped
<1>2. WaitingIsShown'
    BY DEF WaitingIsShown
<1>3. ShownOnceResolved'
    BY DEF ShownOnceResolved
<1> QED
    BY <1>1, <1>2, <1>3

\* A call is executed.
LEMMA ExecuteKeeps ==
    ASSUME AskInv, NEW r \in Requests, Execute(r)
    PROVE  AskInv'
<1> USE DEF AskInv, CardsTellTheTruth, Execute, Returns
<1>1. AskCallsTyped'
    BY DEF AskTypeOK, AskCallsTyped, Reasons
<1>2. AskTypeOK' /\ WaitingIsShown' /\ ShownOnceResolved'
    BY <1>1, DisplayKept DEF AskTypeOK, WaitingIsShown, Open
<1>3. CardAgrees'
    BY DEF CardAgrees
<1>4. AnswerReturned' /\ AnswerOnItsWay'
    BY DEF AskTypeOK, AnswerReturned, AnswerOnItsWay
<1> QED
    BY <1>2, <1>3, <1>4

\* The user edits the draft of a card.
LEMMA DraftKeeps ==
    ASSUME AskInv, NEW r \in Requests, SetAnswerDraft(r)
    PROVE  AskInv'
<1> USE DEF AskInv, CardsTellTheTruth, SetAnswerDraft, Answerable, Open
<1>1. AskCallsTyped'
    BY DEF AskTypeOK, AskCallsTyped
<1>2. AskTypeOK' /\ WaitingIsShown' /\ ShownOnceResolved'
    BY <1>1, DisplayKept DEF AskTypeOK, WaitingIsShown
<1>3. CardAgrees'
    BY DEF AskTypeOK, CardAgrees
<1>4. AnswerReturned' /\ AnswerOnItsWay'
    BY DEF AskTypeOK, AnswerReturned, AnswerOnItsWay
<1> QED
    BY <1>2, <1>3, <1>4

\* The client goes on with a handler that returned.
LEMMA CollectKeeps ==
    ASSUME AskInv, NEW r \in Requests, Collect(r)
    PROVE  AskInv'
<1> USE DEF AskInv, CardsTellTheTruth, Collect, Pending, Outcome
<1>1. AskCallsTyped'
    BY DEF AskTypeOK, AskCallsTyped, Reasons
<1>2. AskTypeOK' /\ WaitingIsShown' /\ ShownOnceResolved'
    BY <1>1, DisplayKept DEF AskTypeOK, WaitingIsShown, Open
<1>3. CardAgrees'
    BY DEF AskTypeOK, CardAgrees, AnswerReturned, AnswerOnItsWay
<1>4. AnswerReturned' /\ AnswerOnItsWay'
    BY DEF AskTypeOK, AnswerReturned, AnswerOnItsWay
<1> QED
    BY <1>2, <1>3, <1>4

\* The time of a call is over.
LEMMA LateKeeps ==
    ASSUME AskInv, NEW r \in Requests, BecomesLate(r)
    PROVE  AskInv'
<1> USE DEF AskInv, CardsTellTheTruth, BecomesLate
<1>1. AskCallsTyped'
    BY DEF AskTypeOK, AskCallsTyped
<1>2. AskTypeOK' /\ WaitingIsShown' /\ ShownOnceResolved'
    BY <1>1, DisplayKept DEF AskTypeOK, WaitingIsShown, Open
<1>3. CardAgrees'
    BY DEF AskTypeOK, CardAgrees
<1>4. AnswerReturned' /\ AnswerOnItsWay'
    BY DEF AskTypeOK, AnswerReturned, AnswerOnItsWay
<1> QED
    BY <1>2, <1>3, <1>4

\* The user submits or cancels a card.
LEMMA AnswerKeeps ==
    ASSUME AskInv, NEW r \in Requests, NEW action \in {"submit", "cancel"}, AnswerCard(r, action)
    PROVE  AskInv'
<1> USE DEF AskInv, CardsTellTheTruth, AnswerCard, Answerable, Settle, Returns, Pending
<1> DEFINE v == Verdict(r, action)
<1>1. /\ v \in {"ok", "timeout", "cancelled"}
      /\ v = "ok" => r \notin late
      /\ Terminal(v) \in {"answered", "timeout", "cancelled"}
      /\ Terminal(v) = "answered" <=> v = "ok"
    BY DEF Verdict, Terminal
<1> HIDE DEF v
<1>2. /\ card' = [card EXCEPT ![r] = Terminal(v)]
      /\ asked' = [asked EXCEPT ![r] = "returned"]
      /\ value' = [value EXCEPT ![r] = v]
    BY DEF v
<1>3. AskCallsTyped'
    BY <1>1, <1>2 DEF AskTypeOK, AskCallsTyped, Reasons
<1>4. AskTypeOK' /\ WaitingIsShown' /\ ShownOnceResolved'
    BY <1>1, <1>2, <1>3, DisplayKept DEF AskTypeOK, WaitingIsShown, Open
<1>5. CardAgrees'
    BY <1>1, <1>2 DEF AskTypeOK, CardAgrees
<1>6. AnswerReturned' /\ AnswerOnItsWay'
    BY <1>1, <1>2 DEF AskTypeOK, AnswerReturned, AnswerOnItsWay
<1> QED
    BY <1>4, <1>5, <1>6

\* The client settles a call for a reason of its own.
LEMMA AbortKeeps ==
    ASSUME AskInv, NEW r \in Requests, NEW reason \in {"timeout", "cancelled"}, Abort(r, reason)
    PROVE  AskInv'
<1> USE DEF AskInv, CardsTellTheTruth, Abort, Settle, Returns, Pending
<1>1. Terminal(reason) = reason
    BY DEF Terminal
<1>2. AskCallsTyped'
    BY <1>1 DEF AskTypeOK, AskCallsTyped, Reasons
<1>3. AskTypeOK' /\ WaitingIsShown' /\ ShownOnceResolved'
    BY <1>1, <1>2, DisplayKept DEF AskTypeOK, WaitingIsShown, Open
<1>4. CardAgrees'
    BY <1>1 DEF AskTypeOK, CardAgrees, AnswerOnItsWay
<1>5. AnswerReturned' /\ AnswerOnItsWay'
    BY <1>1 DEF AskTypeOK, AnswerReturned, AnswerOnItsWay, WaitingIsShown, Open
<1> QED
    BY <1>3, <1>4, <1>5

\* The tool is disposed of.
LEMMA DisposeKeeps ==
    ASSUME AskInv, DisposeTool
    PROVE  AskInv'
<1> USE DEF AskInv, CardsTellTheTruth, DisposeTool
<1>1. AskCallsTyped'
    BY DEF AskTypeOK, AskCallsTyped, Reasons
<1>2. cards' \in Seq(Requests) /\ IsInjective(cards') /\ Len(cards') = 0
    BY DEF IsInjective
<1>3. AskTypeOK'
    BY <1>1, <1>2, MaxEntriesAssumption DEF AskTypeOK, AskCallsTyped
<1>4. WaitingIsShown' /\ ShownOnceResolved'
    BY <1>2 DEF AskTypeOK, WaitingIsShown, ShownOnceResolved
<1>5. CardAgrees'
    BY DEF AskTypeOK, CardAgrees, WaitingIsShown, Open
<1>6. AnswerReturned' /\ AnswerOnItsWay'
    BY DEF AskTypeOK, AnswerReturned, AnswerOnItsWay, WaitingIsShown, Open
<1> QED
    BY <1>3, <1>4, <1>5, <1>6

\* A call whose conversation is resolved is refused, or gets a card of its own.
LEMMA ResolveKeeps ==
    ASSUME AskInv, NEW r \in Requests, NEW found \in BOOLEAN, Resolve(r, found)
    PROVE  AskInv'
<1> USE DEF AskInv, CardsTellTheTruth
<1> DEFINE full == Len(cards) >= MaxEntries
           refusal == CASE toolDisposed -> "disposed"
                        [] ~toolDisposed /\ ~Pending(r) -> told[r]
                        [] ~toolDisposed /\ Pending(r) /\ ~found -> "conversation-unavailable"
                        [] ~toolDisposed /\ Pending(r) /\ found ->
                              IF full /\ Replaceable = {} THEN "capacity" ELSE "none"
           kept == IF full THEN Removed ELSE cards
<1>1. /\ asked[r] = "resolving" /\ card[r] = "none"
      /\ UNCHANGED <<toolDisposed, late, told, overtaken>>
    BY DEF Resolve, ShownOnceResolved
<1>2. refusal \in {"none"} \cup Reasons
  <2>1. told[r] \in {"none", "ok"} \cup Reasons /\ (told[r] = "ok" => card[r] = "answered")
      BY DEF AskTypeOK, CardAgrees
  <2> QED
      BY <1>1, <2>1 DEF Pending, Reasons
<1>3. refusal = "none" => ~toolDisposed /\ (full => Replaceable # {})
    BY DEF Pending, AskTypeOK
<1>4. IF refusal # "none"
      THEN Returns(r, refusal) /\ UNCHANGED <<cards, card>>
      ELSE /\ cards' = Append(kept, r)
           /\ card' = [card EXCEPT ![r] = "open"]
           /\ asked' = [asked EXCEPT ![r] = "waiting"]
           /\ UNCHANGED value
    BY DEF Resolve
<1> HIDE DEF refusal, kept, full
<1>5. CASE refusal # "none"
  <2>1. AskCallsTyped'
      BY <1>1, <1>2, <1>4, <1>5 DEF AskTypeOK, AskCallsTyped, Returns
  <2>2. AskTypeOK' /\ WaitingIsShown' /\ ShownOnceResolved'
      BY <1>1, <1>4, <1>5, <2>1, DisplayKept DEF AskTypeOK, WaitingIsShown, Open, Returns
  <2>3. CardAgrees'
      BY <1>1, <1>4, <1>5 DEF CardAgrees
  <2>4. AnswerReturned' /\ AnswerOnItsWay'
      BY <1>1, <1>2, <1>4, <1>5 DEF AskTypeOK, AnswerReturned, AnswerOnItsWay, Returns, Reasons
  <2> QED
      BY <2>2, <2>3, <2>4
<1>6. CASE refusal = "none"
  <2> USE <1>1, <1>4, <1>6
  <2>1. /\ kept \in Seq(Requests) /\ IsInjective(kept) /\ Len(kept) < MaxEntries
        /\ \A i \in 1..Len(kept) : kept[i] \in Range(cards)
        /\ \A s \in Range(cards) : Open(s) => s \in Range(kept)
    <3>0. cards \in Seq(Requests) /\ Len(cards) \in Nat
        BY DEF AskTypeOK
    <3>1. CASE full
        BY <1>3, <3>0, <3>1, RoomIsMade, MaxEntriesAssumption DEF kept, full, AskTypeOK
    <3>2. CASE ~full
        BY <3>0, <3>2, RangeOfCards, MaxEntriesAssumption DEF kept, full, AskTypeOK
    <3> QED
        BY <3>1, <3>2
  <2>2. /\ cards' \in Seq(Requests) /\ Len(cards') = Len(kept) + 1
        /\ \A i \in 1..Len(kept) : cards'[i] = kept[i]
        /\ cards'[Len(kept) + 1] = r
        /\ Len(kept) \in Nat
      BY <2>1, AppendProperties
  <2>3. \A i \in 1..Len(kept) : card[kept[i]] # "none" /\ kept[i] # r
    <3>1. \A s \in Range(cards) : card[s] # "none"
        BY RangeOfCards DEF AskTypeOK, ShownOnceResolved
    <3> QED
        BY <2>1, <3>1
  <2>4. IsInjective(cards')
    <3> SUFFICES ASSUME NEW a \in 1..Len(cards'), NEW b \in 1..Len(cards'), cards'[a] = cards'[b]
                 PROVE  a = b
        BY <2>2, LenProperties DEF IsInjective
    <3>1. DOMAIN kept = 1..Len(kept)
        BY <2>1, LenProperties
    <3> QED
        BY <2>1, <2>2, <2>3, <3>1 DEF IsInjective
  <2>5. AskCallsTyped'
      BY DEF AskTypeOK, AskCallsTyped
  <2>6. AskTypeOK'
    <3>1. Len(cards') <= MaxEntries
        BY <2>1, <2>2, MaxEntriesAssumption
    <3> QED
        BY <2>2, <2>4, <2>5, <3>1 DEF AskTypeOK, AskCallsTyped
  <2>7. WaitingIsShown'
    <3> SUFFICES ASSUME NEW s \in Requests, asked'[s] = "waiting"
                 PROVE  s \in Range(cards') /\ Open(s)'
        BY DEF WaitingIsShown
    <3>1. CASE s = r
      <4>1. Open(s)'
          BY <3>1 DEF Open, AskTypeOK
      <4>2. Len(kept) + 1 \in 1..Len(cards')
          BY <2>2
      <4> QED
          BY <2>2, <3>1, <4>1, <4>2, RangeOfCards
    <3>2. CASE s # r
      <4>1. asked[s] = "waiting" /\ card'[s] = card[s]
          BY <3>2 DEF AskTypeOK
      <4>2. s \in Range(cards) /\ Open(s) /\ Open(s)'
          BY <4>1 DEF WaitingIsShown, Open
      <4>3. PICK i \in 1..Len(kept) : kept[i] = s
          BY <2>1, <4>2, RangeOfCards
      <4>4. i \in 1..Len(cards') /\ cards'[i] = s
          BY <2>2, <4>3
      <4> QED
          BY <2>2, <4>2, <4>4, RangeOfCards
    <3> QED
        BY <3>1, <3>2
  <2>8. ShownOnceResolved'
    <3>1. \A s \in Requests : asked'[s] \in {"idle", "resolving"} => card'[s] = "none"
        BY DEF AskTypeOK, ShownOnceResolved
    <3>2. ASSUME NEW i \in 1..Len(cards') PROVE card'[cards'[i]] # "none"
      <4>1. CASE i = Len(kept) + 1
          BY <2>2, <4>1 DEF AskTypeOK
      <4>2. CASE i # Len(kept) + 1
        <5>1. i \in 1..Len(kept)
            BY <2>2, <4>2
        <5>2. kept[i] \in Requests
            BY <2>1, <5>1
        <5> QED
            BY <2>2, <2>3, <5>1, <5>2 DEF AskTypeOK
      <4> QED
          BY <4>1, <4>2
    <3> QED
        BY <3>1, <3>2 DEF ShownOnceResolved
  <2>9. CardAgrees'
      BY DEF AskTypeOK, CardAgrees
  <2>10. AnswerReturned' /\ AnswerOnItsWay'
      BY DEF AskTypeOK, AnswerReturned, AnswerOnItsWay
  <2> QED
      BY <2>6, <2>7, <2>8, <2>9, <2>10
<1> QED
    BY <1>5, <1>6

-----------------------------------------------------------------------------

\* Nothing is asked yet.
LEMMA AskStarts == AskInit => AskInv
<1> SUFFICES ASSUME AskInit PROVE AskInv
    OBVIOUS
<1> USE DEF AskInit
<1>1. cards \in Seq(Requests) /\ IsInjective(cards) /\ Len(cards) = 0
    BY DEF IsInjective
<1>2. AskTypeOK
  <2>1. Len(cards) <= MaxEntries
      BY <1>1, MaxEntriesAssumption
  <2>2. AskCallsTyped
      BY DEF AskCallsTyped
  <2> QED
      BY <1>1, <2>1, <2>2 DEF AskTypeOK, AskCallsTyped
<1>3. CardsTellTheTruth
    BY DEF CardsTellTheTruth, WaitingIsShown, CardAgrees
<1>4. ShownOnceResolved /\ AnswerReturned /\ AnswerOnItsWay
    BY <1>1 DEF ShownOnceResolved, AnswerReturned, AnswerOnItsWay
<1> QED
    BY <1>2, <1>3, <1>4 DEF AskInv

\* Every step keeps the invariant.
LEMMA AskStepKeeps == AskInv /\ [AskNext]_askVars => AskInv'
<1> SUFFICES ASSUME AskInv, [AskNext]_askVars PROVE AskInv'
    OBVIOUS
<1>1. ASSUME NEW r \in Requests, Execute(r) PROVE AskInv'
    BY <1>1, ExecuteKeeps
<1>2. ASSUME NEW r \in Requests, SetAnswerDraft(r) PROVE AskInv'
    BY <1>2, DraftKeeps
<1>3. ASSUME NEW r \in Requests, Collect(r) PROVE AskInv'
    BY <1>3, CollectKeeps
<1>4. ASSUME NEW r \in Requests, BecomesLate(r) PROVE AskInv'
    BY <1>4, LateKeeps
<1>5. ASSUME NEW r \in Requests, NEW found \in BOOLEAN, Resolve(r, found) PROVE AskInv'
    BY <1>5, ResolveKeeps
<1>6. ASSUME NEW r \in Requests, NEW action \in {"submit", "cancel"}, AnswerCard(r, action)
      PROVE  AskInv'
    BY <1>6, AnswerKeeps
<1>7. ASSUME NEW r \in Requests, NEW reason \in {"timeout", "cancelled"}, Abort(r, reason)
      PROVE  AskInv'
    BY <1>7, AbortKeeps
<1>8. ASSUME DisposeTool PROVE AskInv'
    BY <1>8, DisposeKeeps
<1>9. CASE UNCHANGED askVars
    BY <1>9 DEF askVars, AskInv, AskTypeOK, CardsTellTheTruth, WaitingIsShown, CardAgrees, Open,
                ShownOnceResolved, AnswerReturned, AnswerOnItsWay
<1> QED
    BY <1>1, <1>2, <1>3, <1>4, <1>5, <1>6, <1>7, <1>8, <1>9 DEF AskNext

\* The invariant of the tool.
LEMMA AskInvariance == AskSpec => []AskInv
<1> QED
    BY AskStarts, AskStepKeeps, PTL DEF AskSpec

\* Every card, call and answer has its type, no card is shown twice, and no
\* more than MaxEntries of them are kept, whatever is asked (execute).
THEOREM AskTypesHold == AskSpec => []AskTypeOK
<1>1. AskInv => AskTypeOK
    BY DEF AskInv
<1> QED
    BY <1>1, AskInvariance, PTL

\* While a call waits its card is open and on display, and the card and the
\* server never disagree about an answer, for any number of calls and cards
\* (ask-user-remote-tool.ts: answer, finish, dispose).
THEOREM CardsAreTruthful == AskSpec => []CardsTellTheTruth
<1>1. AskInv => CardsTellTheTruth
    BY DEF AskInv
<1> QED
    BY <1>1, AskInvariance, PTL

-----------------------------------------------------------------------------
(* The workspace.  Neither property is inductive.  That a late answer      *)
(* undoes no mutation needs that whatever was read and is not applied yet  *)
(* is as recent as what calls have settled; that a ready list is complete  *)
(* needs that every conversation is listed, behind the cursor, or being    *)
(* created; and the selection needs that the pending load is that of the   *)
(* call which owns the selection.                                          *)

Phases == {"idle", "requested", "refreshed", "loading", "returning", "done"}

Page == [ok : {TRUE}, chats : SUBSET Chats, titles : [Chats -> Nat],
         cursor : {Nil} \cup SUBSET Chats]

Answers == {Nil} \cup Page \cup [ok : {TRUE}, chat : Chats] \cup [ok : {TRUE}, title : Nat]
           \cup [ok : BOOLEAN]

Inputs == {Nil} \cup BOOLEAN \cup SUBSET Chats

Calls == [op : WorkspaceOps \cup {Nil}, phase : Phases, chat : {Nil} \cup Chats,
          input : Inputs, reply : Answers, saw : {Nil} \cup Tasks]

\* What a call k is doing.
Selects(k) == k.op \in {"select", "refresh", "create"}

Answered(k) == k.reply # Nil /\ k.reply.ok

Lists(k) == k.op \in {"refresh", "more"} /\ k.phase = "requested"

Creates(k) == k.op = "create" /\ k.phase = "requested"

Loads(k) == k.phase = "loading"

Loaded(k) == Selects(k) /\ k.phase = "returning"

Mutates(k, op) == k.op = op /\ k.phase \in {"requested", "returning"}

\* A mutation of which the client has been told.
Told(k, op) == k.op = op /\ k.phase = "returning" /\ Answered(k)

\* A call has what its phase needs, and its answer is of the kind it waits for.
Fits(k) ==
    /\ k.phase = "refreshed" => k.op = "refresh"
    /\ Loads(k) => Selects(k)
    /\ Loads(k) \/ k.phase = "returning" \/ Mutates(k, "rename") \/ Mutates(k, "delete")
           => k.chat \in Chats
    /\ k.phase = "returning" => k.reply # Nil
    /\ Answered(k) =>
           /\ Lists(k) => k.reply \in Page
           /\ Creates(k) => k.reply.chat \in Chats
           /\ Mutates(k, "rename") \/ Loads(k) \/ Loaded(k) => k.reply.title \in Nat

CallsFit == task \in [Tasks -> Calls] /\ \A t \in Tasks : Fits(task[t])

\* Of the mutations of a conversation at most one is under way.
MutationsAlone ==
    /\ \A t \in Tasks : Mutates(task[t], "rename") => task[t].chat \in renaming
    /\ \A t \in Tasks : Mutates(task[t], "delete") => task[t].chat \in deleting
    /\ \A s, t \in Tasks :
         /\ Mutates(task[s], "rename") \/ Mutates(task[s], "delete")
         /\ Mutates(task[t], "rename") \/ Mutates(task[t], "delete")
         /\ task[s].chat = task[t].chat
         => s = t

-----------------------------------------------------------------------------
\* The calls after a step of one of them.
LEMMA CallsKept ==
    ASSUME CallsFit, NEW t \in Tasks, NEW w \in Calls, Fits(w),
           task' = [task EXCEPT ![t] = w]
    PROVE  /\ CallsFit'
           /\ task'[t] = w
           /\ \A s \in Tasks : s # t => task'[s] = task[s]
<1>1. task' \in [Tasks -> Calls] /\ task'[t] = w /\ \A s \in Tasks : s # t => task'[s] = task[s]
    BY DEF CallsFit
<1>2. \A s \in Tasks : Fits(task'[s])
    BY <1>1 DEF CallsFit
<1> QED
    BY <1>1, <1>2 DEF CallsFit, Fits, Selects, Answered, Lists, Creates, Loads, Loaded, Mutates

\* The fields of a call.
LEMMA CallFields ==
    ASSUME NEW k \in Calls
    PROVE  /\ k.op \in WorkspaceOps \cup {Nil} /\ k.phase \in Phases
           /\ k.chat \in {Nil} \cup Chats /\ k.input \in Inputs
           /\ k.reply \in Answers /\ k.saw \in {Nil} \cup Tasks
    BY DEF Calls

\* The six parts of a call.
LEMMA NoTaskCall ==
    /\ NoTask \in Calls
    /\ NoTask.chat = Nil /\ NoTask.input = Nil /\ NoTask.reply = Nil
    BY DEF NoTask, Calls, Phases, Inputs, Answers

\* A call that has returned.
LEMMA FinishedCall ==
    ASSUME NEW k \in Calls
    PROVE  /\ Finished(k) \in Calls /\ Fits(Finished(k))
           /\ Finished(k).op = k.op /\ Finished(k).phase = "done" /\ Finished(k).saw = k.saw
           /\ Finished(k).reply = Nil
<1>1. k.op \in WorkspaceOps \cup {Nil} /\ k.saw \in {Nil} \cup Tasks /\ "done" \in Phases
    BY CallFields DEF Phases
<1>2. PICK op, saw : op = k.op /\ saw = k.saw
    OBVIOUS
<1>3. [NoTask EXCEPT !.op = op, !.phase = "done", !.saw = saw] \in Calls
    BY <1>1, <1>2, NoTaskCall DEF Calls
<1>4. Finished(k) = [NoTask EXCEPT !.op = op, !.phase = "done", !.saw = saw]
    BY <1>2 DEF Finished
<1>5. /\ Finished(k).op = k.op /\ Finished(k).phase = "done" /\ Finished(k).saw = k.saw
      /\ Finished(k).reply = Nil
    BY <1>2, <1>4, NoTaskCall DEF Calls
<1>6. Fits(Finished(k))
    BY <1>5 DEF Fits, Loads, Mutates, Answered
<1> QED
    BY <1>3, <1>4, <1>5, <1>6

\* A call that has begun.
LEMMA BegunCall ==
    ASSUME NEW op \in WorkspaceOps, NEW c \in {Nil} \cup Chats,
           choice \in {Nil} \cup Tasks
    PROVE  /\ Begun(op, c) \in Calls
           /\ Begun(op, c).op = op /\ Begun(op, c).phase = "requested"
           /\ Begun(op, c).saw = choice /\ Begun(op, c).reply = Nil
           /\ Begun(op, c).chat = c /\ Begun(op, c).input = Nil
<1>1. choice \in {Nil} \cup Tasks /\ "requested" \in Phases
    BY DEF Phases
<1>2. Begun(op, c) = [NoTask EXCEPT !.op = op, !.phase = "requested", !.chat = c, !.saw = choice]
    BY DEF Begun
<1>3. Begun(op, c) \in Calls
    BY <1>1, <1>2, NoTaskCall DEF Calls
<1>4. /\ Begun(op, c).op = op /\ Begun(op, c).phase = "requested"
      /\ Begun(op, c).saw = choice /\ Begun(op, c).reply = Nil
      /\ Begun(op, c).chat = c /\ Begun(op, c).input = Nil
    BY <1>2, NoTaskCall DEF Calls
<1> QED
    BY <1>3, <1>4

\* A call with an answer.
LEMMA AnsweredCall ==
    ASSUME NEW k \in Calls, NEW r \in Answers
    PROVE  LET w == [k EXCEPT !.reply = r] IN
           /\ w \in Calls
           /\ w.op = k.op /\ w.phase = k.phase /\ w.saw = k.saw
           /\ w.reply = r /\ w.chat = k.chat /\ w.input = k.input
    BY DEF Calls

-----------------------------------------------------------------------------
(* The operators on the snapshot of the controller.                        *)

Listings == [Chats -> {Nil} \cup Nat]
Statuses == {"idle", "loading", "loading-more", "ready", "error"}
Cursors == {Nil} \cup SUBSET Chats
Places == {Nil} \cup Chats
Selections == {"idle", "loading", "ready", "error", "empty"}

Workspaces == [listed : Listings, status : Statuses, cursor : Cursors,
               pending : Places, selected : Places, selection : Selections]

Views == [id : Chats, title : Nat]

\* The parts of two snapshots that no selection changes.
SameList(w, x) == w.listed = x.listed /\ w.status = x.status /\ w.cursor = x.cursor

SamePlace(w, x) == w.pending = x.pending /\ w.selected = x.selected

\* The parts of a snapshot.
LEMMA WorkspaceFields ==
    ASSUME NEW w \in Workspaces
    PROVE  /\ w.listed \in Listings /\ w.status \in Statuses /\ w.cursor \in Cursors
           /\ w.pending \in Places /\ w.selected \in Places /\ w.selection \in Selections
    BY DEF Workspaces

\* Each part may be replaced by another of its kind.
LEMMA ReplacedListed ==
    ASSUME NEW w \in Workspaces, NEW l \in Listings
    PROVE  LET x == [w EXCEPT !.listed = l] IN
           x \in Workspaces /\ SamePlace(x, w) /\ x.listed = l
           /\ x.status = w.status /\ x.cursor = w.cursor /\ x.selection = w.selection
    BY DEF Workspaces, SamePlace

LEMMA ReplacedStatus ==
    ASSUME NEW w \in Workspaces, NEW l \in Statuses
    PROVE  LET x == [w EXCEPT !.status = l] IN
           x \in Workspaces /\ SamePlace(x, w) /\ x.status = l
           /\ x.listed = w.listed /\ x.cursor = w.cursor /\ x.selection = w.selection
    BY DEF Workspaces, SamePlace

LEMMA ReplacedCursor ==
    ASSUME NEW w \in Workspaces, NEW l \in Cursors
    PROVE  LET x == [w EXCEPT !.cursor = l] IN
           x \in Workspaces /\ SamePlace(x, w) /\ x.cursor = l
           /\ x.listed = w.listed /\ x.status = w.status /\ x.selection = w.selection
    BY DEF Workspaces, SamePlace

LEMMA ReplacedPending ==
    ASSUME NEW w \in Workspaces, NEW l \in Places
    PROVE  LET x == [w EXCEPT !.pending = l] IN
           x \in Workspaces /\ SameList(x, w) /\ x.pending = l
           /\ x.selected = w.selected /\ x.selection = w.selection
    BY DEF Workspaces, SameList

LEMMA ReplacedSelected ==
    ASSUME NEW w \in Workspaces, NEW l \in Places
    PROVE  LET x == [w EXCEPT !.selected = l] IN
           x \in Workspaces /\ SameList(x, w) /\ x.selected = l
           /\ x.pending = w.pending /\ x.selection = w.selection
    BY DEF Workspaces, SameList

LEMMA ReplacedSelection ==
    ASSUME NEW w \in Workspaces, NEW l \in Selections
    PROVE  LET x == [w EXCEPT !.selection = l] IN
           x \in Workspaces /\ SameList(x, w) /\ SamePlace(x, w) /\ x.selection = l
    BY DEF Workspaces, SameList, SamePlace

\* v is in the list, and the others are as in w.
Puts(x, w, v) ==
    /\ x.listed \in Listings
    /\ \A c \in Chats : x.listed[c] = IF c = v.id THEN v.title ELSE w.listed[c]
    /\ x.cursor = w.cursor

\* A view is put into the list.
LEMMA UpsertedFields ==
    ASSUME NEW w \in Workspaces, NEW v \in Views
    PROVE  /\ Upserted(w, v) \in Workspaces
           /\ Puts(Upserted(w, v), w, v)
           /\ SamePlace(Upserted(w, v), w) /\ Upserted(w, v).status = w.status
<1> DEFINE l == [w.listed EXCEPT ![v.id] = v.title]
<1>1. v.id \in Chats /\ v.title \in Nat
    BY DEF Views
<1>2. l \in Listings /\ \A c \in Chats : l[c] = IF c = v.id THEN v.title ELSE w.listed[c]
    BY <1>1, WorkspaceFields DEF Listings
<1>3. Upserted(w, v) = [w EXCEPT !.listed = l]
    BY DEF Upserted
<1> HIDE DEF l
<1> QED
    BY <1>2, <1>3, ReplacedListed DEF Puts

\* A conversation leaves the list.
LEMMA WithoutFields ==
    ASSUME NEW w \in Workspaces, NEW c \in Chats
    PROVE  /\ Without(w, c) \in Workspaces
           /\ \A d \in Chats : Without(w, c).listed[d] = IF d = c THEN Nil ELSE w.listed[d]
           /\ SamePlace(Without(w, c), w) /\ Without(w, c).cursor = w.cursor
<1> DEFINE l == [w.listed EXCEPT ![c] = Nil]
<1>1. l \in Listings /\ \A d \in Chats : l[d] = IF d = c THEN Nil ELSE w.listed[d]
    BY WorkspaceFields DEF Listings
<1>2. Without(w, c) = [w EXCEPT !.listed = l]
    BY DEF Without
<1> HIDE DEF l
<1> QED
    BY <1>1, <1>2, ReplacedListed

\* A selection succeeds.
LEMMA SelectedFields ==
    ASSUME NEW w \in Workspaces, NEW v \in Views
    PROVE  /\ Selected(w, v) \in Workspaces
           /\ Puts(Selected(w, v), w, v)
           /\ Selected(w, v).pending = Nil /\ Selected(w, v).selected = v.id
<1> DEFINE a == Upserted(w, v)
           b == [a EXCEPT !.pending = Nil]
           c == [b EXCEPT !.selected = v.id]
           d == [c EXCEPT !.selection = "ready"]
<1>1. a \in Workspaces /\ Puts(a, w, v)
    BY UpsertedFields
<1>2. v.id \in Chats
    BY DEF Views
<1>3. Selected(w, v) = d
    BY DEF Selected
<1> HIDE DEF a
<1>4. b \in Workspaces /\ SameList(b, a) /\ b.pending = Nil
    BY <1>1, ReplacedPending DEF Places
<1> HIDE DEF b
<1>5. c \in Workspaces /\ SameList(c, b) /\ c.selected = v.id /\ c.pending = Nil
    BY <1>2, <1>4, ReplacedSelected DEF Places
<1> HIDE DEF c
<1>6. d \in Workspaces /\ SameList(d, c) /\ SamePlace(d, c)
    BY <1>5, ReplacedSelection DEF Selections
<1> HIDE DEF d
<1> QED
    BY <1>1, <1>3, <1>4, <1>5, <1>6 DEF SameList, SamePlace, Puts

\* A selection fails.
LEMMA SelectionFailedFields ==
    ASSUME NEW w \in Workspaces
    PROVE  /\ SelectionFailed(w) \in Workspaces
           /\ SameList(SelectionFailed(w), w)
           /\ SelectionFailed(w).pending = Nil /\ SelectionFailed(w).selected = w.selected
<1> DEFINE a == [w EXCEPT !.pending = Nil]
           b == [a EXCEPT !.selection = "error"]
<1>1. SelectionFailed(w) = b
    BY DEF SelectionFailed
<1>2. a \in Workspaces /\ SameList(a, w) /\ a.pending = Nil /\ a.selected = w.selected
    BY ReplacedPending DEF Places
<1> HIDE DEF a
<1>3. b \in Workspaces /\ SameList(b, a) /\ SamePlace(b, a)
    BY <1>2, ReplacedSelection DEF Selections
<1> HIDE DEF b
<1> QED
    BY <1>1, <1>2, <1>3 DEF SameList, SamePlace

\* A selection begins, or is cancelled.
LEMMA PendingFields ==
    ASSUME NEW w \in Workspaces, NEW p \in Places,
           NEW s \in Selections
    PROVE  LET x == [w EXCEPT !.pending = p, !.selection = s] IN
           /\ x \in Workspaces /\ SameList(x, w)
           /\ x.pending = p /\ x.selected = w.selected
<1> DEFINE a == [w EXCEPT !.pending = p]
           b == [a EXCEPT !.selection = s]
<1>1. a \in Workspaces /\ SameList(a, w) /\ a.pending = p /\ a.selected = w.selected
    BY ReplacedPending DEF Places
<1> HIDE DEF a
<1>2. b \in Workspaces /\ SameList(b, a) /\ SamePlace(b, a)
    BY <1>1, ReplacedSelection DEF Selections
<1> HIDE DEF b
<1>3. b \in Workspaces /\ SameList(b, w) /\ b.pending = p /\ b.selected = w.selected
    BY <1>1, <1>2 DEF SameList, SamePlace
<1> QED
    BY <1>3 DEF a, b

\* What a deletion leaves of the selection.
LEMMA DeselectedFields ==
    ASSUME NEW w \in Workspaces, NEW c \in Chats
    PROVE  LET x == Deselected(w, c) IN
           /\ x \in Workspaces /\ SameList(x, w)
           /\ x.pending = IF c \in {w.selected, w.pending} THEN Nil ELSE w.pending
           /\ x.selected = IF c = w.selected THEN Nil ELSE w.selected
<1> DEFINE x == Deselected(w, c)
           a == [w EXCEPT !.pending = Nil]
           b == [a EXCEPT !.selected = Nil]
           d == [b EXCEPT !.selection = EmptyOrIdle(w)]
           s == IF w.selected = Nil THEN EmptyOrIdle(w) ELSE "ready"
           e == [a EXCEPT !.selection = s]
<1>1. EmptyOrIdle(w) \in {"idle", "empty"} /\ s \in {"idle", "empty", "ready"}
    BY DEF EmptyOrIdle
<1>2. x = IF w.selected = c THEN d ELSE IF w.pending = c THEN e ELSE w
    BY DEF Deselected
<1>3. a \in Workspaces /\ SameList(a, w) /\ a.pending = Nil /\ a.selected = w.selected
    BY ReplacedPending DEF Places
<1> HIDE DEF a, s
<1>4. b \in Workspaces /\ SameList(b, a) /\ b.selected = Nil /\ b.pending = Nil
    BY <1>3, ReplacedSelected DEF Places
<1>5. e \in Workspaces /\ SameList(e, a) /\ SamePlace(e, a)
    BY <1>1, <1>3, ReplacedSelection DEF Selections
<1> HIDE DEF b, e
<1>6. d \in Workspaces /\ SameList(d, b) /\ SamePlace(d, b)
    BY <1>1, <1>4, ReplacedSelection DEF Selections
<1> HIDE DEF d, x
<1>7. SameList(d, w) /\ SameList(e, w) /\ SameList(w, w)
    BY <1>3, <1>4, <1>5, <1>6 DEF SameList
<1>8. x \in Workspaces /\ SameList(x, w)
    BY <1>2, <1>5, <1>6, <1>7
<1>9. /\ x.pending = IF c \in {w.selected, w.pending} THEN Nil ELSE w.pending
      /\ x.selected = IF c = w.selected THEN Nil ELSE w.selected
    BY <1>2, <1>3, <1>4, <1>5, <1>6 DEF SamePlace
<1> QED
    BY <1>8, <1>9 DEF x

\* A commit of the client reaches a controller that is not disposed of.
LEMMA ObservedFields ==
    ASSUME NEW w \in Workspaces, NEW v \in Views, ~controllerDisposed
    PROVE  /\ Observed(w, v) \in Workspaces
           /\ Observed(w, v).selected = IF v.id = w.pending THEN v.id ELSE w.selected
           /\ Observed(w, v).pending = IF v.id = w.pending THEN Nil ELSE w.pending
           /\ \/ Puts(Observed(w, v), w, v)
              \/ SameList(Observed(w, v), w)
    BY UpsertedFields, SelectedFields DEF Observed, SameList, SamePlace

-----------------------------------------------------------------------------
(* The invariant.                                                          *)

StateTyped ==
    /\ controllerDisposed \in BOOLEAN /\ paged \in BOOLEAN /\ firstSelected \in BOOLEAN
    /\ existing \subseteq Chats /\ unborn \subseteq Chats \ existing
    /\ title \in [Chats -> Nat] /\ retitled \in [Chats -> Nat] /\ erased \subseteq Chats
    /\ viewed \in {Nil} \cup Views /\ override \in {Nil} \cup Nat
    /\ viewLoad \in {Nil} \cup Tasks /\ listOwner \in {Nil} \cup Tasks
    /\ selectionOwner \in {Nil} \cup Tasks /\ automatic \in {Nil} \cup Tasks
    /\ latestCreate \in {Nil} \cup Tasks /\ choice \in {Nil} \cup Tasks
    /\ unswayed \subseteq Tasks
    /\ deleting \subseteq Chats /\ renaming \subseteq Chats \ deleting
    /\ workspace \in Workspaces

WsTyped == StateTyped /\ CallsFit /\ MutationsAlone

\* The call that selects is one that selects, and has begun to.
OwnerActs ==
    selectionOwner # Nil =>
        /\ Selects(task[selectionOwner])
        /\ task[selectionOwner].phase \in {"loading", "returning", "done"}

\* The load that is pending in the client is that of the selection; what it loads
\* is pending in the list too, unless a commit of the view has shown it already.
LoadIsOwners ==
    viewLoad # Nil =>
        /\ selectionOwner = viewLoad /\ Loads(task[viewLoad])
        /\ \/ workspace.pending = task[viewLoad].chat
           \/ workspace.pending = Nil /\ workspace.selected = task[viewLoad].chat

\* What the selection has committed is still displayed.
CommittedIsDisplayed ==
    selectionOwner # Nil /\ Loaded(task[selectionOwner]) /\ Answered(task[selectionOwner]) =>
        viewed # Nil /\ viewed.id = task[selectionOwner].chat

SelectionInv ==
    SelectionIsDisplayed /\ OwnerActs /\ LoadIsOwners /\ CommittedIsDisplayed

\* Who read the current intent of the user has seen the user's last choice.
UnswayedSaw == \A t \in unswayed : task[t].saw = choice /\ task[t].phase # "idle"

OwnerBegan == selectionOwner # Nil => task[selectionOwner].phase # "idle"

ChoiceInv == UserChoiceWins /\ UnswayedSaw /\ OwnerBegan

\* c is deleted on the server, as a call knows that has told the client.
Gone(c) == c \in erased \/ \E t \in Tasks : Told(task[t], "delete") /\ task[t].chat = c

DeletedOnServer ==
    \A t \in Tasks : Mutates(task[t], "delete") /\ Answered(task[t]) =>
        task[t].chat \notin existing \cup unborn

\* What is gone is not displayed, and the pending load did not read it before.
GoneIsGone ==
    \A c \in Chats : Gone(c) =>
        /\ c \notin existing \cup unborn
        /\ viewed # Nil => viewed.id # c
        /\ viewLoad # Nil /\ task[viewLoad].chat = c => ~Answered(task[viewLoad])

\* n is no older than the titles of c of which a call has told the client.
Recent(c, n) ==
    /\ n >= retitled[c]
    /\ \A t \in Tasks : Told(task[t], "rename") /\ task[t].chat = c => n >= task[t].reply.title

RenamedOnServer ==
    \A t \in Tasks : Mutates(task[t], "rename") =>
        /\ task[t].chat \notin unborn
        /\ Answered(task[t]) => /\ task[t].chat \notin erased
                                /\ retitled[task[t].chat] <= task[t].reply.title
                                /\ task[t].reply.title <= title[task[t].chat]

TitlesGrow == \A c \in Chats : retitled[c] <= title[c] /\ (c \in unborn => retitled[c] = 0)

\* What is read and not applied yet is as recent as what calls have settled: the
\* page of the current list request, the conversation just created, what a load
\* has committed, the view, and what the pending load will commit.
PageIsRecent ==
    listOwner # Nil /\ Lists(task[listOwner]) /\ Answered(task[listOwner]) =>
        \A c \in task[listOwner].reply.chats :
            c \notin erased /\ task[listOwner].reply.titles[c] >= retitled[c]

CreatedIsNew ==
    \A t \in Tasks : Creates(task[t]) /\ Answered(task[t]) =>
        task[t].reply.chat \notin erased /\ retitled[task[t].reply.chat] = 0

LoadedIsRecent ==
    \A t \in Tasks : Loaded(task[t]) /\ Answered(task[t]) =>
        task[t].chat \notin erased /\ task[t].reply.title >= retitled[task[t].chat]

ViewIsRecent == viewed # Nil => Recent(viewed.id, viewed.title)

LoadIsRecent ==
    viewLoad # Nil =>
        /\ override # Nil => Recent(task[viewLoad].chat, override)
        /\ override = Nil /\ Answered(task[viewLoad]) =>
               Recent(task[viewLoad].chat, task[viewLoad].reply.title)

MutationInv ==
    /\ DeletedOnServer /\ GoneIsGone /\ RenamedOnServer /\ TitlesGrow
    /\ PageIsRecent /\ CreatedIsNew /\ LoadedIsRecent /\ ViewIsRecent /\ LoadIsRecent

\* The server has created c, and the answer is not applied yet.
Creating(c) == \E t \in Tasks : Creates(task[t]) /\ Answered(task[t]) /\ task[t].reply.chat = c

Behind(cursor) == IF cursor = Nil THEN {} ELSE cursor

\* Every conversation is listed, or on a further page, or being created.
Reached ==
    paged => \A c \in existing :
        c \in Listed(workspace) \/ c \in Behind(workspace.cursor) \/ Creating(c)

CursorPaged == workspace.cursor # Nil => paged

MoreContinues ==
    listOwner # Nil /\ Lists(task[listOwner]) /\ task[listOwner].op = "more" =>
        task[listOwner].input = workspace.cursor /\ paged

\* The same when the page is applied of which the list waits.
PageReaches ==
    listOwner # Nil /\ Lists(task[listOwner]) /\ Answered(task[listOwner]) =>
        \A c \in existing :
            \/ c \in task[listOwner].reply.chats \/ c \in Behind(task[listOwner].reply.cursor)
            \/ Creating(c)
            \/ task[listOwner].op = "more" /\ c \in Listed(workspace)

ListInv == Reached /\ CursorPaged /\ MoreContinues /\ PageReaches

\* A controller that is disposed of changes nothing any more.
WsInv ==
    /\ WsTyped /\ ChoiceInv /\ MutationsHold
    /\ ~controllerDisposed => SelectionInv /\ MutationInv /\ ListInv

-----------------------------------------------------------------------------
\* Of a step of t that begins or ends no mutation.
LEMMA AloneKept ==
    ASSUME MutationsAlone, UNCHANGED <<renaming, deleting>>,
           \A s \in Tasks : \A op \in {"rename", "delete"} :
               Mutates(task'[s], op) => Mutates(task[s], op) /\ task'[s].chat = task[s].chat
    PROVE  MutationsAlone'
BY DEF MutationsAlone, Mutates

\* The invariant has the type that the model states.
LEMMA WorkspaceTyped == WsTyped => WsTypeOK
<1> SUFFICES ASSUME WsTyped PROVE WsTypeOK
    OBVIOUS
<1>1. \A t \in Tasks : /\ task[t].op \in WorkspaceOps \cup {Nil}
        /\ task[t].phase \in {"idle", "requested", "refreshed", "loading", "returning", "done"}
        /\ task[t].chat \in Chats \cup {Nil}
    BY CallFields DEF WsTyped, CallsFit, Phases
<1>2. workspace \in [listed : [Chats -> Nat \cup {Nil}],
                      status : {"idle", "loading", "loading-more", "ready", "error"},
                      cursor : {Nil} \cup SUBSET Chats,
                      pending : Chats \cup {Nil}, selected : Chats \cup {Nil},
                      selection : {"idle", "loading", "ready", "error", "empty"}]
  <2>1. /\ Listings = [Chats -> Nat \cup {Nil}] /\ Cursors = {Nil} \cup SUBSET Chats
        /\ Places = Chats \cup {Nil}
    <3>1. Nat \cup {Nil} = {Nil} \cup Nat
        OBVIOUS
    <3>2. Chats \cup {Nil} = {Nil} \cup Chats
        OBVIOUS
    <3> QED
        BY <3>1, <3>2 DEF Listings, Cursors, Places
  <2> QED
      BY <2>1 DEF WsTyped, StateTyped, Workspaces, Statuses, Selections
<1> QED
    BY <1>1, <1>2 DEF WsTyped, StateTyped, WsTypeOK, Views

-----------------------------------------------------------------------------
(* The gateway.                                                            *)

\* A call that waits gets an answer of its kind; nothing else changes for the calls.
Gets(t, r) ==
    /\ task[t].reply = Nil
    /\ CallsFit'
    /\ task'[t].reply = r /\ task'[t].op = task[t].op /\ task'[t].phase = task[t].phase
    /\ task'[t].chat = task[t].chat /\ task'[t].input = task[t].input /\ task'[t].saw = task[t].saw
    /\ \A s \in Tasks : s # t => task'[s] = task[s]

\* An answer of the right kind fits the call that waits for it.
LEMMA RepliesKeeps ==
    ASSUME CallsFit, NEW t \in Tasks, NEW r \in Answers, Replies(t, r), task[t].reply = Nil,
           task[t].phase \in {"requested", "loading"},
           r.ok => /\ Lists(task[t]) => r \in Page
                   /\ Creates(task[t]) => r.chat \in Chats
                   /\ task[t].op = "rename" \/ Loads(task[t]) => r.title \in Nat
    PROVE  Gets(t, r)
<1> DEFINE w == [task[t] EXCEPT !.reply = r]
<1>1. task[t] \in Calls /\ Fits(task[t])
    BY DEF CallsFit
<1>2. w \in Calls /\ w.op = task[t].op /\ w.phase = task[t].phase /\ w.saw = task[t].saw
      /\ w.reply = r /\ w.chat = task[t].chat /\ w.input = task[t].input
    BY <1>1, AnsweredCall
<1>3. task' = [task EXCEPT ![t] = w]
    BY DEF Replies
<1> HIDE DEF w
<1>4. Fits(w)
    BY <1>1, <1>2 DEF Fits, Selects, Answered, Lists, Creates, Loads, Loaded, Mutates
<1> QED
    BY <1>2, <1>3, <1>4, CallsKept DEF Gets

\* An answer keeps the types, and begins no mutation.
LEMMA GetsKeepsTypes ==
    ASSUME WsTyped, NEW t \in Tasks, NEW r \in Answers, Gets(t, r), UNCHANGED <<renaming, deleting>>
    PROVE  CallsFit' /\ MutationsAlone'
<1>1. \A s \in Tasks : \A op \in {"rename", "delete"} :
         Mutates(task'[s], op) => Mutates(task[s], op) /\ task'[s].chat = task[s].chat
    BY DEF Gets, Mutates
<1> QED
    BY <1>1, AloneKept DEF WsTyped, Gets

\* An answer on its way decides nothing about the selection.
LEMMA GetsKeepsSelection ==
    ASSUME WsTyped, NEW t \in Tasks, NEW r \in Answers, Gets(t, r),
           task[t].phase \in {"requested", "loading"},
           UNCHANGED <<viewed, viewLoad, selectionOwner, choice, unswayed, workspace, controllerDisposed>>
    PROVE  /\ ChoiceInv => ChoiceInv'
           /\ SelectionInv => SelectionInv'
<1>1. \A s \in Tasks : /\ task'[s].op = task[s].op /\ task'[s].phase = task[s].phase
                       /\ task'[s].chat = task[s].chat /\ task'[s].saw = task[s].saw
    BY DEF Gets
<1>2. selectionOwner \in {Nil} \cup Tasks /\ viewLoad \in {Nil} \cup Tasks /\ unswayed \subseteq Tasks
    BY DEF WsTyped, StateTyped
<1>3. ASSUME ChoiceInv PROVE ChoiceInv'
    BY <1>1, <1>2, <1>3 DEF ChoiceInv, UserChoiceWins, UnswayedSaw, OwnerBegan
<1>4. ASSUME SelectionInv PROVE SelectionInv'
  <2>1. SelectionIsDisplayed' /\ OwnerActs' /\ LoadIsOwners'
      BY <1>1, <1>2, <1>4 DEF SelectionInv, SelectionIsDisplayed, OwnerActs, LoadIsOwners,
         Selects, Loads
  <2>2. CommittedIsDisplayed'
    <3>1. ASSUME selectionOwner # Nil, Loaded(task'[selectionOwner]), Answered(task'[selectionOwner])
          PROVE  Loaded(task[selectionOwner]) /\ Answered(task[selectionOwner])
        BY <1>1, <1>2, <3>1 DEF Gets, Loaded, Answered, Selects
    <3> QED
        BY <1>1, <1>2, <1>4, <3>1 DEF SelectionInv, CommittedIsDisplayed
  <2> QED
      BY <2>1, <2>2 DEF SelectionInv
<1> QED
    BY <1>3, <1>4

\* An answer says nothing that is out of date.
UpToDate(k, r) ==
    r # Nil /\ r.ok =>
        /\ Lists(k) => \A c \in r.chats : c \notin erased /\ r.titles[c] >= retitled[c]
        /\ Creates(k) => r.chat \notin erased /\ retitled[r.chat] = 0
        /\ Mutates(k, "rename") => /\ k.chat \notin erased
                                   /\ retitled[k.chat] <= r.title /\ r.title <= title'[k.chat]
        /\ Mutates(k, "delete") => k.chat \notin (existing \cup unborn)'
        /\ Loads(k) => ~Gone(k.chat) /\ Recent(k.chat, r.title)

\* An answer that is up to date when it is read keeps what mutations need.
LEMMA GetsKeepsMutation ==
    ASSUME WsTyped, SelectionInv, MutationInv, NEW t \in Tasks, NEW r \in Answers, Gets(t, r),
           task[t].phase \in {"requested", "loading"}, UpToDate(task[t], r),
           UNCHANGED <<viewed, viewLoad, override, erased, retitled, listOwner>>,
           title' \in [Chats -> Nat], \A c \in Chats : title[c] <= title'[c],
           (existing \cup unborn)' \subseteq existing \cup unborn, unborn' \subseteq unborn
    PROVE  MutationInv'
<1>1. \A s \in Tasks : /\ task'[s].op = task[s].op /\ task'[s].phase = task[s].phase
                       /\ task'[s].chat = task[s].chat
    BY DEF Gets
<1>2. \A s \in Tasks : s # t => task'[s] = task[s]
    BY DEF Gets
<1>3. \A s \in Tasks : task[s].phase = "returning" => task'[s] = task[s]
    BY <1>2
<1>4. \A c : Gone(c)' <=> Gone(c)
    BY <1>1, <1>3 DEF Gone, Told, Answered
<1>5. \A c, n : Recent(c, n)' <=> Recent(c, n)
    BY <1>1, <1>3 DEF Recent, Told, Answered
<1>6. task'[t].reply = r
    BY DEF Gets
<1>7. /\ viewLoad \in {Nil} \cup Tasks /\ listOwner \in {Nil} \cup Tasks
      /\ title \in [Chats -> Nat] /\ retitled \in [Chats -> Nat]
    BY DEF WsTyped, StateTyped
<1>8. DeletedOnServer'
    BY <1>1, <1>2, <1>6 DEF MutationInv, DeletedOnServer, UpToDate, Mutates, Answered
<1>9. GoneIsGone'
  <2>1. SUFFICES ASSUME NEW c \in Chats, Gone(c)
                 PROVE  /\ c \notin (existing \cup unborn)'
                        /\ viewed' # Nil => viewed'.id # c
                        /\ viewLoad' # Nil /\ task'[viewLoad'].chat = c => ~Answered(task'[viewLoad'])
      BY <1>4 DEF GoneIsGone
  <2>2. c \notin (existing \cup unborn)' /\ (viewed' # Nil => viewed'.id # c)
      BY <2>1 DEF MutationInv, GoneIsGone
  <2>3. ASSUME viewLoad' # Nil, task'[viewLoad'].chat = c, Answered(task'[viewLoad']) PROVE FALSE
    <3>1. viewLoad' = viewLoad /\ viewLoad \in Tasks /\ task[viewLoad].chat = c
        BY <1>1, <1>7, <2>3
    <3>2. ~Answered(task[viewLoad])
        BY <2>1, <3>1, <2>3 DEF MutationInv, GoneIsGone
    <3>3. viewLoad = t
        BY <1>2, <2>3, <3>1, <3>2
    <3>4. Loads(task[t]) => ~Gone(c)
        BY <1>6, <2>3, <3>1, <3>3 DEF UpToDate, Answered
    <3>5. Loads(task[t])
        BY <2>3, <3>1, <3>3 DEF SelectionInv, LoadIsOwners
    <3> QED
        BY <2>1, <3>4, <3>5
  <2> QED
      BY <2>2, <2>3
<1>10. RenamedOnServer'
  <2>1. SUFFICES ASSUME NEW s \in Tasks, Mutates(task'[s], "rename")
                 PROVE  /\ task'[s].chat \notin unborn'
                        /\ Answered(task'[s]) => /\ task'[s].chat \notin erased'
                                                 /\ retitled'[task'[s].chat] <= task'[s].reply.title
                                                 /\ task'[s].reply.title <= title'[task'[s].chat]
      BY DEF RenamedOnServer
  <2>2. Mutates(task[s], "rename") /\ task[s].chat \notin unborn
      BY <1>1, <2>1 DEF MutationInv, RenamedOnServer, Mutates
  <2>3. task'[s].chat = task[s].chat /\ task[s].chat \in Chats
      BY <1>1, <2>2 DEF WsTyped, CallsFit, Fits
  <2>4. CASE s = t
      BY <1>6, <2>2, <2>3, <2>4 DEF UpToDate, Answered
  <2>5. CASE s # t
    <3>1. ASSUME Answered(task[s])
          PROVE  /\ task[s].chat \notin erased /\ retitled[task[s].chat] <= task[s].reply.title
                 /\ task[s].reply.title <= title[task[s].chat] /\ task[s].reply.title \in Nat
        BY <2>2, <3>1 DEF MutationInv, RenamedOnServer, WsTyped, CallsFit, Fits
    <3>2. task'[s] = task[s] /\ title[task[s].chat] <= title'[task[s].chat]
        BY <1>2, <2>3, <2>5
    <3>3. title[task[s].chat] \in Nat /\ title'[task[s].chat] \in Nat
        BY <1>7, <2>3
    <3> QED
        BY <2>2, <3>1, <3>2, <3>3
  <2> QED
      BY <2>4, <2>5
<1>11. TitlesGrow'
  <2>1. \A c \in Chats : /\ title[c] \in Nat /\ title'[c] \in Nat /\ retitled[c] \in Nat
                         /\ title[c] <= title'[c]
      BY <1>7
  <2>2. \A c \in Chats : retitled[c] <= title[c] /\ (c \in unborn => retitled[c] = 0)
      BY DEF MutationInv, TitlesGrow
  <2> QED
      BY <2>1, <2>2 DEF TitlesGrow
<1>12. PageIsRecent'
    BY <1>1, <1>2, <1>6, <1>7 DEF MutationInv, PageIsRecent, UpToDate, Lists, Answered
<1>13. CreatedIsNew'
    BY <1>1, <1>2, <1>6 DEF MutationInv, CreatedIsNew, UpToDate, Creates, Answered
<1>14. LoadedIsRecent'
    BY <1>1, <1>3 DEF MutationInv, LoadedIsRecent, Loaded, Selects
<1>15. ViewIsRecent'
    BY <1>5 DEF MutationInv, ViewIsRecent
<1>16. LoadIsRecent'
  <2>1. SUFFICES ASSUME viewLoad # Nil
                 PROVE  /\ override # Nil => Recent(task[viewLoad].chat, override)
                        /\ override = Nil /\ Answered(task'[viewLoad]) =>
                              Recent(task[viewLoad].chat, task'[viewLoad].reply.title)
      BY <1>1, <1>5, <1>7 DEF LoadIsRecent
  <2>2. Loads(task[viewLoad]) /\ viewLoad \in Tasks
      BY <1>7, <2>1 DEF SelectionInv, LoadIsOwners
  <2>3. ASSUME Answered(task'[viewLoad]), override = Nil
        PROVE  Recent(task[viewLoad].chat, task'[viewLoad].reply.title)
    <3>1. CASE viewLoad = t
        BY <1>6, <2>2, <2>3, <3>1 DEF UpToDate, Answered
    <3>2. CASE viewLoad # t
        BY <1>2, <2>1, <2>2, <2>3, <3>2 DEF MutationInv, LoadIsRecent
    <3> QED
        BY <3>1, <3>2
  <2> QED
      BY <2>1, <2>3 DEF MutationInv, LoadIsRecent
<1> QED
    BY <1>8, <1>9, <1>10, <1>11, <1>12, <1>13, <1>14, <1>15, <1>16 DEF MutationInv

\* An answer that covers the server keeps every conversation within reach.
LEMMA GetsKeepsList ==
    ASSUME WsTyped, ListInv, NEW t \in Tasks, NEW r \in Answers, Gets(t, r),
           UNCHANGED <<workspace, listOwner, paged>>,
           \A c \in existing' : c \in existing \/ (Creates(task[t]) /\ r # Nil /\ r.ok /\ r.chat = c),
           r # Nil /\ r.ok /\ Lists(task[t]) /\ listOwner = t => \A c \in existing :
               \/ c \in r.chats \/ c \in Behind(r.cursor) \/ Creating(c)
               \/ task[t].op = "more" /\ c \in Listed(workspace)
    PROVE  ListInv'
<1>1. \A s \in Tasks : /\ task'[s].op = task[s].op /\ task'[s].phase = task[s].phase
                       /\ task'[s].input = task[s].input
    BY DEF Gets
<1>2. /\ \A s \in Tasks : s # t => task'[s] = task[s]
      /\ task[t].reply = Nil /\ task'[t].reply = r
    BY DEF Gets
<1>3. \A c : Creating(c) => Creating(c)'
    BY <1>1, <1>2 DEF Creating, Creates, Answered
<1>4. ASSUME NEW c, Creates(task[t]), r # Nil, r.ok, r.chat = c PROVE Creating(c)'
    BY <1>1, <1>2, <1>4 DEF Creating, Creates, Answered
<1>5. \A c \in existing' : c \in existing \/ Creating(c)'
    BY <1>4
<1>6. Listed(workspace)' = Listed(workspace) /\ listOwner \in {Nil} \cup Tasks
    BY DEF Listed, WsTyped, StateTyped
<1>7. Reached' /\ CursorPaged' /\ MoreContinues'
    BY <1>1, <1>3, <1>5, <1>6 DEF ListInv, Reached, CursorPaged, MoreContinues, Behind, Lists
<1>8. PageReaches'
  <2>1. SUFFICES ASSUME listOwner # Nil, Lists(task[listOwner]), Answered(task'[listOwner]),
                        NEW c \in existing
                 PROVE  \/ c \in task'[listOwner].reply.chats
                        \/ c \in Behind(task'[listOwner].reply.cursor)
                        \/ Creating(c)
                        \/ task'[listOwner].op = "more" /\ c \in Listed(workspace)
      BY <1>1, <1>3, <1>5, <1>6 DEF PageReaches, Lists, Behind
  <2>2. CASE listOwner = t
      BY <1>1, <1>2, <2>1, <2>2 DEF Answered
  <2>3. CASE listOwner # t
      BY <1>2, <1>6, <2>1, <2>3 DEF ListInv, PageReaches
  <2> QED
      BY <2>2, <2>3
<1> QED
    BY <1>7, <1>8 DEF ListInv

ServerKeeps == <<clientVars, fixedVars, listOwner, selectionVars, latestCreate,
                 mutationVars, workspace>>

\* What the answer has to be for the invariant.
LEMMA GetsKeeps ==
    ASSUME WsInv, NEW t \in Tasks, NEW r \in Answers, Gets(t, r),
           task[t].phase \in {"requested", "loading"}, UNCHANGED ServerKeeps,
           existing' \subseteq Chats, unborn' \subseteq Chats \ existing',
           title' \in [Chats -> Nat], \A c \in Chats : title[c] <= title'[c],
           (existing \cup unborn)' \subseteq existing \cup unborn, unborn' \subseteq unborn,
           \A c \in existing' : c \in existing \/ (Creates(task[t]) /\ r # Nil /\ r.ok /\ r.chat = c),
           SelectionInv /\ MutationInv /\ ListInv =>
               /\ UpToDate(task[t], r)
               /\ r # Nil /\ r.ok /\ Lists(task[t]) /\ listOwner = t => \A c \in existing :
                      \/ c \in r.chats \/ c \in Behind(r.cursor) \/ Creating(c)
                      \/ task[t].op = "more" /\ c \in Listed(workspace)
    PROVE  WsInv'
<1>1. /\ UNCHANGED <<viewed, viewLoad, override, listOwner, paged, controllerDisposed>>
      /\ UNCHANGED <<selectionOwner, automatic, unswayed, choice, latestCreate, firstSelected>>
      /\ UNCHANGED <<deleting, renaming, erased, retitled, workspace>>
    BY DEF ServerKeeps, clientVars, fixedVars, selectionVars, mutationVars
<1>2. WsTyped /\ ChoiceInv /\ MutationsHold
    BY DEF WsInv
<1>3. StateTyped'
    BY <1>1, <1>2 DEF WsTyped, StateTyped
<1>4. WsTyped'
    BY <1>1, <1>2, <1>3, GetsKeepsTypes DEF WsTyped
<1>5. MutationsHold'
    BY <1>1, <1>2 DEF MutationsHold, Listed
<1>6. ChoiceInv' /\ (SelectionInv => SelectionInv')
    BY <1>1, <1>2, GetsKeepsSelection
<1>7. ASSUME ~controllerDisposed PROVE SelectionInv' /\ MutationInv' /\ ListInv'
  <2>1. SelectionInv /\ MutationInv /\ ListInv
      BY <1>7 DEF WsInv
  <2>2. MutationInv'
      BY <1>1, <1>2, <2>1, GetsKeepsMutation
  <2>3. ListInv'
      BY <1>1, <1>2, <2>1, GetsKeepsList
  <2> QED
      BY <1>6, <2>1, <2>2, <2>3
<1> QED
    BY <1>1, <1>4, <1>5, <1>6, <1>7 DEF WsInv

\* A page is read: it holds what the server holds, or leaves it behind its cursor.
LEMMA ServerListsKeeps ==
    ASSUME WsInv, NEW t \in Tasks, ServerLists(t)
    PROVE  WsInv'
<1>1. /\ Lists(task[t]) /\ task[t].reply = Nil
      /\ UNCHANGED <<ServerKeeps, existing, unborn, title>>
    BY DEF ServerLists, Waiting, Lists, ServerKeeps, serverVars
<1>2. WsTyped /\ ChoiceInv /\ MutationsHold /\ title \in [Chats -> Nat]
    BY DEF WsInv, WsTyped, StateTyped
<1>3. PICK r \in Answers :
        /\ Replies(t, r)
        /\ r.ok => /\ r \in Page /\ r.titles = title
                   /\ r.chats \subseteq existing
                   /\ task[t].op = "refresh" =>
                        \A c \in existing : c \in r.chats \/ c \in Behind(r.cursor)
                   /\ task[t].op = "more" =>
                        \A c \in existing \cap task[t].input : c \in r.chats \/ c \in Behind(r.cursor)
  <2>1. ASSUME NEW rest \in SUBSET existing, NEW r \in Pages(rest)
        PROVE  /\ r \in Page /\ r.titles = title /\ r.chats \subseteq existing
               /\ \A c \in rest : c \in r.chats \/ c \in Behind(r.cursor)
    <3>1. PICK p \in SUBSET rest : r = [ok |-> TRUE, chats |-> p, titles |-> title,
                                         cursor |-> IF p = rest THEN Nil ELSE rest \ p]
        BY DEF Pages
    <3>2. existing \subseteq Chats
        BY <1>2 DEF WsTyped, StateTyped
    <3>3. r.chats = p /\ r.titles = title /\ r.cursor = IF p = rest THEN Nil ELSE rest \ p
        BY <3>1
    <3>4. r \in Page
        BY <1>2, <3>1, <3>2 DEF Page
    <3>5. p = rest \/ rest \ p # Nil
        BY <3>2, WorkspaceAssumption
    <3> QED
        BY <3>3, <3>4, <3>5 DEF Behind
  <2>2. Failure \in Answers /\ ~Failure.ok /\ Page \subseteq Answers
      BY DEF Failure, Answers
  <2>3. CASE task[t].op = "refresh"
      BY <2>1, <2>2, <2>3 DEF ServerLists, Waiting
  <2>4. CASE task[t].op = "more"
      BY <2>1, <2>2, <2>4 DEF ServerLists, Waiting
  <2> QED
      BY <1>1, <2>3, <2>4 DEF Lists
<1>4. Gets(t, r)
    BY <1>1, <1>2, <1>3, RepliesKeeps DEF WsTyped, Lists, Creates, Loads
<1>5. existing \subseteq Chats /\ unborn \subseteq Chats \ existing /\ \A c \in Chats : title[c] <= title[c]
    BY <1>2 DEF WsTyped, StateTyped
<1>6. ASSUME MutationInv PROVE UpToDate(task[t], r)
  <2>1. \A c \in existing : c \notin erased /\ c \in Chats
      BY <1>5, <1>6 DEF MutationInv, GoneIsGone, Gone
  <2>2. \A c \in Chats : title[c] >= retitled[c]
      BY <1>2, <1>6 DEF MutationInv, TitlesGrow, WsTyped, StateTyped
  <2> QED
      BY <1>1, <1>3, <2>1, <2>2 DEF UpToDate, Lists, Creates, Mutates, Loads
<1>7. ASSUME ListInv, r # Nil, r.ok, listOwner = t, NEW c \in existing
      PROVE  \/ c \in r.chats \/ c \in Behind(r.cursor) \/ Creating(c)
             \/ task[t].op = "more" /\ c \in Listed(workspace)
  <2>1. CASE task[t].op = "refresh"
      BY <1>3, <1>7, <2>1
  <2>2. CASE task[t].op = "more"
    <3>1. t # Nil
        BY WorkspaceAssumption
    <3>2. task[t].input = workspace.cursor /\ paged
        BY <1>1, <1>7, <2>2, <3>1 DEF ListInv, MoreContinues
    <3>3. c \in Listed(workspace) \/ c \in Behind(task[t].input) \/ Creating(c)
        BY <1>7, <3>2 DEF ListInv, Reached
    <3>4. c \in Behind(task[t].input) => c \in task[t].input
        BY DEF Behind
    <3> QED
        BY <1>3, <1>7, <2>2, <3>3, <3>4
  <2> QED
      BY <1>1, <2>1, <2>2 DEF Lists
<1>8. task[t].phase = "requested"
    BY <1>1 DEF Lists
<1> QED
    BY <1>1, <1>2, <1>4, <1>5, <1>6, <1>7, <1>8, GetsKeeps

\* A conversation is created: it is new, and its answer will list it.
LEMMA ServerCreatesKeeps ==
    ASSUME WsInv, NEW t \in Tasks, ServerCreates(t)
    PROVE  WsInv'
<1>1. /\ Creates(task[t]) /\ task[t].reply = Nil /\ task[t].phase = "requested"
      /\ task[t].op = "create" /\ UNCHANGED <<ServerKeeps, title>>
    BY DEF ServerCreates, Waiting, Creates, ServerKeeps
<1>2. /\ WsTyped /\ existing \subseteq Chats /\ unborn \subseteq Chats \ existing
      /\ title \in [Chats -> Nat] /\ \A c \in Chats : title[c] <= title[c]
    BY DEF WsInv, WsTyped, StateTyped
<1>3. CASE UNCHANGED <<existing, unborn>> /\ Replies(t, Failure)
  <2>1. Failure \in Answers /\ ~Failure.ok
      BY DEF Failure, Answers
  <2>2. Gets(t, Failure)
      BY <1>1, <1>2, <1>3, <2>1, RepliesKeeps DEF WsTyped
  <2>3. UpToDate(task[t], Failure)
      BY <2>1 DEF UpToDate
  <2> QED
      BY <1>1, <1>2, <1>3, <2>1, <2>2, <2>3, GetsKeeps
<1>4. ASSUME NEW c \in unborn, existing' = existing \cup {c}, unborn' = unborn \ {c},
             Replies(t, [ok |-> TRUE, chat |-> c])
      PROVE  WsInv'
  <2> DEFINE r == [ok |-> TRUE, chat |-> c]
  <2>1. r \in [ok : {TRUE}, chat : Chats] /\ r.ok /\ r.chat = c
      BY <1>2
  <2>2. r \in Answers /\ r # Nil
      BY <2>1, WorkspaceAssumption DEF Answers
  <2> HIDE DEF r
  <2>3. Gets(t, r)
    <3>1. Replies(t, r)
        BY <1>4 DEF r
    <3> QED
        BY <1>1, <1>2, <2>1, <2>2, <3>1, RepliesKeeps DEF WsTyped, Lists, Creates, Loads
  <2>4. MutationInv => UpToDate(task[t], r)
      BY <1>1, <1>2, <2>1 DEF MutationInv, GoneIsGone, Gone, TitlesGrow, UpToDate, Lists,
         Creates, Mutates, Loads
  <2>5. ~Lists(task[t])
      BY <1>1 DEF Lists
  <2>6. /\ existing' \subseteq Chats /\ unborn' \subseteq Chats \ existing'
        /\ (existing \cup unborn)' \subseteq existing \cup unborn /\ unborn' \subseteq unborn
        /\ \A d \in existing' : d \in existing \/ (Creates(task[t]) /\ r # Nil /\ r.ok /\ r.chat = d)
      BY <1>1, <1>2, <1>4, <2>1, <2>2
  <2> QED
      BY <1>1, <1>2, <2>2, <2>3, <2>4, <2>5, <2>6, GetsKeeps
<1> QED
    BY <1>3, <1>4 DEF ServerCreates

\* A title is given, or nothing happens.
LEMMA ServerRenamesKeeps ==
    ASSUME WsInv, NEW t \in Tasks, ServerRenames(t)
    PROVE  WsInv'
<1>1. /\ Mutates(task[t], "rename") /\ task[t].reply = Nil /\ task[t].phase = "requested"
      /\ task[t].op = "rename" /\ UNCHANGED <<ServerKeeps, existing, unborn>>
    BY DEF ServerRenames, Waiting, Mutates, ServerKeeps
<1>2. /\ WsTyped /\ existing \subseteq Chats /\ unborn \subseteq Chats \ existing
      /\ title \in [Chats -> Nat] /\ retitled \in [Chats -> Nat]
      /\ \A c \in Chats : title[c] <= title[c]
    BY DEF WsInv, WsTyped, StateTyped
<1>3. ~Lists(task[t]) /\ ~Creates(task[t]) /\ ~Loads(task[t]) /\ ~Mutates(task[t], "delete")
    BY <1>1 DEF Lists, Creates, Loads, Mutates
<1>4. CASE UNCHANGED title /\ Replies(t, Failure)
  <2>1. Failure \in Answers /\ ~Failure.ok
      BY DEF Failure, Answers
  <2>2. Gets(t, Failure)
      BY <1>1, <1>2, <1>4, <2>1, RepliesKeeps DEF WsTyped
  <2>3. UpToDate(task[t], Failure)
      BY <2>1 DEF UpToDate
  <2> QED
      BY <1>1, <1>2, <1>4, <2>1, <2>2, <2>3, GetsKeeps
<1>5. ASSUME task[t].chat \in existing, title' = [title EXCEPT ![task[t].chat] = @ + 1],
             Replies(t, [ok |-> TRUE, title |-> title[task[t].chat] + 1])
      PROVE  WsInv'
  <2> DEFINE r == [ok |-> TRUE, title |-> title[task[t].chat] + 1]
  <2>1. /\ task[t].chat \in Chats
        /\ r \in [ok : {TRUE}, title : Nat] /\ r.ok /\ r.title = title[task[t].chat] + 1
      BY <1>2, <1>5
  <2>2. r \in Answers /\ r.title \in Nat
      BY <1>2, <2>1 DEF Answers
  <2>3. Replies(t, r)
      BY <1>5
  <2> HIDE DEF r
  <2>4. Gets(t, r)
      BY <1>1, <1>2, <1>3, <2>1, <2>2, <2>3, RepliesKeeps DEF WsTyped
  <2>5. /\ title' \in [Chats -> Nat] /\ title'[task[t].chat] = title[task[t].chat] + 1
        /\ \A c \in Chats : title[c] <= title'[c]
      BY <1>2, <1>5, <2>1
  <2>6. ASSUME MutationInv PROVE UpToDate(task[t], r)
    <3>1. task[t].chat \notin erased /\ retitled[task[t].chat] <= title[task[t].chat]
        BY <1>5, <2>1, <2>6 DEF MutationInv, GoneIsGone, Gone, TitlesGrow
    <3>2. title[task[t].chat] \in Nat /\ retitled[task[t].chat] \in Nat
        BY <1>2, <2>1
    <3> QED
        BY <1>3, <2>1, <2>5, <3>1, <3>2 DEF UpToDate
  <2> QED
      BY <1>1, <1>2, <1>3, <2>2, <2>4, <2>5, <2>6, GetsKeeps
<1> QED
    BY <1>4, <1>5 DEF ServerRenames

\* A conversation is deleted: the server has it no more.
LEMMA ServerDeletesKeeps ==
    ASSUME WsInv, NEW t \in Tasks, ServerDeletes(t)
    PROVE  WsInv'
<1>1. /\ Mutates(task[t], "delete") /\ task[t].reply = Nil /\ task[t].phase = "requested"
      /\ task[t].op = "delete" /\ UNCHANGED <<ServerKeeps, unborn, title>>
    BY DEF ServerDeletes, Waiting, Mutates, ServerKeeps
<1>2. /\ WsTyped /\ existing \subseteq Chats /\ unborn \subseteq Chats \ existing
      /\ title \in [Chats -> Nat] /\ \A c \in Chats : title[c] <= title[c]
    BY DEF WsInv, WsTyped, StateTyped
<1>3. ~Lists(task[t]) /\ ~Creates(task[t]) /\ ~Loads(task[t]) /\ ~Mutates(task[t], "rename")
    BY <1>1 DEF Lists, Creates, Loads, Mutates
<1>4. PICK r : /\ r \in Answers /\ Replies(t, r)
               /\ \/ ~r.ok /\ existing' = existing
                  \/ task[t].chat \in existing /\ existing' = existing \ {task[t].chat}
  <2>1. Failure \in Answers /\ ~Failure.ok /\ [ok |-> TRUE] \in Answers
      BY DEF Failure, Answers
  <2> QED
      BY <2>1 DEF ServerDeletes
<1>5. Gets(t, r)
    BY <1>1, <1>2, <1>3, <1>4, RepliesKeeps DEF WsTyped
<1>6. MutationInv => UpToDate(task[t], r)
    BY <1>1, <1>2, <1>3, <1>4 DEF UpToDate
<1>7. /\ existing' \subseteq Chats /\ unborn' \subseteq Chats \ existing'
      /\ (existing \cup unborn)' \subseteq existing \cup unborn /\ existing' \subseteq existing
    BY <1>1, <1>2, <1>4
<1> QED
    BY <1>1, <1>2, <1>3, <1>4, <1>5, <1>6, <1>7, GetsKeeps

\* A conversation is read: it is there, under its last title.
LEMMA ServerLoadsKeeps ==
    ASSUME WsInv, NEW t \in Tasks, ServerLoads(t)
    PROVE  WsInv'
<1>1. /\ Loads(task[t]) /\ task[t].reply = Nil /\ task[t].phase = "loading"
      /\ UNCHANGED <<ServerKeeps, existing, unborn, title>>
    BY DEF ServerLoads, Loads, ServerKeeps, serverVars
<1>2. /\ WsTyped /\ existing \subseteq Chats /\ unborn \subseteq Chats \ existing
      /\ title \in [Chats -> Nat] /\ retitled \in [Chats -> Nat]
      /\ \A c \in Chats : title[c] <= title[c]
    BY DEF WsInv, WsTyped, StateTyped
<1>3. ~Lists(task[t]) /\ ~Creates(task[t]) /\ ~Mutates(task[t], "delete") /\ ~Mutates(task[t], "rename")
    BY <1>1 DEF Lists, Creates, Mutates
<1>4. task[t].op # "rename"
    BY <1>1, <1>2 DEF WsTyped, CallsFit, Fits, Selects
<1>5. PICK r : /\ r \in Answers /\ Replies(t, r)
               /\ r.ok => task[t].chat \in existing /\ r.title = title[task[t].chat] /\ r.title \in Nat
  <2>1. Failure \in Answers /\ ~Failure.ok
      BY DEF Failure, Answers
  <2>2. ASSUME task[t].chat \in existing
        PROVE  LET r == [ok |-> TRUE, title |-> title[task[t].chat]] IN
               r \in Answers /\ r.title = title[task[t].chat] /\ r.title \in Nat
      BY <1>2, <2>2 DEF Answers
  <2> QED
      BY <1>1, <2>1, <2>2 DEF ServerLoads
<1>6. Gets(t, r)
    BY <1>1, <1>2, <1>3, <1>4, <1>5, RepliesKeeps DEF WsTyped, Loads
<1>7. ASSUME MutationInv PROVE UpToDate(task[t], r)
  <2>1. ASSUME r.ok PROVE ~Gone(task[t].chat)
      BY <1>2, <1>5, <1>7, <2>1 DEF MutationInv, GoneIsGone
  <2>2. ASSUME r.ok PROVE Recent(task[t].chat, r.title)
    <3>1. task[t].chat \in Chats /\ r.title = title[task[t].chat]
        BY <1>2, <1>5, <2>2
    <3>2. retitled[task[t].chat] <= title[task[t].chat]
        BY <1>7, <3>1 DEF MutationInv, TitlesGrow
    <3>3. ASSUME NEW s \in Tasks, Told(task[s], "rename"), task[s].chat = task[t].chat
          PROVE  task[s].reply.title <= title[task[t].chat]
        BY <1>7, <3>3 DEF MutationInv, RenamedOnServer, Told, Mutates
    <3>4. \A s \in Tasks : Told(task[s], "rename") => task[s].reply.title \in Nat
        BY <1>2 DEF WsTyped, CallsFit, Fits, Told, Mutates
    <3>5. title[task[t].chat] \in Nat /\ retitled[task[t].chat] \in Nat
        BY <1>2, <3>1
    <3> QED
        BY <3>1, <3>2, <3>3, <3>4, <3>5 DEF Recent
  <2> QED
      BY <1>3, <2>1, <2>2 DEF UpToDate
<1> QED
    BY <1>1, <1>2, <1>3, <1>5, <1>6, <1>7, GetsKeeps

-----------------------------------------------------------------------------
(* What most steps have in common: one call moves on, and has no answer      *)
(* afterwards.                                                               *)

\* The call t becomes k.
Moves(t, k) ==
    /\ k \in Calls /\ Fits(k) /\ CallsFit'
    /\ task'[t] = k
    /\ \A s \in Tasks : s # t => task'[s] = task[s]

\* A call that fits moves.
LEMMA MovesTo ==
    ASSUME CallsFit, NEW t \in Tasks, NEW k \in Calls, Fits(k), task' = [task EXCEPT ![t] = k]
    PROVE  Moves(t, k)
BY CallsKept DEF Moves

\* A call returns.
LEMMA FinishMoves ==
    ASSUME CallsFit, NEW t \in Tasks, Finish(t)
    PROVE  Moves(t, Finished(task[t]))
<1>1. task[t] \in Calls /\ task' = [task EXCEPT ![t] = Finished(task[t])]
    BY DEF CallsFit, Finish
<1> QED
    BY <1>1, FinishedCall, MovesTo

\* The answer, if it has one, is used up, and what the client loads is not older.
LEMMA QuietKeepsMutation ==
    ASSUME WsTyped, MutationInv, NEW t \in Tasks, NEW k, Moves(t, k),
           k.reply = Nil, Mutates(k, "rename") => k.chat \notin unborn,
           UNCHANGED <<viewed, erased, retitled, existing, unborn, title>>,
           viewLoad' = Nil \/ (viewLoad' = t /\ override' = Nil)
               \/ (viewLoad' = viewLoad /\ override' = override /\ viewLoad # t),
           listOwner' \in {Nil, listOwner, t}
    PROVE  MutationInv'
<1>1. task'[t] = k /\ ~Answered(k) /\ \A s \in Tasks : s # t => task'[s] = task[s]
    BY DEF Moves, Answered
<1>2. \A c : Gone(c)' => Gone(c)
    BY <1>1 DEF Gone, Told
<1>3. \A c, n : Recent(c, n) => Recent(c, n)'
    BY <1>1 DEF Recent, Told
<1>4. viewLoad \in {Nil} \cup Tasks /\ listOwner \in {Nil} \cup Tasks
    BY DEF WsTyped, StateTyped
<1>5. DeletedOnServer' /\ CreatedIsNew' /\ LoadedIsRecent'
    BY <1>1 DEF MutationInv, DeletedOnServer, CreatedIsNew, LoadedIsRecent
<1>6. GoneIsGone'
    BY <1>1, <1>2, <1>4 DEF MutationInv, GoneIsGone
<1>7. RenamedOnServer'
    BY <1>1 DEF MutationInv, RenamedOnServer
<1>8. TitlesGrow' /\ ViewIsRecent'
    BY <1>3 DEF MutationInv, TitlesGrow, ViewIsRecent
<1>9. PageIsRecent'
    BY <1>1, <1>4 DEF MutationInv, PageIsRecent
<1>10. LoadIsRecent'
    BY <1>1, <1>3, <1>4 DEF MutationInv, LoadIsRecent
<1> QED
    BY <1>5, <1>6, <1>7, <1>8, <1>9, <1>10 DEF MutationInv

\* A step that lists no less, and brings no page, keeps all within reach.
LEMMA QuietKeepsList ==
    ASSUME WsTyped, ListInv, NEW t \in Tasks, NEW k, Moves(t, k),
           k.reply = Nil, UNCHANGED <<existing, paged>>, workspace'.cursor = workspace.cursor,
           Listed(workspace) \subseteq Listed(workspace'),
           \A c \in existing : Creates(task[t]) /\ Answered(task[t]) /\ task[t].reply.chat = c =>
               c \in Listed(workspace') /\ listOwner' = Nil,
           listOwner' = Nil \/ listOwner' = listOwner \/ listOwner' = t,
           listOwner' = t /\ k.op = "more" => k.phase # "requested" \/ (k.input = workspace.cursor /\ paged)
    PROVE  ListInv'
<1>1. task'[t] = k /\ ~Answered(k) /\ \A s \in Tasks : s # t => task'[s] = task[s]
    BY DEF Moves, Answered
<1>2. listOwner \in {Nil} \cup Tasks /\ listOwner' \in {Nil} \cup Tasks
    BY DEF WsTyped, StateTyped
<1>3. \A c \in existing : Creating(c) => Creating(c)' \/ (c \in Listed(workspace') /\ listOwner' = Nil)
    BY <1>1 DEF Creating
<1>4. \A w : Listed(w)' = Listed(w')
    BY DEF Listed
<1>5. Reached' /\ CursorPaged'
    BY <1>3, <1>4 DEF ListInv, Reached, CursorPaged
<1>6. MoreContinues'
    BY <1>1, <1>2 DEF ListInv, MoreContinues, Lists
<1>7. PageReaches'
    BY <1>1, <1>2, <1>3, <1>4 DEF ListInv, PageReaches
<1> QED
    BY <1>5, <1>6, <1>7 DEF ListInv

\* Nobody else is meant by the selection afterwards.
LEMMA ChoiceKept ==
    ASSUME WsTyped, ChoiceInv, NEW t \in Tasks, NEW k, Moves(t, k), choice' = choice,
           task[t].phase # "idle" => k.op = task[t].op /\ k.saw = task[t].saw,
           k.phase # "idle",
           unswayed' \subseteq unswayed \cup {t},
           t \in unswayed' => t \in unswayed \/ k.saw = choice,
           \/ selectionOwner' = Nil \/ selectionOwner' = selectionOwner
           \/ selectionOwner' = t /\ k.saw = choice /\ k.op # "select"
    PROVE  ChoiceInv'
<1>1. task'[t] = k /\ \A s \in Tasks : s # t => task'[s] = task[s]
    BY DEF Moves
<1>2. selectionOwner \in {Nil} \cup Tasks /\ unswayed \subseteq Tasks
    BY DEF WsTyped, StateTyped
<1>3. UnswayedSaw'
    BY <1>1, <1>2 DEF ChoiceInv, UnswayedSaw
<1>4. OwnerBegan' /\ UserChoiceWins'
  <2>1. CASE selectionOwner' = Nil
      BY <2>1 DEF OwnerBegan, UserChoiceWins
  <2>2. CASE selectionOwner' = t /\ k.saw = choice /\ k.op # "select"
      BY <1>1, <2>2 DEF OwnerBegan, UserChoiceWins
  <2>3. CASE selectionOwner' = selectionOwner /\ selectionOwner # Nil
    <3>1. task[selectionOwner].phase # "idle" /\ selectionOwner \in Tasks
        BY <1>2, <2>3 DEF ChoiceInv, OwnerBegan
    <3>2. /\ task'[selectionOwner].op = task[selectionOwner].op
          /\ task'[selectionOwner].saw = task[selectionOwner].saw
          /\ task'[selectionOwner].phase # "idle"
        BY <1>1, <3>1
    <3> QED
        BY <2>3, <3>2 DEF ChoiceInv, OwnerBegan, UserChoiceWins
  <2> QED
      BY <2>1, <2>2, <2>3
<1> QED
    BY <1>3, <1>4 DEF ChoiceInv

\* A step that leaves the selection alone.
LEMMA PlaceKept ==
    ASSUME WsTyped, ChoiceInv, SelectionInv, NEW t \in Tasks, NEW k, Moves(t, k), k.reply = Nil,
           UNCHANGED <<viewed, viewLoad, selectionOwner, controllerDisposed>>,
           SamePlace(workspace', workspace),
           task[t].phase # "loading",
           task[t].phase = "returning" => k.op = task[t].op /\ k.phase = "done",
           task[t].phase # "done"
    PROVE  SelectionInv'
<1>1. task'[t] = k /\ ~Answered(k) /\ \A s \in Tasks : s # t => task'[s] = task[s]
    BY DEF Moves, Answered
<1>2. selectionOwner \in {Nil} \cup Tasks /\ viewLoad \in {Nil} \cup Tasks
    BY DEF WsTyped, StateTyped
<1>3. SelectionIsDisplayed'
    BY DEF SelectionInv, SelectionIsDisplayed, SamePlace
<1>4. OwnerActs' /\ CommittedIsDisplayed'
    BY <1>1, <1>2 DEF SelectionInv, OwnerActs, CommittedIsDisplayed, Selects
<1>5. LoadIsOwners'
    BY <1>1, <1>2 DEF SelectionInv, LoadIsOwners, SamePlace, Loads
<1> QED
    BY <1>3, <1>4, <1>5 DEF SelectionInv

\* The list takes over only what is not deleted, under a title that is recent.
LEMMA ListedKept ==
    ASSUME MutationsHold, UNCHANGED <<erased, retitled>>,
           \A c \in Chats : \/ workspace'.listed[c] \in {Nil, workspace.listed[c]}
                            \/ c \notin erased /\ workspace'.listed[c] >= retitled[c]
    PROVE  MutationsHold'
BY DEF MutationsHold, Listed

\* A call begins, or fails at once.
LEMMA BeginMoves ==
    ASSUME WsTyped, NEW t \in Tasks, NEW op \in WorkspaceOps, NEW c \in {Nil} \cup Chats,
           op \in {"rename", "delete"} => c \in Chats,
           task' = [task EXCEPT ![t] = Begun(op, c)]
    PROVE  Moves(t, Begun(op, c))
<1>1. choice \in {Nil} \cup Tasks /\ CallsFit
    BY DEF WsTyped, StateTyped
<1>2. Fits(Begun(op, c))
    BY <1>1, BegunCall DEF Fits, Loads, Answered, Mutates
<1> QED
    BY <1>1, <1>2, BegunCall, MovesTo

\* A call that fails at once.
LEMMA FailsMoves ==
    ASSUME WsTyped, NEW t \in Tasks, NEW op \in WorkspaceOps, FailsAtOnce(t, op)
    PROVE  \E k : /\ Moves(t, k) /\ k.op = op /\ k.phase = "done" /\ k.saw = choice
                  /\ k.reply = Nil
<1>1. choice \in {Nil} \cup Tasks /\ CallsFit
    BY DEF WsTyped, StateTyped
<1>2. Begun(op, Nil) \in Calls /\ Begun(op, Nil).op = op /\ Begun(op, Nil).saw = choice
    BY <1>1, BegunCall
<1>3. task' = [task EXCEPT ![t] = Finished(Begun(op, Nil))]
    BY DEF FailsAtOnce
<1> QED
    BY <1>1, <1>2, <1>3, FinishedCall, MovesTo

\* A call that selects becomes the owner of the selection and of the pending load.
LEMMA SelectKeeps ==
    ASSUME WsTyped, NEW t \in Tasks, NEW call \in Calls, Selects(call), NEW c \in Chats,
           NEW w \in Workspaces, Select(t, call, c, w)
    PROVE  /\ \E k : /\ Moves(t, k) /\ k.op = call.op /\ k.saw = call.saw /\ k.reply = Nil
                     /\ k.phase \in {"loading", "done"}
           /\ workspace' \in Workspaces /\ SameList(workspace', w)
           /\ selectionOwner' = t /\ viewLoad' \in {Nil, t} /\ override' = Nil
           /\ SelectionInv /\ ~controllerDisposed /\ UNCHANGED <<controllerDisposed, viewed>>
              /\ w.selected = workspace.selected => SelectionInv'
<1>1. selectionOwner' = t /\ override' = Nil /\ CallsFit /\ t # Nil
    BY WorkspaceAssumption DEF Select, WsTyped
<1>2. CASE /\ workspace' = SelectionFailed(w)
           /\ task' = [task EXCEPT ![t] = Finished(call)]
           /\ viewLoad' = Nil
  <2>1. Moves(t, Finished(call))
      BY <1>1, <1>2, FinishedCall, MovesTo
  <2>2. workspace' \in Workspaces /\ SameList(workspace', w) /\ workspace'.selected = w.selected
      BY <1>2, SelectionFailedFields
  <2>3. ASSUME SelectionInv, ~controllerDisposed, UNCHANGED <<controllerDisposed, viewed>>,
               w.selected = workspace.selected
        PROVE  SelectionInv'
    <3>1. task'[t] = Finished(call)
        BY <2>1 DEF Moves
    <3>2. SelectionIsDisplayed' /\ OwnerActs' /\ LoadIsOwners' /\ CommittedIsDisplayed'
        BY <1>1, <1>2, <2>2, <2>3, <3>1, FinishedCall DEF SelectionInv, SelectionIsDisplayed,
           OwnerActs, LoadIsOwners, CommittedIsDisplayed, Selects, Loaded
    <3> QED
        BY <3>2 DEF SelectionInv
  <2> QED
      BY <1>1, <1>2, <2>1, <2>2, <2>3, FinishedCall
<1>3. CASE /\ workspace' = [w EXCEPT !.pending = c, !.selection = "loading"]
           /\ task' = [task EXCEPT ![t] = [call EXCEPT !.phase = "loading", !.chat = c,
                                                       !.reply = Nil]]
           /\ viewLoad' = t
  <2> DEFINE a == [call EXCEPT !.phase = "loading"]
             b == [a EXCEPT !.chat = c]
             k == [b EXCEPT !.reply = Nil]
  <2>1. a \in Calls /\ a.phase = "loading" /\ a.op = call.op /\ a.saw = call.saw
      BY DEF Calls, Phases
  <2>2. task' = [task EXCEPT ![t] = k]
      BY <1>3
  <2> HIDE DEF a
  <2>3. b \in Calls /\ b.phase = "loading" /\ b.op = call.op /\ b.saw = call.saw /\ b.chat = c
      BY <2>1 DEF Calls
  <2> HIDE DEF b
  <2>4. k \in Calls /\ k.phase = "loading" /\ k.op = call.op /\ k.saw = call.saw /\ k.chat = c
        /\ k.reply = Nil
      BY <2>3 DEF Calls, Answers
  <2> HIDE DEF k
  <2>5. Fits(k)
      BY <2>4 DEF Fits, Selects, Loads, Answered, Mutates
  <2>6. Moves(t, k)
      BY <1>1, <2>2, <2>4, <2>5, MovesTo
  <2>7. /\ workspace' \in Workspaces /\ SameList(workspace', w)
        /\ workspace'.pending = c /\ workspace'.selected = w.selected
      BY <1>3, PendingFields DEF Places, Selections
  <2>8. ASSUME SelectionInv, ~controllerDisposed, UNCHANGED <<controllerDisposed, viewed>>,
               w.selected = workspace.selected
        PROVE  SelectionInv'
    <3>1. task'[t] = k
        BY <2>6 DEF Moves
    <3>2. SelectionIsDisplayed' /\ OwnerActs' /\ LoadIsOwners' /\ CommittedIsDisplayed'
        BY <1>1, <1>3, <2>4, <2>7, <2>8, <3>1 DEF SelectionInv, SelectionIsDisplayed,
           OwnerActs, LoadIsOwners, CommittedIsDisplayed, Selects, Loads, Loaded
    <3> QED
        BY <3>2 DEF SelectionInv
  <2> QED
      BY <1>1, <1>3, <2>4, <2>6, <2>7, <2>8
<1> QED
    BY <1>2, <1>3 DEF Select

-----------------------------------------------------------------------------
(* The list.                                                               *)

\* A refresh begins; it may cancel the selection that an earlier one began.
LEMMA RefreshKeeps ==
    ASSUME WsInv, NEW t \in Tasks, Refresh(t)
    PROVE  WsInv'
<1> DEFINE cancels == automatic # Nil /\ automatic = selectionOwner
           stops == cancels /\ workspace.pending # Nil
<1>1. /\ "refresh" \in WorkspaceOps /\ ~controllerDisposed /\ task[t].phase = "idle"
      /\ listOwner' = t /\ unswayed' = unswayed \cup {t}
      /\ automatic' \in {Nil, automatic}
      /\ UNCHANGED <<existing, unborn, title, viewed, firstSelected, controllerDisposed, paged,
                     choice, latestCreate, deleting, renaming, erased, retitled>>
    BY DEF Refresh, CanBegin, serverVars, fixedVars, mutationVars
<1>2. \/ selectionOwner' = Nil /\ viewLoad' = Nil /\ override' = Nil
      \/ ~stops /\ UNCHANGED <<selectionOwner, viewLoad, override>>
    BY DEF Refresh
<1>3. WsTyped /\ StateTyped /\ ChoiceInv /\ MutationsHold /\ SelectionInv /\ MutationInv /\ ListInv
    BY <1>1 DEF WsInv, WsTyped
<1>4. /\ workspace' \in Workspaces
      /\ workspace'.listed = workspace.listed /\ workspace'.cursor = workspace.cursor
      /\ workspace'.selected = workspace.selected
      /\ ~stops => workspace'.pending = workspace.pending
  <2> DEFINE sel == IF workspace.selected = Nil THEN "idle" ELSE "ready"
             a == [workspace EXCEPT !.pending = Nil]
             b == [a EXCEPT !.status = "loading"]
             d == [b EXCEPT !.selection = sel]
             e == [workspace EXCEPT !.status = "loading"]
             w == IF stops THEN d ELSE e
  <2>1. workspace' \in {w, [w EXCEPT !.status = "error"]}
      BY DEF Refresh, ListFailed
  <2>2. workspace \in Workspaces /\ Nil \in Places /\ {"loading", "error"} \subseteq Statuses
        /\ sel \in Selections
      BY <1>3 DEF StateTyped, Places, Statuses, Selections
  <2>3. /\ e \in Workspaces /\ e.listed = workspace.listed /\ e.cursor = workspace.cursor
        /\ SamePlace(e, workspace)
      BY <2>2, ReplacedStatus
  <2>4. a \in Workspaces /\ SameList(a, workspace) /\ a.selected = workspace.selected
      BY <2>2, ReplacedPending
  <2> HIDE DEF a, sel
  <2>5. b \in Workspaces /\ b.listed = a.listed /\ b.cursor = a.cursor /\ b.selected = a.selected
      BY <2>2, <2>4, ReplacedStatus DEF SamePlace
  <2> HIDE DEF b
  <2>6. d \in Workspaces /\ SameList(d, b) /\ d.selected = b.selected
      BY <2>2, <2>5, ReplacedSelection DEF SamePlace
  <2> HIDE DEF d, e, stops
  <2>7. /\ w \in Workspaces
        /\ w.listed = workspace.listed /\ w.cursor = workspace.cursor
        /\ w.selected = workspace.selected
        /\ ~stops => w.pending = workspace.pending
      BY <2>3, <2>4, <2>5, <2>6 DEF SameList, SamePlace
  <2> HIDE DEF w
  <2>8. LET x == [w EXCEPT !.status = "error"] IN
        x \in Workspaces /\ SamePlace(x, w) /\ x.listed = w.listed /\ x.cursor = w.cursor
      BY <2>2, <2>7, ReplacedStatus
  <2> QED
      BY <2>1, <2>7, <2>8 DEF SamePlace
<1> HIDE DEF stops
<1>5. PICK k : /\ Moves(t, k) /\ k.op = "refresh" /\ k.saw = choice /\ k.reply = Nil
               /\ k.phase \in {"requested", "done"}
  <2>1. task' = [task EXCEPT ![t] = Begun("refresh", Nil)] \/ FailsAtOnce(t, "refresh")
      BY DEF Refresh
  <2>2. CASE task' = [task EXCEPT ![t] = Begun("refresh", Nil)]
    <3>1. choice \in {Nil} \cup Tasks
        BY <1>3 DEF StateTyped
    <3>2. /\ Begun("refresh", Nil).op = "refresh" /\ Begun("refresh", Nil).phase = "requested"
          /\ Begun("refresh", Nil).saw = choice /\ Begun("refresh", Nil).reply = Nil
        BY <1>1, <3>1, BegunCall
    <3>3. Moves(t, Begun("refresh", Nil))
        BY <1>1, <1>3, <2>2, BeginMoves
    <3> QED
        BY <3>2, <3>3
  <2>3. CASE FailsAtOnce(t, "refresh")
      BY <1>1, <1>3, <2>3, FailsMoves
  <2> QED
      BY <2>1, <2>2, <2>3
<1>6. ~Mutates(k, "rename") /\ ~Mutates(k, "delete") /\ ~Creates(task[t])
    BY <1>1, <1>5 DEF Mutates, Creates
<1>7. MutationsAlone'
  <2>1. \A s \in Tasks : \A op \in {"rename", "delete"} :
            Mutates(task'[s], op) => Mutates(task[s], op) /\ task'[s].chat = task[s].chat
      BY <1>5, <1>6 DEF Moves
  <2> QED
      BY <1>1, <1>3, <2>1, AloneKept DEF WsTyped
<1>8. WsTyped'
  <2>1. StateTyped'
      BY <1>1, <1>2, <1>3, <1>4 DEF StateTyped
  <2> QED
      BY <1>5, <1>7, <2>1 DEF WsTyped, Moves
<1>9. ChoiceInv'
    BY <1>1, <1>2, <1>3, <1>5, ChoiceKept
<1>10. MutationsHold'
    BY <1>1, <1>3, <1>4, ListedKept
<1>11. viewLoad # t
    BY <1>1, <1>3, WorkspaceAssumption DEF SelectionInv, LoadIsOwners, Loads
<1>12. SelectionInv'
  <2>1. CASE selectionOwner' = Nil /\ viewLoad' = Nil
      BY <1>1, <1>3, <1>4, <2>1 DEF SelectionInv, SelectionIsDisplayed, OwnerActs, LoadIsOwners,
         CommittedIsDisplayed
  <2>2. CASE ~stops /\ UNCHANGED <<selectionOwner, viewLoad>>
      BY <1>1, <1>3, <1>4, <1>5, <2>2, PlaceKept DEF SamePlace
  <2> QED
      BY <1>2, <2>1, <2>2
<1>13. MutationInv'
    BY <1>1, <1>2, <1>3, <1>5, <1>6, <1>11, QuietKeepsMutation
<1>14. ListInv'
  <2>1. Listed(workspace) \subseteq Listed(workspace')
      BY <1>4 DEF Listed
  <2> QED
      BY <1>1, <1>3, <1>4, <1>5, <1>6, <2>1, QuietKeepsList
<1> QED
    BY <1>8, <1>9, <1>10, <1>12, <1>13, <1>14 DEF WsInv

\* A further page is asked for, of the cursor that the list has.
LEMMA LoadMoreKeeps ==
    ASSUME WsInv, NEW t \in Tasks, LoadMore(t)
    PROVE  WsInv'
<1>1. /\ "more" \in WorkspaceOps /\ ~controllerDisposed /\ task[t].phase = "idle"
      /\ listOwner' = t /\ workspace.cursor # Nil
      /\ UNCHANGED <<existing, unborn, title, viewed, viewLoad, override, firstSelected,
                     controllerDisposed, paged, selectionOwner, automatic, unswayed,
                     choice, latestCreate, deleting, renaming, erased, retitled>>
    BY DEF LoadMore, CanBegin, serverVars, clientVars, selectionVars, fixedVars, mutationVars
<1>2. WsTyped /\ StateTyped /\ ChoiceInv /\ MutationsHold /\ SelectionInv /\ MutationInv /\ ListInv
    BY <1>1 DEF WsInv, WsTyped
<1>3. /\ workspace' \in Workspaces
      /\ workspace'.listed = workspace.listed /\ workspace'.cursor = workspace.cursor
      /\ SamePlace(workspace', workspace)
  <2>1. PICK l \in Statuses : workspace' = [workspace EXCEPT !.status = l]
      BY DEF LoadMore, ListFailed, Statuses
  <2>2. workspace \in Workspaces
      BY <1>2 DEF StateTyped
  <2> QED
      BY <2>1, <2>2, ReplacedStatus
<1>4. PICK k : /\ Moves(t, k) /\ k.op = "more" /\ k.saw = choice /\ k.reply = Nil
               /\ k.phase \in {"requested", "done"}
               /\ k.phase = "requested" => k.input = workspace.cursor
  <2> DEFINE n == Begun("more", Nil)
             b == [n EXCEPT !.input = workspace.cursor]
  <2>1. task' = [task EXCEPT ![t] = b] \/ FailsAtOnce(t, "more")
      BY DEF LoadMore
  <2>2. choice \in {Nil} \cup Tasks /\ workspace.cursor \in Inputs /\ CallsFit
      BY <1>2, WorkspaceFields DEF StateTyped, Inputs, Cursors, WsTyped
  <2>3. n \in Calls /\ n.op = "more" /\ n.phase = "requested" /\ n.saw = choice /\ n.reply = Nil
      BY <1>1, <2>2, BegunCall
  <2> HIDE DEF n
  <2>4. b \in Calls /\ b.op = "more" /\ b.phase = "requested" /\ b.saw = choice /\ b.reply = Nil
        /\ b.input = workspace.cursor
      BY <2>2, <2>3 DEF Calls
  <2> HIDE DEF b
  <2>5. Fits(b)
      BY <2>4 DEF Fits, Loads, Answered, Mutates
  <2>6. CASE task' = [task EXCEPT ![t] = b]
      BY <2>2, <2>4, <2>5, <2>6, MovesTo
  <2>7. CASE FailsAtOnce(t, "more")
      BY <1>1, <1>2, <2>7, FailsMoves
  <2> QED
      BY <2>1, <2>6, <2>7
<1>5. ~Mutates(k, "rename") /\ ~Mutates(k, "delete") /\ ~Creates(task[t])
    BY <1>1, <1>4 DEF Mutates, Creates
<1>6. MutationsAlone'
  <2>1. \A s \in Tasks : \A op \in {"rename", "delete"} :
            Mutates(task'[s], op) => Mutates(task[s], op) /\ task'[s].chat = task[s].chat
      BY <1>4, <1>5 DEF Moves
  <2> QED
      BY <1>1, <1>2, <2>1, AloneKept DEF WsTyped
<1>7. WsTyped'
  <2>1. StateTyped'
      BY <1>1, <1>2, <1>3 DEF StateTyped
  <2> QED
      BY <1>4, <1>6, <2>1 DEF WsTyped, Moves
<1>8. ChoiceInv'
    BY <1>1, <1>2, <1>4, ChoiceKept
<1>9. MutationsHold'
    BY <1>1, <1>2, <1>3, ListedKept
<1>10. viewLoad # t /\ paged
    BY <1>1, <1>2, WorkspaceAssumption
       DEF SelectionInv, LoadIsOwners, Loads, ListInv, CursorPaged
<1>11. SelectionInv'
    BY <1>1, <1>2, <1>3, <1>4, PlaceKept
<1>12. MutationInv'
    BY <1>1, <1>2, <1>4, <1>5, <1>10, QuietKeepsMutation
<1>13. ListInv'
  <2>1. Listed(workspace) \subseteq Listed(workspace')
      BY <1>3 DEF Listed
  <2> QED
      BY <1>1, <1>2, <1>3, <1>4, <1>5, <1>10, <2>1, QuietKeepsList
<1> QED
    BY <1>7, <1>8, <1>9, <1>11, <1>12, <1>13 DEF WsInv

\* A first page replaces the list, unless its request is stale.
LEMMA RefreshSettlesKeeps ==
    ASSUME WsInv, NEW t \in Tasks, RefreshSettles(t)
    PROVE  WsInv'
<1> DEFINE r == task[t].reply
           applies == CurrentList(t) /\ r.ok
           listed == [c \in Chats |-> IF c \in r.chats THEN r.titles[c] ELSE Nil]
<1>1. /\ task[t].op = "refresh" /\ task[t].phase = "requested" /\ r # Nil
      /\ UNCHANGED <<existing, unborn, title, viewed, viewLoad, override, firstSelected,
                     controllerDisposed, listOwner, selectionOwner, automatic, unswayed,
                     choice, latestCreate, deleting, renaming, erased, retitled>>
    BY DEF RefreshSettles, serverVars, clientVars, selectionVars, mutationVars
<1>2. WsTyped /\ StateTyped /\ ChoiceInv /\ MutationsHold /\ task[t] \in Calls
    BY DEF WsInv, WsTyped, CallsFit
<1>3. Lists(task[t]) /\ (applies => Answered(task[t]) /\ r \in Page /\ ~controllerDisposed /\ listOwner = t)
    BY <1>1, <1>2 DEF WsTyped, CallsFit, Fits, Lists, Answered, CurrentList
<1>4. PICK k : /\ Moves(t, k) /\ k.op = "refresh" /\ k.saw = task[t].saw /\ k.reply = Nil
               /\ k.phase \in {"done", "refreshed"}
  <2> DEFINE b == [task[t] EXCEPT !.phase = "refreshed"]
             m == [b EXCEPT !.reply = Nil]
  <2>1. Finish(t) \/ task' = [task EXCEPT ![t] = m]
      BY DEF RefreshSettles
  <2>2. CASE Finish(t)
      BY <1>1, <1>2, <2>2, FinishMoves, FinishedCall DEF WsTyped
  <2>3. CASE task' = [task EXCEPT ![t] = m]
    <3>1. m \in Calls /\ m.op = "refresh" /\ m.phase = "refreshed" /\ m.saw = task[t].saw /\ m.reply = Nil
      <4>1. "refreshed" \in Phases /\ Nil \in Answers
          BY DEF Phases, Answers
      <4>2. b \in Calls /\ b.op = task[t].op /\ b.phase = "refreshed" /\ b.saw = task[t].saw
          BY <1>2, <4>1 DEF Calls
      <4> HIDE DEF b
      <4> QED
          BY <1>1, <4>1, <4>2 DEF Calls
    <3> HIDE DEF m
    <3>2. Fits(m)
        BY <3>1 DEF Fits, Loads, Answered, Mutates
    <3> QED
        BY <1>2, <2>3, <3>1, <3>2, MovesTo DEF WsTyped
  <2> QED
      BY <2>1, <2>2, <2>3
<1>5. /\ workspace' \in Workspaces /\ SamePlace(workspace', workspace)
      /\ \/ /\ applies /\ paged' = TRUE
            /\ workspace'.listed = listed /\ workspace'.cursor = r.cursor
         \/ /\ paged' = paged
            /\ workspace'.listed = workspace.listed /\ workspace'.cursor = workspace.cursor
  <2>1. workspace \in Workspaces
      BY <1>2 DEF StateTyped
  <2>2. CASE workspace' = workspace /\ paged' = paged
      BY <2>1, <2>2 DEF SamePlace
  <2>3. CASE workspace' = ListFailed(workspace) /\ paged' = paged
    <3>1. workspace' = [workspace EXCEPT !.status = "error"] /\ "error" \in Statuses
        BY <2>3 DEF ListFailed, Statuses
    <3> QED
        BY <2>1, <2>3, <3>1, ReplacedStatus
  <2>4. ASSUME applies, paged' = TRUE,
               LET w == [workspace EXCEPT !.listed = listed, !.status = "ready", !.cursor = r.cursor]
               IN  workspace' \in {w, [w EXCEPT !.selection = "empty"]}
        PROVE  /\ workspace' \in Workspaces /\ SamePlace(workspace', workspace)
               /\ workspace'.listed = listed /\ workspace'.cursor = r.cursor
    <3> DEFINE a == [workspace EXCEPT !.listed = listed]
               b == [a EXCEPT !.status = "ready"]
               w == [b EXCEPT !.cursor = r.cursor]
               e == [w EXCEPT !.selection = "empty"]
    <3>1. workspace' = w \/ workspace' = e
        BY <2>4
    <3>2. /\ listed \in Listings /\ r.cursor \in Cursors /\ "ready" \in Statuses
          /\ "empty" \in Selections
      <4>1. r.titles \in [Chats -> Nat] /\ r.cursor \in {Nil} \cup SUBSET Chats
          BY <1>3, <2>4 DEF Page
      <4>2. \A c \in Chats : r.titles[c] \in {Nil} \cup Nat
          BY <4>1
      <4> QED
          BY <4>1, <4>2 DEF Listings, Cursors, Statuses, Selections
    <3> HIDE DEF listed
    <3>3. a \in Workspaces /\ SamePlace(a, workspace) /\ a.listed = listed
        BY <2>1, <3>2, ReplacedListed
    <3> HIDE DEF a
    <3>4. b \in Workspaces /\ SamePlace(b, a) /\ b.listed = a.listed
        BY <3>2, <3>3, ReplacedStatus
    <3> HIDE DEF b
    <3>5. w \in Workspaces /\ SamePlace(w, b) /\ w.listed = b.listed /\ w.cursor = r.cursor
        BY <3>2, <3>4, ReplacedCursor
    <3> HIDE DEF w
    <3>6. e \in Workspaces /\ SamePlace(e, w) /\ SameList(e, w)
        BY <3>2, <3>5, ReplacedSelection
    <3> HIDE DEF e
    <3> QED
        BY <3>1, <3>3, <3>4, <3>5, <3>6 DEF SamePlace, SameList
  <2> QED
      BY <1>2, <2>2, <2>3, <2>4 DEF RefreshSettles
<1>6. controllerDisposed => workspace' = workspace
    BY DEF RefreshSettles, CurrentList
<1>7. ~Mutates(k, "rename") /\ ~Mutates(k, "delete") /\ ~Creates(task[t])
    BY <1>1, <1>4 DEF Mutates, Creates
<1>8. MutationsAlone'
  <2>1. \A s \in Tasks : \A op \in {"rename", "delete"} :
            Mutates(task'[s], op) => Mutates(task[s], op) /\ task'[s].chat = task[s].chat
      BY <1>4, <1>7 DEF Moves
  <2> QED
      BY <1>1, <1>2, <2>1, AloneKept DEF WsTyped
<1>9. WsTyped'
  <2>1. StateTyped'
      BY <1>1, <1>2, <1>5 DEF StateTyped
  <2> QED
      BY <1>4, <1>8, <2>1 DEF WsTyped, Moves
<1>10. ChoiceInv'
    BY <1>1, <1>2, <1>4, ChoiceKept
<1>11. MutationsHold'
  <2>1. CASE workspace'.listed = workspace.listed
      BY <1>1, <1>2, <2>1, ListedKept
  <2>2. CASE applies /\ workspace'.listed = listed
    <3>1. \A c \in Chats : c \in r.chats => c \notin erased /\ r.titles[c] >= retitled[c]
        BY <1>3, <2>2, WorkspaceAssumption DEF WsInv, MutationInv, PageIsRecent
    <3>2. \A c \in Chats : workspace'.listed[c] = IF c \in r.chats THEN r.titles[c] ELSE Nil
        BY <2>2
    <3> QED
        BY <1>1, <1>2, <3>1, <3>2, ListedKept
  <2> QED
      BY <1>5, <2>1, <2>2
<1>12. ASSUME ~controllerDisposed PROVE SelectionInv' /\ MutationInv' /\ ListInv'
  <2>1. SelectionInv /\ MutationInv /\ ListInv
      BY <1>12 DEF WsInv
  <2>2. viewLoad # t
      BY <1>1, <2>1, WorkspaceAssumption DEF SelectionInv, LoadIsOwners, Loads
  <2>3. SelectionInv'
      BY <1>1, <1>2, <1>4, <1>5, <2>1, PlaceKept
  <2>4. MutationInv'
      BY <1>1, <1>2, <1>4, <1>7, <2>1, <2>2, QuietKeepsMutation
  <2>5. CASE /\ paged' = paged /\ workspace'.listed = workspace.listed
             /\ workspace'.cursor = workspace.cursor
    <3>1. Listed(workspace) \subseteq Listed(workspace')
        BY <2>5 DEF Listed
    <3> QED
        BY <1>1, <1>2, <1>4, <1>7, <2>1, <2>4, <2>3, <2>5, <3>1, QuietKeepsList
  <2>6. CASE /\ applies /\ paged' = TRUE
             /\ workspace'.listed = listed /\ workspace'.cursor = r.cursor
    <3>1. \A c \in existing : c \in r.chats \/ c \in Behind(r.cursor) \/ Creating(c)
        BY <1>1, <1>3, <2>1, <2>6, WorkspaceAssumption DEF ListInv, PageReaches
    <3>2. \A c \in Chats : c \in r.chats => listed[c] # Nil
      <4>1. r.titles \in [Chats -> Nat]
          BY <1>3, <2>6 DEF Page
      <4> QED
          BY <4>1, WorkspaceAssumption
    <3>3. \A c : Creating(c) => Creating(c)'
        BY <1>4, <1>7 DEF Creating, Moves
    <3>4. existing \subseteq Chats
        BY <1>2 DEF StateTyped
    <3> HIDE DEF listed
    <3>5. Reached' /\ CursorPaged'
        BY <1>1, <2>6, <3>1, <3>2, <3>3, <3>4 DEF Reached, CursorPaged, Listed
    <3>6. MoreContinues' /\ PageReaches'
        BY <1>1, <1>3, <1>4, <2>6 DEF MoreContinues, PageReaches, Moves, Answered
    <3> QED
        BY <2>3, <2>4, <3>5, <3>6 DEF ListInv
  <2> QED
      BY <1>5, <2>3, <2>4, <2>5, <2>6
<1> QED
    BY <1>1, <1>9, <1>10, <1>11, <1>12 DEF WsInv

\* A further page is appended, unless its request is stale.
LEMMA MoreSettlesKeeps ==
    ASSUME WsInv, NEW t \in Tasks, MoreSettles(t)
    PROVE  WsInv'
<1> DEFINE r == task[t].reply
           applies == CurrentList(t) /\ r.ok
           listed == [c \in Chats |-> IF workspace.listed[c] = Nil /\ c \in r.chats
                                      THEN r.titles[c] ELSE workspace.listed[c]]
<1>1. /\ task[t].op = "more" /\ task[t].phase = "requested" /\ r # Nil /\ Finish(t)
      /\ UNCHANGED <<existing, unborn, title, viewed, viewLoad, override, firstSelected,
                     controllerDisposed, listOwner, selectionOwner, automatic, unswayed, paged,
                     choice, latestCreate, deleting, renaming, erased, retitled>>
    BY DEF MoreSettles, serverVars, clientVars, selectionVars, mutationVars, fixedVars
<1>2. WsTyped /\ StateTyped /\ ChoiceInv /\ MutationsHold /\ task[t] \in Calls
    BY DEF WsInv, WsTyped, CallsFit
<1>3. Lists(task[t]) /\ (applies => Answered(task[t]) /\ r \in Page /\ ~controllerDisposed /\ listOwner = t)
    BY <1>1, <1>2 DEF WsTyped, CallsFit, Fits, Lists, Answered, CurrentList
<1>4. PICK k : /\ Moves(t, k) /\ k.op = "more" /\ k.saw = task[t].saw /\ k.reply = Nil
               /\ k.phase = "done"
    BY <1>1, <1>2, FinishMoves, FinishedCall DEF WsTyped
<1>5. /\ workspace' \in Workspaces /\ SamePlace(workspace', workspace)
      /\ \/ /\ applies /\ workspace'.listed = listed /\ workspace'.cursor = r.cursor
         \/ workspace'.listed = workspace.listed /\ workspace'.cursor = workspace.cursor
  <2>1. workspace \in Workspaces /\ workspace.listed \in Listings
      BY <1>2, WorkspaceFields DEF StateTyped
  <2>2. CASE workspace' = workspace
      BY <2>1, <2>2 DEF SamePlace
  <2>3. CASE workspace' = ListFailed(workspace)
    <3>1. workspace' = [workspace EXCEPT !.status = "error"] /\ "error" \in Statuses
        BY <2>3 DEF ListFailed, Statuses
    <3> QED
        BY <2>1, <2>3, <3>1, ReplacedStatus
  <2>4. ASSUME applies, workspace' = [workspace EXCEPT !.listed = listed, !.status = "ready",
                                                       !.cursor = r.cursor]
        PROVE  /\ workspace' \in Workspaces /\ SamePlace(workspace', workspace)
               /\ workspace'.listed = listed /\ workspace'.cursor = r.cursor
    <3> DEFINE a == [workspace EXCEPT !.listed = listed]
               b == [a EXCEPT !.status = "ready"]
               w == [b EXCEPT !.cursor = r.cursor]
    <3>1. workspace' = w
        BY <2>4
    <3>2. /\ listed \in Listings /\ r.cursor \in Cursors /\ "ready" \in Statuses
      <4>1. r.titles \in [Chats -> Nat] /\ r.cursor \in {Nil} \cup SUBSET Chats
          BY <1>3, <2>4 DEF Page
      <4>2. \A c \in Chats : r.titles[c] \in {Nil} \cup Nat /\ workspace.listed[c] \in {Nil} \cup Nat
          BY <2>1, <4>1 DEF Listings
      <4> QED
          BY <4>1, <4>2 DEF Listings, Cursors, Statuses
    <3> HIDE DEF listed
    <3>3. a \in Workspaces /\ SamePlace(a, workspace) /\ a.listed = listed
        BY <2>1, <3>2, ReplacedListed
    <3> HIDE DEF a
    <3>4. b \in Workspaces /\ SamePlace(b, a) /\ b.listed = a.listed
        BY <3>2, <3>3, ReplacedStatus
    <3> HIDE DEF b
    <3>5. w \in Workspaces /\ SamePlace(w, b) /\ w.listed = b.listed /\ w.cursor = r.cursor
        BY <3>2, <3>4, ReplacedCursor
    <3> HIDE DEF w
    <3> QED
        BY <3>1, <3>3, <3>4, <3>5 DEF SamePlace
  <2> QED
      BY <1>2, <2>2, <2>3, <2>4 DEF MoreSettles
<1>6. ~Mutates(k, "rename") /\ ~Mutates(k, "delete") /\ ~Creates(task[t])
    BY <1>1, <1>4 DEF Mutates, Creates
<1>7. MutationsAlone'
  <2>1. \A s \in Tasks : \A op \in {"rename", "delete"} :
            Mutates(task'[s], op) => Mutates(task[s], op) /\ task'[s].chat = task[s].chat
      BY <1>4, <1>6 DEF Moves
  <2> QED
      BY <1>1, <1>2, <2>1, AloneKept DEF WsTyped
<1>8. WsTyped'
  <2>1. StateTyped'
      BY <1>1, <1>2, <1>5 DEF StateTyped
  <2> QED
      BY <1>4, <1>7, <2>1 DEF WsTyped, Moves
<1>9. ChoiceInv'
    BY <1>1, <1>2, <1>4, ChoiceKept
<1>10. MutationsHold'
  <2>1. CASE workspace'.listed = workspace.listed
      BY <1>1, <1>2, <2>1, ListedKept
  <2>2. CASE applies /\ workspace'.listed = listed
    <3>1. \A c \in Chats : c \in r.chats => c \notin erased /\ r.titles[c] >= retitled[c]
        BY <1>3, <2>2, WorkspaceAssumption DEF WsInv, MutationInv, PageIsRecent
    <3>2. \A c \in Chats : \/ workspace'.listed[c] = workspace.listed[c]
                           \/ c \in r.chats /\ workspace'.listed[c] = r.titles[c]
        BY <2>2
    <3> QED
        BY <1>1, <1>2, <3>1, <3>2, ListedKept
  <2> QED
      BY <1>5, <2>1, <2>2
<1>11. ASSUME ~controllerDisposed PROVE SelectionInv' /\ MutationInv' /\ ListInv'
  <2>1. SelectionInv /\ MutationInv /\ ListInv
      BY <1>11 DEF WsInv
  <2>2. viewLoad # t
      BY <1>1, <2>1, WorkspaceAssumption DEF SelectionInv, LoadIsOwners, Loads
  <2>3. SelectionInv'
      BY <1>1, <1>2, <1>4, <1>5, <2>1, PlaceKept
  <2>4. MutationInv'
      BY <1>1, <1>2, <1>4, <1>6, <2>1, <2>2, QuietKeepsMutation
  <2>5. CASE workspace'.listed = workspace.listed /\ workspace'.cursor = workspace.cursor
    <3>1. Listed(workspace) \subseteq Listed(workspace')
        BY <2>5 DEF Listed
    <3> QED
        BY <1>1, <1>2, <1>4, <1>6, <2>1, <2>4, <2>3, <2>5, <3>1, QuietKeepsList
  <2>6. CASE applies /\ workspace'.listed = listed /\ workspace'.cursor = r.cursor
    <3>1. /\ \A c \in existing : c \in r.chats \/ c \in Behind(r.cursor) \/ Creating(c)
                                 \/ c \in Listed(workspace)
          /\ paged
        BY <1>1, <1>3, <2>1, <2>6, WorkspaceAssumption DEF ListInv, PageReaches, MoreContinues
    <3>2. \A c \in Chats : c \in r.chats \/ workspace.listed[c] # Nil => listed[c] # Nil
      <4>1. r.titles \in [Chats -> Nat]
          BY <1>3, <2>6 DEF Page
      <4> QED
          BY <4>1, WorkspaceAssumption
    <3>3. \A c : Creating(c) => Creating(c)'
        BY <1>4, <1>6 DEF Creating, Moves
    <3>4. existing \subseteq Chats
        BY <1>2 DEF StateTyped
    <3> HIDE DEF listed
    <3>5. Reached' /\ CursorPaged'
        BY <1>1, <2>6, <3>1, <3>2, <3>3, <3>4 DEF Reached, CursorPaged, Listed
    <3>6. MoreContinues' /\ PageReaches'
        BY <1>1, <1>3, <1>4, <2>6 DEF MoreContinues, PageReaches, Moves, Answered, Lists
    <3> QED
        BY <2>3, <2>4, <3>5, <3>6 DEF ListInv
  <2> QED
      BY <1>5, <2>3, <2>4, <2>5, <2>6
<1> QED
    BY <1>1, <1>8, <1>9, <1>10, <1>11 DEF WsInv

\* What a call leaves that may select in the end, from the snapshot w: it is
\* done, or it has become the owner of the selection.
Concludes(t, k, w) ==
    /\ Moves(t, k) /\ k.op = task[t].op /\ k.saw = task[t].saw /\ k.reply = Nil
    /\ k.phase \in {"done", "loading"}
    /\ workspace' \in Workspaces /\ SameList(workspace', w)
    /\ automatic' \in {Nil, automatic, t}
    /\ \/ UNCHANGED <<selectionOwner, viewLoad, override>> /\ SamePlace(workspace', workspace)
       \/ /\ ~controllerDisposed /\ t \in unswayed
          /\ selectionOwner' = t /\ viewLoad' \in {Nil, t} /\ override' = Nil
          /\ SelectionInv => SelectionInv'

\* A refresh may select the first conversation, if the user did not choose.
LEMMA RefreshContinuesKeeps ==
    ASSUME WsInv, NEW t \in Tasks, RefreshContinues(t)
    PROVE  WsInv'
<1> DEFINE selects == MaySelectFirst(t) /\ Unselected(workspace)
<1>1. /\ task[t].phase = "refreshed"
      /\ UNCHANGED <<existing, unborn, title, viewed, firstSelected,
                     controllerDisposed, paged, listOwner, unswayed,
                     choice, latestCreate, deleting, renaming, erased, retitled>>
    BY DEF RefreshContinues, serverVars, fixedVars, mutationVars
<1>2. WsTyped /\ StateTyped /\ ChoiceInv /\ MutationsHold /\ task[t] \in Calls
      /\ task[t].op = "refresh" /\ workspace \in Workspaces
    BY <1>1 DEF WsInv, WsTyped, CallsFit, Fits, StateTyped
<1>3. PICK k : Concludes(t, k, workspace)
  <2>1. ASSUME selects, NEW c \in Listed(workspace), Select(t, task[t], c, workspace),
               automatic' = IF task'[t].phase = "loading" THEN t ELSE Nil
        PROVE  \E k : Concludes(t, k, workspace)
    <3>1. ~controllerDisposed /\ t \in unswayed /\ c \in Chats /\ Selects(task[t])
        BY <1>2, <2>1 DEF MaySelectFirst, CurrentList, Listed, Selects
    <3>2. /\ \E k : /\ Moves(t, k) /\ k.op = task[t].op /\ k.saw = task[t].saw /\ k.reply = Nil
                    /\ k.phase \in {"loading", "done"}
          /\ workspace' \in Workspaces /\ SameList(workspace', workspace)
          /\ selectionOwner' = t /\ viewLoad' \in {Nil, t} /\ override' = Nil
          /\ SelectionInv => SelectionInv'
        BY <1>1, <1>2, <2>1, <3>1, SelectKeeps
    <3>3. automatic' \in {Nil, automatic, t}
        BY <2>1
    <3> QED
        BY <3>1, <3>2, <3>3 DEF Concludes
  <2>2. ASSUME Finish(t), UNCHANGED <<selectionOwner, viewLoad, override, automatic>>,
               workspace' = workspace \/ workspace' = [workspace EXCEPT !.selection = "empty"]
        PROVE  \E k : Concludes(t, k, workspace)
    <3>1. Moves(t, Finished(task[t]))
        BY <1>2, <2>2, FinishMoves DEF WsTyped
    <3>2. workspace' \in Workspaces /\ SameList(workspace', workspace) /\ SamePlace(workspace', workspace)
      <4>1. "empty" \in Selections
          BY DEF Selections
      <4>2. CASE workspace' = workspace
          BY <1>2, <4>2 DEF SameList, SamePlace
      <4>3. CASE workspace' = [workspace EXCEPT !.selection = "empty"]
          BY <1>2, <4>1, <4>3, ReplacedSelection
      <4> QED
          BY <2>2, <4>2, <4>3
    <3> QED
        BY <1>2, <2>2, <3>1, <3>2, FinishedCall DEF Concludes
  <2>3. \/ \E c \in Listed(workspace) :
               /\ selects /\ Select(t, task[t], c, workspace)
               /\ automatic' = IF task'[t].phase = "loading" THEN t ELSE Nil
        \/ /\ Finish(t) /\ UNCHANGED <<selectionOwner, viewLoad, override, automatic>>
           /\ workspace' = workspace \/ workspace' = [workspace EXCEPT !.selection = "empty"]
      BY DEF RefreshContinues
  <2> QED
      BY <2>1, <2>2, <2>3
<1>4. /\ Moves(t, k) /\ k.op = "refresh" /\ k.saw = task[t].saw /\ k.reply = Nil
      /\ k.phase \in {"done", "loading"}
      /\ workspace' \in Workspaces /\ SameList(workspace', workspace)
      /\ automatic' \in {Nil, automatic, t}
      /\ \/ UNCHANGED <<selectionOwner, viewLoad, override>> /\ SamePlace(workspace', workspace)
         \/ /\ ~controllerDisposed /\ t \in unswayed
            /\ selectionOwner' = t /\ viewLoad' \in {Nil, t} /\ override' = Nil
            /\ SelectionInv => SelectionInv'
    BY <1>2, <1>3 DEF Concludes
<1>5. ~Mutates(k, "rename") /\ ~Mutates(k, "delete") /\ ~Creates(task[t])
    BY <1>1, <1>4 DEF Mutates, Creates
<1>6. MutationsAlone'
  <2>1. \A s \in Tasks : \A op \in {"rename", "delete"} :
            Mutates(task'[s], op) => Mutates(task[s], op) /\ task'[s].chat = task[s].chat
      BY <1>4, <1>5 DEF Moves
  <2> QED
      BY <1>1, <1>2, <2>1, AloneKept DEF WsTyped
<1>7. WsTyped'
  <2>1. StateTyped'
      BY <1>1, <1>2, <1>4 DEF StateTyped
  <2> QED
      BY <1>4, <1>6, <2>1 DEF WsTyped, Moves
<1>8. ChoiceInv'
  <2>1. t \in unswayed => k.saw = choice
      BY <1>2, <1>4 DEF ChoiceInv, UnswayedSaw
  <2> QED
      BY <1>1, <1>2, <1>4, <2>1, ChoiceKept
<1>9. MutationsHold'
    BY <1>1, <1>2, <1>4, ListedKept DEF SameList
<1>10. ASSUME ~controllerDisposed PROVE SelectionInv' /\ MutationInv' /\ ListInv'
  <2>1. SelectionInv /\ MutationInv /\ ListInv
      BY <1>10 DEF WsInv
  <2>2. viewLoad # t
      BY <1>1, <2>1, WorkspaceAssumption DEF SelectionInv, LoadIsOwners, Loads
  <2>3. SelectionInv'
      BY <1>1, <1>2, <1>4, <2>1, PlaceKept
  <2>4. MutationInv'
      BY <1>1, <1>2, <1>4, <1>5, <2>1, <2>2, QuietKeepsMutation
  <2>5. Listed(workspace) \subseteq Listed(workspace') /\ workspace'.cursor = workspace.cursor
      BY <1>4 DEF Listed, SameList
  <2>6. ListInv'
      BY <1>1, <1>2, <1>4, <1>5, <2>1, <2>5, QuietKeepsList
  <2> QED
      BY <2>3, <2>4, <2>6
<1> QED
    BY <1>1, <1>7, <1>8, <1>9, <1>10 DEF WsInv

-----------------------------------------------------------------------------
(* The mutations.                                                          *)

\* A creation begins.
LEMMA CreateKeeps ==
    ASSUME WsInv, NEW t \in Tasks, NEW select \in BOOLEAN, Create(t, select)
    PROVE  WsInv'
<1>1. /\ "create" \in WorkspaceOps /\ ~controllerDisposed /\ task[t].phase = "idle"
      /\ latestCreate' = t /\ unswayed' = unswayed \cup {t}
      /\ UNCHANGED <<existing, unborn, title, viewed, viewLoad, override, firstSelected,
                     controllerDisposed, paged, listOwner, selectionOwner, automatic,
                     choice, deleting, renaming, erased, retitled, workspace>>
    BY DEF Create, CanBegin, serverVars, clientVars, fixedVars, mutationVars
<1>2. WsTyped /\ StateTyped /\ ChoiceInv /\ MutationsHold /\ SelectionInv /\ MutationInv /\ ListInv
    BY <1>1 DEF WsInv, WsTyped
<1>3. PICK k : /\ Moves(t, k) /\ k.op = "create" /\ k.saw = choice /\ k.reply = Nil
               /\ k.phase \in {"requested", "done"}
  <2> DEFINE n == Begun("create", Nil)
             b == [n EXCEPT !.input = select]
  <2>1. task' = [task EXCEPT ![t] = b] \/ FailsAtOnce(t, "create")
      BY DEF Create
  <2>2. choice \in {Nil} \cup Tasks /\ select \in Inputs /\ CallsFit
      BY <1>2 DEF StateTyped, Inputs, WsTyped
  <2>3. n \in Calls /\ n.op = "create" /\ n.phase = "requested" /\ n.saw = choice /\ n.reply = Nil
      BY <1>1, <2>2, BegunCall
  <2> HIDE DEF n
  <2>4. b \in Calls /\ b.op = "create" /\ b.phase = "requested" /\ b.saw = choice /\ b.reply = Nil
      BY <2>2, <2>3 DEF Calls
  <2> HIDE DEF b
  <2>5. Fits(b)
      BY <2>4 DEF Fits, Loads, Answered, Mutates
  <2>6. CASE task' = [task EXCEPT ![t] = b]
      BY <2>2, <2>4, <2>5, <2>6, MovesTo
  <2>7. CASE FailsAtOnce(t, "create")
      BY <1>1, <1>2, <2>7, FailsMoves
  <2> QED
      BY <2>1, <2>6, <2>7
<1>4. ~Mutates(k, "rename") /\ ~Mutates(k, "delete") /\ ~Creates(task[t])
    BY <1>1, <1>3 DEF Mutates, Creates
<1>5. MutationsAlone'
  <2>1. \A s \in Tasks : \A op \in {"rename", "delete"} :
            Mutates(task'[s], op) => Mutates(task[s], op) /\ task'[s].chat = task[s].chat
      BY <1>3, <1>4 DEF Moves
  <2> QED
      BY <1>1, <1>2, <2>1, AloneKept DEF WsTyped
<1>6. WsTyped'
  <2>1. StateTyped'
      BY <1>1, <1>2, <1>3 DEF StateTyped
  <2> QED
      BY <1>3, <1>5, <2>1 DEF WsTyped, Moves
<1>7. ChoiceInv'
    BY <1>1, <1>2, <1>3, ChoiceKept
<1>8. MutationsHold'
    BY <1>1, <1>2, ListedKept
<1>9. viewLoad # t
    BY <1>1, <1>2, WorkspaceAssumption DEF SelectionInv, LoadIsOwners, Loads
<1>10. SelectionInv'
    BY <1>1, <1>2, <1>3, PlaceKept DEF SamePlace
<1>11. MutationInv'
    BY <1>1, <1>2, <1>3, <1>4, <1>9, QuietKeepsMutation
<1>12. ListInv'
    BY <1>1, <1>2, <1>3, <1>4, QuietKeepsList
<1> QED
    BY <1>6, <1>7, <1>8, <1>10, <1>11, <1>12 DEF WsInv

\* A creation is listed, and may be selected, if the user did not choose.
LEMMA CreateSettlesKeeps ==
    ASSUME WsInv, NEW t \in Tasks, CreateSettles(t)
    PROVE  WsInv'
<1> DEFINE r == task[t].reply
           v == Titled(r.chat, 0)
           u == Upserted(workspace, v)
           w == [u EXCEPT !.status = "ready"]
           applies == ~controllerDisposed /\ r.ok
<1>1. /\ task[t].op = "create" /\ task[t].phase = "requested" /\ r # Nil
      /\ listOwner' = IF applies THEN Nil ELSE listOwner
      /\ UNCHANGED <<existing, unborn, title, viewed, firstSelected,
                     controllerDisposed, paged, unswayed,
                     choice, latestCreate, deleting, renaming, erased, retitled>>
    BY DEF CreateSettles, serverVars, fixedVars, mutationVars
<1>2. WsTyped /\ StateTyped /\ ChoiceInv /\ MutationsHold /\ task[t] \in Calls
      /\ workspace \in Workspaces
    BY DEF WsInv, WsTyped, CallsFit, StateTyped
<1>3. Creates(task[t]) /\ (r.ok => Answered(task[t]) /\ r.chat \in Chats)
    BY <1>1, <1>2 DEF WsTyped, CallsFit, Fits, Creates, Answered
<1>4. ASSUME applies
      PROVE  /\ w \in Workspaces /\ Puts(w, workspace, v) /\ SamePlace(w, workspace)
             /\ v.id = r.chat /\ v.title = 0 /\ v \in Views
  <2>1. v \in Views /\ v.id = r.chat /\ v.title = 0
      BY <1>3, <1>4 DEF Views, Titled
  <2> HIDE DEF v
  <2>2. u \in Workspaces /\ Puts(u, workspace, v) /\ SamePlace(u, workspace)
      BY <1>2, <2>1, UpsertedFields
  <2> HIDE DEF u
  <2>3. "ready" \in Statuses
      BY DEF Statuses
  <2>4. w \in Workspaces /\ SamePlace(w, u) /\ w.listed = u.listed /\ w.cursor = u.cursor
      BY <2>2, <2>3, ReplacedStatus
  <2> QED
      BY <2>1, <2>2, <2>4 DEF Puts, SamePlace
<1> HIDE DEF w
<1>5. PICK k : Concludes(t, k, IF applies THEN w ELSE workspace)
  <2>1. ASSUME applies, MaySelectCreated(t), automatic' = Nil, Select(t, task[t], r.chat, w)
        PROVE  \E k : Concludes(t, k, w)
    <3>1. ~controllerDisposed /\ t \in unswayed /\ r.chat \in Chats /\ Selects(task[t])
        BY <1>1, <1>3, <2>1 DEF MaySelectCreated, Selects
    <3>2. w \in Workspaces /\ w.selected = workspace.selected
        BY <1>4, <2>1 DEF SamePlace
    <3>3. /\ \E k : /\ Moves(t, k) /\ k.op = task[t].op /\ k.saw = task[t].saw /\ k.reply = Nil
                    /\ k.phase \in {"loading", "done"}
          /\ workspace' \in Workspaces /\ SameList(workspace', w)
          /\ selectionOwner' = t /\ viewLoad' \in {Nil, t} /\ override' = Nil
          /\ SelectionInv => SelectionInv'
        BY <1>1, <1>2, <2>1, <3>1, <3>2, SelectKeeps
    <3> QED
        BY <2>1, <3>1, <3>3 DEF Concludes
  <2>2. ASSUME Finish(t), UNCHANGED <<selectionOwner, viewLoad, override, automatic>>,
               workspace' = IF applies THEN w ELSE workspace
        PROVE  \E k : Concludes(t, k, IF applies THEN w ELSE workspace)
    <3>1. Moves(t, Finished(task[t]))
        BY <1>2, <2>2, FinishMoves DEF WsTyped
    <3>2. workspace' \in Workspaces /\ SamePlace(workspace', workspace)
        BY <1>2, <1>4, <2>2 DEF SamePlace
    <3>3. SameList(workspace', IF applies THEN w ELSE workspace)
        BY <2>2 DEF SameList
    <3> QED
        BY <1>2, <2>2, <3>1, <3>2, <3>3, FinishedCall DEF Concludes
  <2>3. \/ /\ applies /\ MaySelectCreated(t) /\ automatic' = Nil
           /\ Select(t, task[t], r.chat, w)
        \/ /\ Finish(t) /\ UNCHANGED <<selectionOwner, viewLoad, override, automatic>>
           /\ workspace' = IF applies THEN w ELSE workspace
      BY DEF CreateSettles, w
  <2> QED
      BY <2>1, <2>2, <2>3
<1>6. /\ Moves(t, k) /\ k.op = "create" /\ k.saw = task[t].saw /\ k.reply = Nil
      /\ k.phase \in {"done", "loading"}
      /\ workspace' \in Workspaces /\ SameList(workspace', IF applies THEN w ELSE workspace)
      /\ automatic' \in {Nil, automatic, t}
      /\ \/ UNCHANGED <<selectionOwner, viewLoad, override>> /\ SamePlace(workspace', workspace)
         \/ /\ ~controllerDisposed /\ t \in unswayed
            /\ selectionOwner' = t /\ viewLoad' \in {Nil, t} /\ override' = Nil
            /\ SelectionInv => SelectionInv'
    BY <1>1, <1>5 DEF Concludes
<1>7. ~Mutates(k, "rename") /\ ~Mutates(k, "delete")
    BY <1>6 DEF Mutates
<1>8. MutationsAlone'
  <2>1. \A s \in Tasks : \A op \in {"rename", "delete"} :
            Mutates(task'[s], op) => Mutates(task[s], op) /\ task'[s].chat = task[s].chat
      BY <1>6, <1>7 DEF Moves
  <2> QED
      BY <1>1, <1>2, <2>1, AloneKept DEF WsTyped
<1>9. WsTyped'
  <2>1. StateTyped'
      BY <1>1, <1>2, <1>6 DEF StateTyped
  <2> QED
      BY <1>6, <1>8, <2>1 DEF WsTyped, Moves
<1>10. ChoiceInv'
  <2>1. t \in unswayed => k.saw = choice
      BY <1>2, <1>6 DEF ChoiceInv, UnswayedSaw
  <2> QED
      BY <1>1, <1>2, <1>6, <2>1, ChoiceKept
<1>11. MutationsHold'
  <2>1. CASE ~applies
      BY <1>1, <1>2, <1>6, <2>1, ListedKept DEF SameList
  <2>2. CASE applies
    <3>1. r.chat \notin erased /\ retitled[r.chat] = 0
        BY <1>3, <2>2 DEF WsInv, MutationInv, CreatedIsNew
    <3>2. \A c \in Chats : workspace'.listed[c] = IF c = r.chat THEN 0 ELSE workspace.listed[c]
        BY <1>4, <1>6, <2>2 DEF SameList, Puts
    <3> QED
        BY <1>1, <1>2, <3>1, <3>2, ListedKept
  <2> QED
      BY <2>1, <2>2
<1>12. ASSUME ~controllerDisposed PROVE SelectionInv' /\ MutationInv' /\ ListInv'
  <2>1. SelectionInv /\ MutationInv /\ ListInv
      BY <1>12 DEF WsInv
  <2>2. viewLoad # t
      BY <1>1, <2>1, WorkspaceAssumption DEF SelectionInv, LoadIsOwners, Loads
  <2>3. SelectionInv'
      BY <1>1, <1>2, <1>6, <2>1, PlaceKept
  <2>4. MutationInv'
      BY <1>1, <1>2, <1>6, <1>7, <2>1, <2>2, QuietKeepsMutation
  <2>5. /\ Listed(workspace) \subseteq Listed(workspace') /\ workspace'.cursor = workspace.cursor
        /\ r.ok => r.chat \in Listed(workspace') /\ listOwner' = Nil
    <3>1. CASE ~applies
        BY <1>6, <1>12, <3>1 DEF Listed, SameList
    <3>2. CASE applies
      <4>1. \A c \in Chats : workspace'.listed[c] = IF c = r.chat THEN 0 ELSE workspace.listed[c]
          BY <1>4, <1>6, <3>2 DEF SameList, Puts
      <4>2. workspace'.cursor = workspace.cursor
          BY <1>4, <1>6, <3>2 DEF SameList, Puts
      <4> QED
          BY <1>1, <1>3, <3>2, <4>1, <4>2, WorkspaceAssumption DEF Listed
    <3> QED
        BY <3>1, <3>2
  <2>6. ListInv'
      BY <1>1, <1>2, <1>6, <2>1, <2>5, QuietKeepsList DEF Answered
  <2> QED
      BY <2>3, <2>4, <2>6
<1> QED
    BY <1>1, <1>9, <1>10, <1>11, <1>12 DEF WsInv

\* A rename or a deletion begins where no other is under way.
LEMMA MutationBegins ==
    ASSUME WsInv, NEW t \in Tasks, NEW c \in Chats, NEW op \in {"rename", "delete"},
           CanBegin(t, op), c \notin unborn, Mutable(c),
           \/ /\ task' = [task EXCEPT ![t] = Begun(op, c)]
              /\ IF op = "rename" THEN renaming' = renaming \cup {c} /\ deleting' = deleting
                                  ELSE deleting' = deleting \cup {c} /\ renaming' = renaming
           \/ FailsAtOnce(t, op) /\ UNCHANGED <<renaming, deleting>>,
           UNCHANGED <<serverVars, clientVars, fixedVars, listOwner, selectionVars,
                       latestCreate, erased, retitled, workspace>>
    PROVE  WsInv'
<1>1. /\ op \in WorkspaceOps /\ ~controllerDisposed /\ task[t].phase = "idle"
      /\ UNCHANGED <<existing, unborn, title, viewed, viewLoad, override, firstSelected,
                     controllerDisposed, paged, listOwner, selectionOwner, automatic, unswayed,
                     choice, latestCreate, erased, retitled, workspace>>
    BY DEF CanBegin, serverVars, clientVars, fixedVars, selectionVars
<1>2. WsTyped /\ StateTyped /\ ChoiceInv /\ MutationsHold /\ SelectionInv /\ MutationInv /\ ListInv
    BY <1>1 DEF WsInv, WsTyped
<1>3. PICK k : /\ Moves(t, k) /\ k.op = op /\ k.saw = choice /\ k.reply = Nil
               /\ k.phase \in {"requested", "done"}
               /\ k.phase = "requested" =>
                    /\ k.chat = c
                    /\ IF op = "rename" THEN renaming' = renaming \cup {c} /\ deleting' = deleting
                                        ELSE deleting' = deleting \cup {c} /\ renaming' = renaming
               /\ k.phase = "done" => UNCHANGED <<renaming, deleting>>
  <2>1. CASE /\ task' = [task EXCEPT ![t] = Begun(op, c)]
             /\ IF op = "rename" THEN renaming' = renaming \cup {c} /\ deleting' = deleting
                                 ELSE deleting' = deleting \cup {c} /\ renaming' = renaming
    <3>1. choice \in {Nil} \cup Tasks
        BY <1>2 DEF StateTyped
    <3>2. /\ Begun(op, c).op = op /\ Begun(op, c).phase = "requested" /\ Begun(op, c).chat = c
          /\ Begun(op, c).saw = choice /\ Begun(op, c).reply = Nil
        BY <1>1, <3>1, BegunCall
    <3>3. Moves(t, Begun(op, c))
        BY <1>1, <1>2, <2>1, BeginMoves
    <3> QED
        BY <2>1, <3>2, <3>3
  <2>2. CASE FailsAtOnce(t, op) /\ UNCHANGED <<renaming, deleting>>
      BY <1>1, <1>2, <2>2, FailsMoves
  <2> QED
      BY <2>1, <2>2
<1>4. /\ \A s \in Tasks : s # t => task'[s] = task[s]
      /\ task'[t] = k /\ ~Creates(task[t])
    BY <1>1, <1>3 DEF Moves, Creates
<1>5. renaming' \subseteq Chats \ deleting' /\ deleting' \subseteq Chats
      /\ renaming \subseteq renaming' /\ deleting \subseteq deleting'
    BY <1>2, <1>3 DEF StateTyped, Mutable
<1>6. MutationsAlone'
  <2>1. CASE k.phase = "done"
    <3>1. \A s \in Tasks : \A o \in {"rename", "delete"} :
              Mutates(task'[s], o) => Mutates(task[s], o) /\ task'[s].chat = task[s].chat
        BY <1>4, <2>1 DEF Mutates
    <3> QED
        BY <1>2, <1>3, <2>1, <3>1, AloneKept DEF WsTyped
  <2>2. CASE k.phase = "requested"
    <3>1. \A s \in Tasks : Mutates(task[s], "rename") \/ Mutates(task[s], "delete") =>
              task[s].chat # c /\ s # t
        BY <1>1, <1>2 DEF WsTyped, MutationsAlone, Mutable, Mutates
    <3>2. \A s \in Tasks : Mutates(task'[s], "rename") => task'[s].chat \in renaming'
        BY <1>2, <1>3, <1>4, <1>5, <2>2 DEF WsTyped, MutationsAlone, Mutates
    <3>3. \A s \in Tasks : Mutates(task'[s], "delete") => task'[s].chat \in deleting'
        BY <1>2, <1>3, <1>4, <1>5, <2>2 DEF WsTyped, MutationsAlone, Mutates
    <3>4. ASSUME NEW s \in Tasks, NEW u \in Tasks,
                 Mutates(task'[s], "rename") \/ Mutates(task'[s], "delete"),
                 Mutates(task'[u], "rename") \/ Mutates(task'[u], "delete"),
                 task'[s].chat = task'[u].chat
          PROVE  s = u
        BY <1>2, <1>3, <1>4, <2>2, <3>1, <3>4 DEF WsTyped, MutationsAlone
    <3> QED
        BY <3>2, <3>3, <3>4 DEF MutationsAlone
  <2> QED
      BY <1>3, <2>1, <2>2
<1>7. WsTyped'
  <2>1. StateTyped'
      BY <1>1, <1>2, <1>5 DEF StateTyped
  <2> QED
      BY <1>3, <1>6, <2>1 DEF WsTyped, Moves
<1>8. ChoiceInv'
    BY <1>1, <1>2, <1>3, ChoiceKept
<1>9. MutationsHold'
    BY <1>1, <1>2, ListedKept
<1>10. SelectionInv'
    BY <1>1, <1>2, <1>3, PlaceKept DEF SamePlace
<1>11. MutationInv'
  <2>1. viewLoad # t
      BY <1>1, <1>2, WorkspaceAssumption DEF SelectionInv, LoadIsOwners, Loads
  <2>2. Mutates(k, "rename") => k.chat \notin unborn
      BY <1>3 DEF Mutates
  <2> QED
      BY <1>1, <1>2, <1>3, <2>1, <2>2, QuietKeepsMutation
<1>12. ListInv'
    BY <1>1, <1>2, <1>3, <1>4, QuietKeepsList
<1> QED
    BY <1>7, <1>8, <1>9, <1>10, <1>11, <1>12 DEF WsInv

\* A rename begins.
LEMMA RenameKeeps ==
    ASSUME WsInv, NEW t \in Tasks, NEW c \in Chats, Rename(t, c)
    PROVE  WsInv'
BY MutationBegins DEF Rename

\* A deletion begins.
LEMMA DeleteKeeps ==
    ASSUME WsInv, NEW t \in Tasks, NEW c \in Chats, Delete(t, c)
    PROVE  WsInv'
BY MutationBegins DEF Delete

\* The client has told the view, or the load that is pending, of a mutation.
LEMMA ReturningMoves ==
    ASSUME CallsFit, NEW t \in Tasks, task[t].op \in {"rename", "delete"},
           task[t].phase = "requested", task[t].reply # Nil,
           task' = [task EXCEPT ![t].phase = "returning"]
    PROVE  \E k : /\ Moves(t, k) /\ k.op = task[t].op /\ k.phase = "returning"
                  /\ k.chat = task[t].chat /\ k.reply = task[t].reply /\ k.saw = task[t].saw
<1> DEFINE k == [task[t] EXCEPT !.phase = "returning"]
<1>1. task[t] \in Calls /\ Fits(task[t]) /\ task' = [task EXCEPT ![t] = k]
    BY DEF CallsFit
<1>2. "returning" \in Phases
    BY DEF Phases
<1>3. k \in Calls /\ k.op = task[t].op /\ k.phase = "returning"
      /\ k.chat = task[t].chat /\ k.reply = task[t].reply /\ k.saw = task[t].saw
    BY <1>1, <1>2 DEF Calls
<1> HIDE DEF k
<1>4. Fits(k)
    BY <1>1, <1>3 DEF Fits, Selects, Answered, Lists, Creates, Loads, Loaded, Mutates
<1> QED
    BY <1>1, <1>3, <1>4, MovesTo

-----------------------------------------------------------------------------
(* What the client displays.                                               *)

\* The list takes over a view, or keeps what it has.
LEMMA ObservedKeeps ==
    ASSUME WsTyped, ~controllerDisposed, MutationsHold, NEW v \in Views,
           v.id \notin erased, v.title >= retitled[v.id], UNCHANGED <<erased, retitled>>,
           workspace' = Observed(workspace, v)
    PROVE  /\ workspace' \in Workspaces /\ MutationsHold'
           /\ Listed(workspace) \subseteq Listed(workspace')
           /\ workspace'.cursor = workspace.cursor
           /\ workspace'.selected = IF v.id = workspace.pending THEN v.id ELSE workspace.selected
           /\ workspace'.pending = IF v.id = workspace.pending THEN Nil ELSE workspace.pending
<1>1. workspace \in Workspaces /\ v.id \in Chats /\ v.title \in Nat
    BY DEF WsTyped, StateTyped, Views
<1>2. /\ workspace' \in Workspaces
      /\ workspace'.selected = IF v.id = workspace.pending THEN v.id ELSE workspace.selected
      /\ workspace'.pending = IF v.id = workspace.pending THEN Nil ELSE workspace.pending
      /\ Puts(workspace', workspace, v) \/ SameList(workspace', workspace)
    BY <1>1, ObservedFields
<1>3. \A c \in Chats : \/ workspace'.listed[c] = workspace.listed[c]
                       \/ c = v.id /\ workspace'.listed[c] = v.title
    BY <1>2 DEF Puts, SameList
<1>4. MutationsHold'
    BY <1>3, ListedKept
<1>5. Listed(workspace) \subseteq Listed(workspace')
    BY <1>1, <1>3, WorkspaceAssumption DEF Listed
<1>6. workspace'.cursor = workspace.cursor
    BY <1>2 DEF Puts, SameList
<1> QED
    BY <1>2, <1>4, <1>5, <1>6

\* No call that selects moves, and the view stays or takes the place of what is pending.
LEMMA SelectionStays ==
    ASSUME WsTyped, SelectionInv, ~controllerDisposed,
           viewLoad' \in {Nil, viewLoad}, UNCHANGED <<selectionOwner, controllerDisposed>>,
           \/ viewed = Nil /\ viewed' = Nil
           \/ viewed # Nil /\ viewed' # Nil /\ viewed'.id = viewed.id,
           \A s \in Tasks : Selects(task[s]) => task'[s] = task[s],
           \/ SamePlace(workspace', workspace)
           \/ /\ viewed # Nil /\ workspace.pending = viewed.id
              /\ workspace'.pending = Nil /\ workspace'.selected = viewed.id
    PROVE  SelectionInv'
<1>1. selectionOwner \in {Nil} \cup Tasks /\ viewLoad \in {Nil} \cup Tasks
    BY DEF WsTyped, StateTyped
<1>2. SelectionIsDisplayed'
    BY DEF SelectionInv, SelectionIsDisplayed, SamePlace
<1>3. selectionOwner # Nil => task'[selectionOwner] = task[selectionOwner]
    BY <1>1 DEF SelectionInv, OwnerActs
<1>4. OwnerActs' /\ CommittedIsDisplayed'
    BY <1>3 DEF SelectionInv, OwnerActs, CommittedIsDisplayed
<1>5. LoadIsOwners'
    BY <1>3 DEF SelectionInv, SelectionIsDisplayed, LoadIsOwners, SamePlace, Loads
<1> QED
    BY <1>2, <1>4, <1>5 DEF SelectionInv

\* The client commits its view again.
LEMMA ClientCommitsKeeps ==
    ASSUME WsInv, ClientCommits
    PROVE  WsInv'
<1>1. /\ viewed # Nil /\ workspace' = Observed(workspace, viewed)
      /\ UNCHANGED <<existing, unborn, title, viewed, viewLoad, override, firstSelected>>
      /\ UNCHANGED <<controllerDisposed, listOwner, selectionOwner, automatic, unswayed, paged>>
      /\ UNCHANGED <<choice, latestCreate, deleting, renaming, erased, retitled, task>>
    BY DEF ClientCommits, serverVars, clientVars, selectionVars, mutationVars, fixedVars
<1>2. WsTyped /\ StateTyped /\ ChoiceInv /\ MutationsHold /\ viewed \in Views
    BY <1>1 DEF WsInv, WsTyped, StateTyped
<1>3. CallsFit' /\ MutationsAlone'
    BY <1>1, <1>2 DEF WsTyped, CallsFit, MutationsAlone
<1>4. ChoiceInv'
    BY <1>1, <1>2 DEF ChoiceInv, UserChoiceWins, UnswayedSaw, OwnerBegan
<1>5. CASE controllerDisposed
  <2>1. workspace' = workspace
      BY <1>1, <1>5 DEF Observed
  <2>2. StateTyped' /\ MutationsHold'
      BY <1>1, <1>2, <2>1 DEF StateTyped, MutationsHold, Listed
  <2> QED
      BY <1>1, <1>3, <1>4, <1>5, <2>2 DEF WsInv, WsTyped
<1>6. CASE ~controllerDisposed
  <2>1. SelectionInv /\ MutationInv /\ ListInv
      BY <1>6 DEF WsInv
  <2>2. viewed.id \notin erased /\ viewed.title >= retitled[viewed.id] /\ viewed.id \in Chats
      BY <1>1, <1>2, <2>1 DEF MutationInv, GoneIsGone, Gone, ViewIsRecent, Recent, Views
  <2>3. /\ workspace' \in Workspaces /\ MutationsHold'
        /\ Listed(workspace) \subseteq Listed(workspace')
        /\ workspace'.cursor = workspace.cursor
        /\ workspace'.selected = IF viewed.id = workspace.pending THEN viewed.id ELSE workspace.selected
        /\ workspace'.pending = IF viewed.id = workspace.pending THEN Nil ELSE workspace.pending
      BY <1>1, <1>2, <1>6, <2>2, ObservedKeeps
  <2>4. StateTyped'
      BY <1>1, <1>2, <2>3 DEF StateTyped
  <2>5. SelectionInv'
      BY <1>1, <1>2, <1>6, <2>1, <2>3, SelectionStays DEF SamePlace
  <2>6. MutationInv'
    <3>1. \A c : Gone(c)' <=> Gone(c)
        BY <1>1 DEF Gone
    <3>2. \A c, n : Recent(c, n)' <=> Recent(c, n)
        BY <1>1 DEF Recent
    <3> QED
        BY <1>1, <2>1, <3>1, <3>2 DEF MutationInv, DeletedOnServer, GoneIsGone, RenamedOnServer,
           TitlesGrow, PageIsRecent, CreatedIsNew, LoadedIsRecent, ViewIsRecent, LoadIsRecent
  <2>7. ListInv'
    <3>1. /\ \A c : Creating(c)' <=> Creating(c)
          /\ Listed(workspace)' = Listed(workspace')
        BY <1>1 DEF Creating, Listed
    <3> QED
        BY <1>1, <2>1, <2>3, <3>1 DEF ListInv, Reached, CursorPaged, MoreContinues, PageReaches
  <2> QED
      BY <1>3, <1>4, <2>3, <2>4, <2>5, <2>6, <2>7 DEF WsInv, WsTyped
<1> QED
    BY <1>5, <1>6

\* A controller that is disposed of selects no more.
LEMMA WorkspaceDisposesKeeps ==
    ASSUME WsInv, WorkspaceDisposes
    PROVE  WsInv'
<1>1. /\ controllerDisposed' = TRUE /\ listOwner' = Nil /\ selectionOwner' = Nil
      /\ latestCreate' = Nil /\ unswayed' = {} /\ viewLoad' \in {Nil, viewLoad}
      /\ override' \in {Nil, override}
      /\ UNCHANGED <<existing, unborn, title, viewed, firstSelected, automatic, paged>>
      /\ UNCHANGED <<choice, deleting, renaming, erased, retitled, task, workspace>>
    BY DEF WorkspaceDisposes, serverVars, mutationVars
<1>2. WsTyped /\ StateTyped /\ MutationsHold
    BY DEF WsInv, WsTyped
<1>3. StateTyped'
    BY <1>1, <1>2 DEF StateTyped
<1>4. CallsFit' /\ MutationsAlone'
    BY <1>1, <1>2 DEF WsTyped, CallsFit, MutationsAlone
<1>5. ChoiceInv' /\ MutationsHold'
    BY <1>1, <1>2 DEF ChoiceInv, UserChoiceWins, UnswayedSaw, OwnerBegan, MutationsHold, Listed
<1> QED
    BY <1>1, <1>3, <1>4, <1>5 DEF WsInv, WsTyped

-----------------------------------------------------------------------------
(* The selection.                                                          *)

\* The user chooses: all that others would select is overruled.
LEMMA ChooseKeeps ==
    ASSUME WsInv, NEW t \in Tasks, NEW c \in Chats, Choose(t, c)
    PROVE  WsInv'
<1> DEFINE n == Begun("select", c)
<1>1. /\ "select" \in WorkspaceOps /\ ~controllerDisposed /\ task[t].phase = "idle"
      /\ automatic' = Nil /\ unswayed' = {} /\ choice' = t /\ Select(t, n, c, workspace)
      /\ UNCHANGED <<existing, unborn, title, viewed, firstSelected,
                     controllerDisposed, paged, listOwner,
                     latestCreate, deleting, renaming, erased, retitled>>
    BY DEF Choose, CanBegin, serverVars, fixedVars, mutationVars
<1>2. WsTyped /\ StateTyped /\ ChoiceInv /\ MutationsHold /\ SelectionInv /\ MutationInv /\ ListInv
      /\ workspace \in Workspaces
    BY <1>1 DEF WsInv, WsTyped, StateTyped
<1>3. n \in Calls /\ n.op = "select" /\ Selects(n)
  <2>1. choice \in {Nil} \cup Tasks
      BY <1>2 DEF StateTyped
  <2> QED
      BY <1>1, <2>1, BegunCall DEF Selects
<1> HIDE DEF n
<1>4. /\ \E k : /\ Moves(t, k) /\ k.op = "select" /\ k.reply = Nil
                /\ k.phase \in {"loading", "done"}
      /\ workspace' \in Workspaces /\ SameList(workspace', workspace)
      /\ selectionOwner' = t /\ viewLoad' \in {Nil, t} /\ override' = Nil /\ SelectionInv'
    BY <1>1, <1>2, <1>3, SelectKeeps
<1>5. PICK k : Moves(t, k) /\ k.op = "select" /\ k.reply = Nil /\ k.phase \in {"loading", "done"}
    BY <1>4
<1>6. ~Mutates(k, "rename") /\ ~Mutates(k, "delete") /\ ~Creates(task[t])
    BY <1>1, <1>5 DEF Mutates, Creates
<1>7. MutationsAlone'
  <2>1. \A s \in Tasks : \A op \in {"rename", "delete"} :
            Mutates(task'[s], op) => Mutates(task[s], op) /\ task'[s].chat = task[s].chat
      BY <1>5, <1>6 DEF Moves
  <2> QED
      BY <1>1, <1>2, <2>1, AloneKept DEF WsTyped
<1>8. WsTyped'
  <2>1. StateTyped'
      BY <1>1, <1>2, <1>4 DEF StateTyped
  <2> QED
      BY <1>5, <1>7, <2>1 DEF WsTyped, Moves
<1>9. ChoiceInv'
  <2>1. task'[t] = k
      BY <1>5 DEF Moves
  <2> QED
      BY <1>1, <1>4, <1>5, <2>1 DEF ChoiceInv, UserChoiceWins, UnswayedSaw, OwnerBegan
<1>10. MutationsHold'
    BY <1>1, <1>2, <1>4, ListedKept DEF SameList
<1>11. MutationInv'
    BY <1>1, <1>2, <1>4, <1>5, <1>6, QuietKeepsMutation
<1>12. ListInv'
  <2>1. Listed(workspace) \subseteq Listed(workspace') /\ workspace'.cursor = workspace.cursor
      BY <1>4 DEF Listed, SameList
  <2> QED
      BY <1>1, <1>2, <1>4, <1>5, <1>6, <2>1, QuietKeepsList
<1> QED
    BY <1>4, <1>8, <1>9, <1>10, <1>11, <1>12 DEF WsInv

\* A load returns what it has committed, under the title n.
LEMMA LoadMoves ==
    ASSUME CallsFit, override \in {Nil} \cup Nat, NEW t \in Tasks, ClientLoads(t)
    PROVE  \E k, n :
             /\ Moves(t, k) /\ k.op = task[t].op /\ k.phase = "returning"
             /\ k.chat = task[t].chat /\ k.saw = task[t].saw
             /\ IF viewLoad = t /\ task[t].reply.ok
                THEN /\ n = IF override # Nil THEN override ELSE task[t].reply.title
                     /\ Titled(task[t].chat, n) \in Views
                     /\ k.reply.title = n
                     /\ viewed' = Titled(task[t].chat, n)
                     /\ workspace' = Observed(workspace, Titled(task[t].chat, n))
                ELSE ~Answered(k) /\ UNCHANGED <<viewed, workspace>>
<1> DEFINE commits == viewLoad = t /\ task[t].reply.ok
           m == IF override # Nil THEN override ELSE task[t].reply.title
           loaded == [ok |-> TRUE, title |-> m]
           a == [task[t] EXCEPT !.phase = "returning"]
           k == [a EXCEPT !.reply = IF commits THEN loaded ELSE Failure]
<1>1. /\ Loads(task[t]) /\ task[t].phase = "loading" /\ task[t].reply # Nil
      /\ task[t] \in Calls /\ Fits(task[t])
    BY DEF ClientLoads, Loads, CallsFit
<1>2. task[t].chat \in Chats /\ Selects(task[t]) /\ (commits => m \in Nat)
    BY <1>1 DEF Fits, Answered
<1>3. /\ task' = [task EXCEPT ![t] = k]
      /\ viewed' = IF commits THEN Titled(task[t].chat, m) ELSE viewed
      /\ workspace' = IF commits THEN Observed(workspace, Titled(task[t].chat, m)) ELSE workspace
    BY DEF ClientLoads
<1>4. commits => loaded \in Answers /\ loaded.title = m
    BY <1>2 DEF Answers
<1>5. Failure \in Answers /\ ~Failure.ok
    BY DEF Answers, Failure
<1>6. commits => Titled(task[t].chat, m) \in Views
    BY <1>2 DEF Titled, Views
<1>7. a \in Calls /\ a.phase = "returning" /\ a.op = task[t].op /\ a.chat = task[t].chat
      /\ a.saw = task[t].saw
    BY <1>1 DEF Calls, Phases
<1> HIDE DEF a, loaded, m
<1>8. /\ k \in Calls /\ k.phase = "returning" /\ k.op = task[t].op /\ k.chat = task[t].chat
      /\ k.saw = task[t].saw /\ k.reply = IF commits THEN loaded ELSE Failure
    BY <1>4, <1>5, <1>7 DEF Calls
<1> HIDE DEF k
<1>9. Moves(t, k)
  <2>1. k.reply # Nil
    <3>1. Failure \in [ok : BOOLEAN]
        BY DEF Failure
    <3>2. commits => loaded \in [ok : {TRUE}, title : Nat]
        BY <1>2 DEF loaded
    <3> QED
        BY <1>8, <3>1, <3>2, WorkspaceAssumption
  <2> QED
      BY <1>2, <1>3, <1>4, <1>5, <1>8, <2>1, MovesTo DEF Fits, Selects, Answered, Lists, Creates,
         Loads, Loaded, Mutates
<1> QED
    BY <1>3, <1>4, <1>5, <1>6, <1>8, <1>9 DEF Answered, m

\* A load commits what it read, unless another selection has replaced it.
LEMMA ClientLoadsKeeps ==
    ASSUME WsInv, NEW t \in Tasks, ClientLoads(t)
    PROVE  WsInv'
<1> DEFINE c == task[t].chat
           commits == viewLoad = t /\ task[t].reply.ok
<1>1. /\ Loads(task[t]) /\ task[t].phase = "loading" /\ task[t].reply # Nil
      /\ viewLoad' = IF viewLoad = t THEN Nil ELSE viewLoad
      /\ override' = IF viewLoad = t THEN Nil ELSE override
      /\ UNCHANGED <<existing, unborn, title, firstSelected, controllerDisposed>>
      /\ UNCHANGED <<listOwner, selectionOwner, automatic, unswayed, paged>>
      /\ UNCHANGED <<choice, latestCreate, deleting, renaming, erased, retitled>>
    BY DEF ClientLoads, Loads, serverVars, fixedVars, selectionVars, mutationVars
<1>2. WsTyped /\ StateTyped /\ CallsFit /\ ChoiceInv /\ MutationsHold /\ workspace \in Workspaces
      /\ retitled \in [Chats -> Nat]
    BY DEF WsInv, WsTyped, StateTyped
<1>3. PICK k, n :
             /\ Moves(t, k) /\ k.op = task[t].op /\ k.phase = "returning"
             /\ k.chat = c /\ k.saw = task[t].saw
             /\ IF commits
                THEN /\ n = IF override # Nil THEN override ELSE task[t].reply.title
                     /\ Titled(c, n) \in Views
                     /\ k.reply.title = n
                     /\ viewed' = Titled(c, n)
                     /\ workspace' = Observed(workspace, Titled(c, n))
                ELSE ~Answered(k) /\ UNCHANGED <<viewed, workspace>>
    BY <1>2, LoadMoves DEF StateTyped
<1>4. /\ Selects(task[t]) /\ c \in Chats /\ t # Nil
      /\ task'[t] = k /\ \A s \in Tasks : s # t => task'[s] = task[s]
    BY <1>1, <1>2, <1>3, WorkspaceAssumption DEF CallsFit, Fits, Moves
<1> DEFINE v == Titled(c, n)
<1>5. v.id = c /\ v.title = n
    BY DEF Titled
<1> HIDE DEF v
<1>6. MutationsAlone'
  <2>1. \A s \in Tasks : \A op \in {"rename", "delete"} :
            Mutates(task'[s], op) => Mutates(task[s], op) /\ task'[s].chat = task[s].chat
      BY <1>3, <1>4 DEF Mutates, Selects
  <2> QED
      BY <1>1, <1>2, <2>1, AloneKept DEF WsTyped
<1>7. ChoiceInv'
    BY <1>1, <1>2, <1>3, ChoiceKept
<1>8. viewed' \in {Nil} \cup Views /\ CallsFit'
    BY <1>2, <1>3 DEF Moves, StateTyped, v
<1>9. CASE controllerDisposed
  <2>1. workspace' = workspace
      BY <1>3, <1>9 DEF Observed
  <2>2. StateTyped' /\ MutationsHold'
      BY <1>1, <1>2, <1>8, <2>1 DEF StateTyped, MutationsHold, Listed
  <2> QED
      BY <1>1, <1>6, <1>7, <1>8, <1>9, <2>2 DEF WsInv, WsTyped
<1>10. CASE ~controllerDisposed
  <2>1. SelectionInv /\ MutationInv /\ ListInv
      BY <1>10 DEF WsInv
  <2>2. /\ \A d : Gone(d)' <=> Gone(d)
        /\ \A d, m : Recent(d, m)' <=> Recent(d, m)
      BY <1>1, <1>3, <1>4 DEF Gone, Recent, Told, Selects
  <2>3. ASSUME commits
        PROVE  /\ v \in Views /\ ~Gone(c) /\ Recent(c, n)
               /\ viewed' = v /\ workspace' = Observed(workspace, v) /\ k.reply.title = n
    <3>1. Answered(task[t]) /\ viewLoad # Nil
        BY <1>1, <1>4, <2>3 DEF Answered
    <3>2. ~Gone(c)
        BY <1>4, <2>1, <2>3, <3>1 DEF MutationInv, GoneIsGone
    <3>3. Recent(c, n)
        BY <1>3, <2>1, <2>3, <3>1 DEF MutationInv, LoadIsRecent
    <3> QED
        BY <1>3, <2>3, <3>2, <3>3 DEF v
  <2>4. /\ workspace' \in Workspaces /\ MutationsHold'
        /\ Listed(workspace) \subseteq Listed(workspace')
        /\ workspace'.cursor = workspace.cursor
        /\ IF commits
           THEN /\ workspace'.selected = IF c = workspace.pending THEN c ELSE workspace.selected
                /\ workspace'.pending = IF c = workspace.pending THEN Nil ELSE workspace.pending
           ELSE workspace' = workspace
    <3>1. CASE commits
      <4>1. c \notin erased /\ n >= retitled[c]
          BY <2>3, <3>1 DEF Gone, Recent
      <4> QED
          BY <1>1, <1>2, <1>5, <1>10, <2>3, <3>1, <4>1, ObservedKeeps
    <3>2. CASE ~commits
        BY <1>1, <1>2, <1>3, <3>2 DEF MutationsHold, Listed
    <3> QED
        BY <3>1, <3>2
  <2>5. StateTyped'
      BY <1>1, <1>2, <1>8, <2>4 DEF StateTyped
  <2>6. SelectionInv'
    <3>1. selectionOwner \in {Nil} \cup Tasks /\ viewLoad \in {Nil} \cup Tasks
        BY <1>2 DEF StateTyped
    <3>2. OwnerActs'
        BY <1>1, <1>3, <1>4, <2>1, <3>1 DEF SelectionInv, OwnerActs, Selects
    <3>3. CASE commits
      <4>1. /\ selectionOwner = t
            /\ workspace.pending = c \/ (workspace.pending = Nil /\ workspace.selected = c)
          BY <1>4, <2>1, <3>3 DEF SelectionInv, LoadIsOwners
      <4>2. workspace'.selected = c /\ viewed' = v /\ v \in Views /\ viewLoad' = Nil
          BY <1>1, <2>3, <2>4, <3>3, <4>1
      <4>3. viewed' # Nil
          BY <4>2, WorkspaceAssumption DEF Views
      <4>4. SelectionIsDisplayed' /\ CommittedIsDisplayed' /\ LoadIsOwners'
          BY <1>1, <1>3, <1>4, <1>5, <4>1, <4>2, <4>3 DEF SelectionIsDisplayed,
             CommittedIsDisplayed, LoadIsOwners
      <4> QED
          BY <3>2, <4>4 DEF SelectionInv
    <3>4. CASE ~commits
      <4>1. workspace' = workspace /\ viewed' = viewed /\ ~Answered(k)
          BY <1>3, <3>4
      <4>2. SelectionIsDisplayed' /\ CommittedIsDisplayed'
          BY <1>1, <1>3, <1>4, <2>1, <3>1, <4>1 DEF SelectionInv, SelectionIsDisplayed,
             CommittedIsDisplayed
      <4>3. LoadIsOwners'
          BY <1>1, <1>3, <1>4, <2>1, <3>1, <4>1 DEF SelectionInv, LoadIsOwners, Loads
      <4> QED
          BY <3>2, <4>2, <4>3 DEF SelectionInv
    <3> QED
        BY <3>3, <3>4
  <2>7. MutationInv'
    <3>1. viewLoad \in {Nil} \cup Tasks /\ listOwner \in {Nil} \cup Tasks
        BY <1>2 DEF StateTyped
    <3>2. DeletedOnServer' /\ RenamedOnServer' /\ CreatedIsNew'
        BY <1>1, <1>3, <1>4, <2>1 DEF MutationInv, DeletedOnServer, RenamedOnServer, CreatedIsNew,
           Mutates, Selects, Creates
    <3>3. TitlesGrow' /\ PageIsRecent'
        BY <1>1, <1>3, <1>4, <2>1, <3>1 DEF MutationInv, TitlesGrow, PageIsRecent, Lists
    <3>4. LoadedIsRecent'
        BY <1>1, <1>3, <1>4, <2>1, <2>3 DEF MutationInv, LoadedIsRecent, Gone, Recent
    <3>5. ViewIsRecent'
        BY <1>3, <1>5, <2>1, <2>2, <2>3 DEF MutationInv, ViewIsRecent
    <3>6. GoneIsGone'
        BY <1>1, <1>3, <1>4, <1>5, <2>1, <2>2, <2>3, <3>1 DEF MutationInv, GoneIsGone
    <3>7. LoadIsRecent'
        BY <1>1, <1>4, <2>1, <2>2, <3>1 DEF MutationInv, LoadIsRecent
    <3> QED
        BY <3>2, <3>3, <3>4, <3>5, <3>6, <3>7 DEF MutationInv
  <2>8. ListInv'
    <3>1. listOwner \in {Nil} \cup Tasks
        BY <1>2 DEF StateTyped
    <3>2. \A d : Creating(d) => Creating(d)'
        BY <1>1, <1>3, <1>4 DEF Creating, Creates
    <3>3. Listed(workspace)' = Listed(workspace')
        BY DEF Listed
    <3>4. Reached' /\ CursorPaged'
        BY <1>1, <2>1, <2>4, <3>2, <3>3 DEF ListInv, Reached, CursorPaged
    <3>5. MoreContinues' /\ PageReaches'
        BY <1>1, <1>3, <1>4, <2>1, <2>4, <3>1, <3>2, <3>3 DEF ListInv, MoreContinues,
           PageReaches, Lists
    <3> QED
        BY <3>4, <3>5 DEF ListInv
  <2> QED
      BY <1>6, <1>7, <1>8, <2>4, <2>5, <2>6, <2>7, <2>8 DEF WsInv, WsTyped
<1> QED
    BY <1>9, <1>10

\* The selection takes over what its load has committed, unless it is stale.
LEMMA SelectionSettlesKeeps ==
    ASSUME WsInv, NEW t \in Tasks, SelectionSettles(t)
    PROVE  WsInv'
<1> DEFINE r == task[t].reply
           v == Titled(task[t].chat, r.title)
<1>1. /\ Loaded(task[t]) /\ task[t].phase = "returning" /\ Selects(task[t]) /\ Finish(t)
      /\ automatic' \in {Nil, automatic}
      /\ UNCHANGED <<existing, unborn, title, viewed, viewLoad, override, firstSelected>>
      /\ UNCHANGED <<controllerDisposed, listOwner, selectionOwner, unswayed, paged>>
      /\ UNCHANGED <<choice, latestCreate, deleting, renaming, erased, retitled>>
    BY DEF SelectionSettles, Loaded, Selects, serverVars, clientVars, fixedVars, mutationVars
<1>2. /\ WsTyped /\ StateTyped /\ ChoiceInv /\ MutationsHold /\ task[t] \in Calls
      /\ workspace \in Workspaces /\ t # Nil
    BY WorkspaceAssumption DEF WsInv, WsTyped, CallsFit, StateTyped
<1>3. PICK k : /\ Moves(t, k) /\ k.op = task[t].op /\ k.saw = task[t].saw /\ k.reply = Nil
               /\ k.phase = "done"
    BY <1>1, <1>2, FinishMoves, FinishedCall DEF WsTyped
<1>4. /\ task'[t] = k /\ \A s \in Tasks : s # t => task'[s] = task[s]
      /\ ~Mutates(k, "rename") /\ ~Mutates(k, "delete") /\ ~Creates(task[t])
    BY <1>1, <1>3 DEF Mutates, Creates, Moves
<1>5. ASSUME CurrentSelection(t), r.ok
      PROVE  /\ v \in Views /\ v.id = task[t].chat /\ v.title = r.title /\ Answered(task[t])
             /\ workspace' = Selected(workspace, v)
  <2>1. r # Nil /\ task[t].chat \in Chats
      BY <1>1, <1>2 DEF WsTyped, CallsFit, Fits
  <2>2. r.title \in Nat
      BY <1>1, <1>2, <1>5, <2>1 DEF WsTyped, CallsFit, Fits, Answered
  <2>3. workspace' = Selected(workspace, v)
      BY <1>5 DEF SelectionSettles
  <2> QED
      BY <1>5, <2>1, <2>2, <2>3 DEF Titled, Views, Answered
<1> HIDE DEF v
<1>6. CurrentSelection(t) \/ workspace' = workspace
    BY DEF SelectionSettles
<1>7. ASSUME CurrentSelection(t), ~r.ok PROVE workspace' = SelectionFailed(workspace)
    BY <1>7 DEF SelectionSettles
<1>8. /\ workspace' \in Workspaces /\ workspace'.cursor = workspace.cursor
      /\ \A c \in Chats : \/ workspace'.listed[c] = workspace.listed[c]
                          \/ /\ CurrentSelection(t) /\ r.ok /\ c = task[t].chat
                             /\ workspace'.listed[c] = r.title /\ r.title \in Nat
      /\ \/ SamePlace(workspace', workspace)
         \/ /\ CurrentSelection(t)
            /\ workspace'.selected = IF r.ok THEN task[t].chat ELSE workspace.selected
  <2>1. CASE workspace' = workspace
      BY <1>2, <2>1 DEF SamePlace
  <2>2. CASE CurrentSelection(t) /\ ~r.ok
      BY <1>2, <1>7, <2>2, SelectionFailedFields DEF SameList
  <2>3. CASE CurrentSelection(t) /\ r.ok
    <3>1. /\ v \in Views /\ v.id = task[t].chat /\ v.title = r.title
          /\ workspace' = Selected(workspace, v) /\ v.title \in Nat
        BY <1>5, <2>3 DEF Views
    <3> QED
        BY <1>2, <2>3, <3>1, SelectedFields DEF Puts
  <2> QED
      BY <1>6, <2>1, <2>2, <2>3
<1>9. MutationsAlone'
  <2>1. \A s \in Tasks : \A op \in {"rename", "delete"} :
            Mutates(task'[s], op) => Mutates(task[s], op) /\ task'[s].chat = task[s].chat
      BY <1>4
  <2> QED
      BY <1>1, <1>2, <2>1, AloneKept DEF WsTyped
<1>10. WsTyped'
  <2>1. StateTyped'
      BY <1>1, <1>2, <1>8 DEF StateTyped
  <2> QED
      BY <1>3, <1>9, <2>1 DEF WsTyped, Moves
<1>11. ChoiceInv'
    BY <1>1, <1>2, <1>3, ChoiceKept
<1>12. MutationsHold'
  <2>1. ASSUME CurrentSelection(t), r.ok
        PROVE  task[t].chat \notin erased /\ r.title >= retitled[task[t].chat]
      BY <1>1, <1>5, <2>1 DEF WsInv, MutationInv, LoadedIsRecent, CurrentSelection
  <2> QED
      BY <1>1, <1>2, <1>8, <2>1, ListedKept
<1>13. ASSUME ~controllerDisposed PROVE SelectionInv' /\ MutationInv' /\ ListInv'
  <2>1. SelectionInv /\ MutationInv /\ ListInv
      BY <1>13 DEF WsInv
  <2>2. viewLoad # t /\ (CurrentSelection(t) => viewLoad = Nil)
      BY <1>1, <1>2, <2>1 DEF SelectionInv, LoadIsOwners, Loads, CurrentSelection
  <2>3. SelectionInv'
    <3>1. CASE SamePlace(workspace', workspace)
        BY <1>1, <1>2, <1>3, <2>1, <3>1, PlaceKept
    <3>2. CASE /\ CurrentSelection(t)
               /\ workspace'.selected = IF r.ok THEN task[t].chat ELSE workspace.selected
      <4>1. selectionOwner = t /\ viewLoad' = Nil
          BY <1>1, <2>2, <3>2 DEF CurrentSelection
      <4>2. r.ok => viewed # Nil /\ viewed.id = task[t].chat
          BY <1>1, <1>2, <1>5, <2>1, <3>2, <4>1 DEF SelectionInv, CommittedIsDisplayed
      <4>3. SelectionIsDisplayed'
          BY <1>1, <2>1, <3>2, <4>2 DEF SelectionInv, SelectionIsDisplayed
      <4>4. OwnerActs' /\ LoadIsOwners' /\ CommittedIsDisplayed'
          BY <1>1, <1>3, <1>4, <4>1 DEF OwnerActs, LoadIsOwners, CommittedIsDisplayed, Selects,
             Loaded
      <4> QED
          BY <4>3, <4>4 DEF SelectionInv
    <3> QED
        BY <1>8, <3>1, <3>2
  <2>4. MutationInv'
      BY <1>1, <1>2, <1>3, <1>4, <2>1, <2>2, QuietKeepsMutation
  <2>5. Listed(workspace) \subseteq Listed(workspace') /\ workspace'.cursor = workspace.cursor
      BY <1>8, WorkspaceAssumption DEF Listed
  <2>6. ListInv'
      BY <1>1, <1>2, <1>3, <1>4, <2>1, <2>5, QuietKeepsList
  <2> QED
      BY <2>3, <2>4, <2>6
<1> QED
    BY <1>1, <1>10, <1>11, <1>12, <1>13 DEF WsInv

-----------------------------------------------------------------------------
(* The end of a mutation.                                                  *)

\* The client gives its view, and the load that is pending, the new title.
LEMMA ClientRenamedKeeps ==
    ASSUME WsInv, NEW t \in Tasks, ClientRenamed(t)
    PROVE  WsInv'
<1> DEFINE c == task[t].chat
           r == task[t].reply
           v == Titled(c, r.title)
           shows == r.ok /\ viewed # Nil /\ viewed.id = c
<1>1. /\ task[t].op = "rename" /\ task[t].phase = "requested" /\ r # Nil
      /\ Mutates(task[t], "rename")
      /\ override' = IF r.ok /\ viewLoad # Nil /\ task[viewLoad].chat = c THEN r.title ELSE override
      /\ viewed' = IF shows THEN v ELSE viewed
      /\ workspace' = IF shows THEN Observed(workspace, v) ELSE workspace
      /\ UNCHANGED <<existing, unborn, title, viewLoad, firstSelected>>
      /\ UNCHANGED <<controllerDisposed, listOwner, selectionOwner, automatic, unswayed, paged>>
      /\ UNCHANGED <<choice, latestCreate, deleting, renaming, erased, retitled>>
    BY DEF ClientRenamed, Mutates, serverVars, fixedVars, selectionVars, mutationVars
<1>2. /\ WsTyped /\ StateTyped /\ ChoiceInv /\ MutationsHold /\ MutationsAlone /\ CallsFit
      /\ workspace \in Workspaces /\ retitled \in [Chats -> Nat] /\ title \in [Chats -> Nat] /\ t # Nil
    BY WorkspaceAssumption DEF WsInv, WsTyped, StateTyped
<1>3. c \in Chats /\ (r.ok => Answered(task[t]) /\ r.title \in Nat)
    BY <1>1, <1>2 DEF CallsFit, Fits, Answered
<1>4. PICK k : /\ Moves(t, k) /\ k.op = "rename" /\ k.phase = "returning"
               /\ k.chat = c /\ k.reply = r /\ k.saw = task[t].saw
  <2>1. task' = [task EXCEPT ![t].phase = "returning"]
      BY DEF ClientRenamed
  <2> QED
      BY <1>1, <1>2, <2>1, ReturningMoves
<1>5. task'[t] = k /\ \A s \in Tasks : s # t => task'[s] = task[s]
    BY <1>4 DEF Moves
<1>6. r.ok => v \in Views /\ v.id = c /\ v.title = r.title
    BY <1>3 DEF Titled, Views
<1> HIDE DEF v
<1>7. MutationsAlone'
  <2>1. \A s \in Tasks : \A op \in {"rename", "delete"} :
            Mutates(task'[s], op) => Mutates(task[s], op) /\ task'[s].chat = task[s].chat
      BY <1>1, <1>4, <1>5 DEF Mutates
  <2> QED
      BY <1>1, <1>2, <2>1, AloneKept
<1>8. ChoiceInv'
    BY <1>1, <1>2, <1>4, ChoiceKept
<1>9. viewed' \in {Nil} \cup Views /\ override' \in {Nil} \cup Nat /\ CallsFit'
    BY <1>1, <1>2, <1>3, <1>4, <1>6 DEF StateTyped, Moves
<1>10. CASE controllerDisposed
  <2>1. workspace' = workspace
      BY <1>1, <1>10 DEF Observed
  <2>2. StateTyped' /\ MutationsHold'
      BY <1>1, <1>2, <1>9, <2>1 DEF StateTyped, MutationsHold, Listed
  <2> QED
      BY <1>1, <1>7, <1>8, <1>9, <1>10, <2>2 DEF WsInv, WsTyped
<1>11. CASE ~controllerDisposed
  <2>1. SelectionInv /\ MutationInv /\ ListInv
      BY <1>11 DEF WsInv
  <2>2. viewLoad # t /\ viewLoad \in {Nil} \cup Tasks /\ listOwner \in {Nil} \cup Tasks
      BY <1>1, <1>2, <2>1 DEF SelectionInv, LoadIsOwners, Loads, StateTyped
  <2>3. r.ok => c \notin erased /\ retitled[c] <= r.title /\ r.title <= title[c]
      BY <1>1, <1>3, <2>1 DEF MutationInv, RenamedOnServer
  <2>4. /\ workspace' \in Workspaces /\ MutationsHold'
        /\ Listed(workspace) \subseteq Listed(workspace')
        /\ workspace'.cursor = workspace.cursor
        /\ \/ SamePlace(workspace', workspace)
           \/ /\ viewed # Nil /\ workspace.pending = viewed.id
              /\ workspace'.pending = Nil /\ workspace'.selected = viewed.id
    <3>1. CASE shows
      <4>1. r.title >= retitled[c]
          BY <1>2, <1>3, <2>3, <3>1
      <4>2. /\ workspace' \in Workspaces /\ MutationsHold'
            /\ Listed(workspace) \subseteq Listed(workspace')
            /\ workspace'.cursor = workspace.cursor
            /\ workspace'.selected = IF c = workspace.pending THEN c ELSE workspace.selected
            /\ workspace'.pending = IF c = workspace.pending THEN Nil ELSE workspace.pending
          BY <1>1, <1>2, <1>6, <1>11, <2>3, <3>1, <4>1, ObservedKeeps
      <4> QED
          BY <3>1, <4>2 DEF SamePlace
    <3>2. CASE ~shows
        BY <1>1, <1>2, <3>2 DEF MutationsHold, Listed, SamePlace
    <3> QED
        BY <3>1, <3>2
  <2>5. StateTyped'
      BY <1>1, <1>2, <1>9, <2>4 DEF StateTyped
  <2>6. SelectionInv'
    <3>1. \A s \in Tasks : Selects(task[s]) => task'[s] = task[s]
        BY <1>1, <1>5 DEF Selects
    <3>2. \/ viewed = Nil /\ viewed' = Nil
          \/ viewed # Nil /\ viewed' # Nil /\ viewed'.id = viewed.id
        BY <1>1, <1>6, WorkspaceAssumption DEF Views
    <3> QED
        BY <1>1, <1>2, <1>11, <2>1, <2>4, <3>1, <3>2, SelectionStays
  <2>7. \A s \in Tasks : s # t /\ Told(task[s], "rename") => task[s].chat # c
      BY <1>1, <1>2 DEF MutationsAlone, Told, Mutates
  <2>8. \A d : Gone(d)' <=> Gone(d)
      BY <1>1, <1>4, <1>5 DEF Gone, Told
  <2>9. \A d, m : Recent(d, m) /\ (r.ok => d # c) => Recent(d, m)'
      BY <1>1, <1>4, <1>5 DEF Recent, Told, Answered
  <2>10. PICK e, n : e = c /\ n = r.title
      OBVIOUS
  <2>11. r.ok => Recent(e, n)'
      BY <1>1, <1>2, <1>3, <1>4, <1>5, <2>3, <2>7, <2>10 DEF Recent
  <2>12. MutationInv'
    <3>1. DeletedOnServer' /\ TitlesGrow' /\ CreatedIsNew' /\ LoadedIsRecent'
        BY <1>1, <1>4, <1>5, <2>1 DEF MutationInv, DeletedOnServer, TitlesGrow, CreatedIsNew,
           LoadedIsRecent, Mutates, Creates, Loaded, Selects
    <3>2. RenamedOnServer'
        BY <1>1, <1>4, <1>5, <2>1 DEF MutationInv, RenamedOnServer, Mutates, Answered
    <3>3. PageIsRecent'
        BY <1>1, <1>4, <1>5, <2>1, <2>2 DEF MutationInv, PageIsRecent, Lists
    <3>4. GoneIsGone'
        BY <1>1, <1>5, <1>6, <2>1, <2>2, <2>8 DEF MutationInv, GoneIsGone
    <3>5. ViewIsRecent'
        BY <1>1, <1>6, <2>1, <2>9, <2>10, <2>11 DEF MutationInv, ViewIsRecent
    <3>6. LoadIsRecent'
        BY <1>1, <1>3, <1>5, <2>1, <2>2, <2>9, <2>10, <2>11, WorkspaceAssumption DEF MutationInv,
           LoadIsRecent
    <3> QED
        BY <3>1, <3>2, <3>3, <3>4, <3>5, <3>6 DEF MutationInv
  <2>13. ListInv'
    <3>1. \A d : Creating(d) => Creating(d)'
        BY <1>1, <1>4, <1>5 DEF Creating, Creates
    <3>2. Listed(workspace)' = Listed(workspace')
        BY DEF Listed
    <3>3. Reached' /\ CursorPaged'
        BY <1>1, <2>1, <2>4, <3>1, <3>2 DEF ListInv, Reached, CursorPaged
    <3>4. MoreContinues' /\ PageReaches'
        BY <1>1, <1>4, <1>5, <2>1, <2>2, <2>4, <3>1, <3>2 DEF ListInv, MoreContinues,
           PageReaches, Lists
    <3> QED
        BY <3>3, <3>4 DEF ListInv
  <2> QED
      BY <1>7, <1>8, <1>9, <2>4, <2>5, <2>6, <2>12, <2>13 DEF WsInv, WsTyped
<1> QED
    BY <1>10, <1>11

\* The mutation of a call that ends gives its conversation free.
LEMMA MutationEnds ==
    ASSUME MutationsAlone, NEW t \in Tasks, NEW op \in {"rename", "delete"}, Mutates(task[t], op),
           NEW k, Moves(t, k), k.phase = "done",
           IF op = "rename" THEN renaming' = renaming \ {task[t].chat} /\ deleting' = deleting
                            ELSE deleting' = deleting \ {task[t].chat} /\ renaming' = renaming
    PROVE  /\ MutationsAlone'
           /\ \A s \in Tasks : s # t /\ (Mutates(task[s], "rename") \/ Mutates(task[s], "delete")) =>
                task[s].chat # task[t].chat
<1>1. \A s \in Tasks : s # t /\ (Mutates(task[s], "rename") \/ Mutates(task[s], "delete")) =>
          task[s].chat # task[t].chat
    BY DEF MutationsAlone
<1>2. task'[t] = k /\ (\A s \in Tasks : s # t => task'[s] = task[s])
      /\ ~Mutates(k, "rename") /\ ~Mutates(k, "delete")
    BY DEF Moves, Mutates
<1>3. /\ \A s \in Tasks : Mutates(task'[s], "rename") => task'[s].chat \in renaming'
      /\ \A s \in Tasks : Mutates(task'[s], "delete") => task'[s].chat \in deleting'
    BY <1>1, <1>2 DEF MutationsAlone
<1>4. ASSUME NEW s \in Tasks, NEW u \in Tasks,
             Mutates(task'[s], "rename") \/ Mutates(task'[s], "delete"),
             Mutates(task'[u], "rename") \/ Mutates(task'[u], "delete"),
             task'[s].chat = task'[u].chat
      PROVE  s = u
    BY <1>2, <1>4 DEF MutationsAlone
<1> QED
    BY <1>1, <1>3, <1>4 DEF MutationsAlone

\* The list gets the new title, and no answer still to come knows an older one.
LEMMA RenameSettlesKeeps ==
    ASSUME WsInv, NEW t \in Tasks, RenameSettles(t)
    PROVE  WsInv'
<1> DEFINE r == task[t].reply
           v == Titled(task[t].chat, r.title)
           u == Upserted(workspace, v)
           w == [u EXCEPT !.status = "ready"]
           applies == ~controllerDisposed /\ r.ok
<1>1. PICK c, n : c = task[t].chat /\ n = r.title
    OBVIOUS
<1>2. /\ task[t].op = "rename" /\ task[t].phase = "returning" /\ Mutates(task[t], "rename")
      /\ renaming' = renaming \ {c} /\ listOwner' = IF applies THEN Nil ELSE listOwner
      /\ workspace' = IF applies THEN w ELSE workspace
      /\ retitled' = IF applies /\ ~OlderAnswer(c) THEN [retitled EXCEPT ![c] = n] ELSE retitled
      /\ Finish(t)
      /\ UNCHANGED <<existing, unborn, title, viewed, viewLoad, override, firstSelected>>
      /\ UNCHANGED <<controllerDisposed, selectionOwner, automatic, unswayed, paged>>
      /\ UNCHANGED <<choice, latestCreate, deleting, erased>>
    BY <1>1 DEF RenameSettles, Mutates, serverVars, clientVars, fixedVars, selectionVars
<1>3. /\ WsTyped /\ StateTyped /\ ChoiceInv /\ MutationsHold /\ MutationsAlone /\ CallsFit
      /\ workspace \in Workspaces /\ retitled \in [Chats -> Nat] /\ title \in [Chats -> Nat]
      /\ task[t] \in Calls /\ t # Nil
    BY WorkspaceAssumption DEF WsInv, WsTyped, StateTyped, CallsFit
<1>4. c \in Chats /\ (r.ok => Answered(task[t]) /\ n \in Nat /\ Told(task[t], "rename"))
    BY <1>1, <1>2, <1>3 DEF CallsFit, Fits, Answered, Told
<1>5. PICK k : /\ Moves(t, k) /\ k.op = "rename" /\ k.saw = task[t].saw /\ k.reply = Nil
               /\ k.phase = "done"
    BY <1>2, <1>3, FinishMoves, FinishedCall
<1>6. /\ task'[t] = k /\ \A s \in Tasks : s # t => task'[s] = task[s]
      /\ ~Answered(k) /\ ~Mutates(k, "rename") /\ ~Mutates(k, "delete") /\ ~Creates(task[t])
    BY <1>2, <1>5 DEF Mutates, Creates, Moves, Answered
<1>7. ASSUME applies
      PROVE  /\ w \in Workspaces /\ SamePlace(w, workspace) /\ w.cursor = workspace.cursor
             /\ \A d \in Chats : w.listed[d] = IF d = c THEN n ELSE workspace.listed[d]
  <2>1. v \in Views /\ v.id = c /\ v.title = n
      BY <1>1, <1>4, <1>7 DEF Titled, Views
  <2> HIDE DEF v
  <2>2. u \in Workspaces /\ Puts(u, workspace, v) /\ SamePlace(u, workspace)
      BY <1>3, <2>1, UpsertedFields
  <2> HIDE DEF u
  <2>3. "ready" \in Statuses
      BY DEF Statuses
  <2>4. w \in Workspaces /\ SamePlace(w, u) /\ w.listed = u.listed /\ w.cursor = u.cursor
      BY <2>2, <2>3, ReplacedStatus
  <2> QED
      BY <2>1, <2>2, <2>4 DEF Puts, SamePlace
<1> HIDE DEF w
<1>8. /\ MutationsAlone'
      /\ \A s \in Tasks : s # t /\ (Mutates(task[s], "rename") \/ Mutates(task[s], "delete")) =>
            task[s].chat # c
    BY <1>1, <1>2, <1>3, <1>5, MutationEnds
<1>9. /\ workspace' \in Workspaces /\ SamePlace(workspace', workspace)
      /\ workspace'.cursor = workspace.cursor
      /\ \A d \in Chats : workspace'.listed[d] = IF d = c /\ applies THEN n ELSE workspace.listed[d]
    BY <1>2, <1>3, <1>7 DEF SamePlace
<1>10. /\ retitled' \in [Chats -> Nat]
       /\ \A d \in Chats : retitled'[d] = IF d = c /\ applies /\ ~OlderAnswer(c)
                                           THEN n ELSE retitled[d]
    BY <1>2, <1>3, <1>4
<1>11. WsTyped'
  <2>1. StateTyped'
      BY <1>2, <1>3, <1>9, <1>10 DEF StateTyped
  <2> QED
      BY <1>5, <1>8, <2>1 DEF WsTyped, Moves
<1>12. ChoiceInv'
    BY <1>2, <1>3, <1>5, ChoiceKept
<1>13. applies /\ MutationInv => c \notin erased /\ retitled[c] <= n /\ n <= title[c] /\ c \notin unborn
    BY <1>1, <1>2, <1>4 DEF MutationInv, RenamedOnServer
<1>14. MutationsHold'
  <2>1. applies => MutationInv
      BY DEF WsInv
  <2>2. SUFFICES ASSUME NEW d \in Chats, workspace'.listed[d] # Nil
                 PROVE  d \notin erased /\ workspace'.listed[d] >= retitled'[d]
      BY <1>2 DEF MutationsHold, Listed
  <2>3. CASE d = c /\ applies
    <3>1. retitled[c] \in Nat /\ n \in Nat
        BY <1>3, <1>4, <2>3
    <3> QED
        BY <1>9, <1>10, <1>13, <2>1, <2>3, <3>1
  <2>4. CASE ~(d = c /\ applies)
    <3>1. workspace'.listed[d] = workspace.listed[d] /\ retitled'[d] = retitled[d]
        BY <1>9, <1>10, <2>4
    <3> QED
        BY <1>3, <2>2, <3>1 DEF MutationsHold, Listed
  <2> QED
      BY <2>3, <2>4
<1>15. ASSUME ~controllerDisposed PROVE SelectionInv' /\ MutationInv' /\ ListInv'
  <2>1. SelectionInv /\ MutationInv /\ ListInv
      BY <1>15 DEF WsInv
  <2>2. viewLoad # t /\ viewLoad \in {Nil} \cup Tasks /\ listOwner \in {Nil} \cup Tasks
      BY <1>2, <1>3, <2>1 DEF SelectionInv, LoadIsOwners, Loads, StateTyped
  <2>3. SelectionInv'
      BY <1>2, <1>3, <1>5, <1>9, <2>1, PlaceKept
  <2>4. \A d : Gone(d)' <=> Gone(d)
      BY <1>2, <1>6 DEF Gone, Told
  <2>5. ASSUME NEW d \in Chats, NEW m \in Nat, Recent(d, m) PROVE Recent(d, m)'
    <3>1. m >= retitled'[d]
        BY <1>1, <1>4, <1>10, <2>5 DEF Recent
    <3> QED
        BY <1>6, <2>5, <3>1 DEF Recent, Told
  <2>6. ~OlderAnswer(c) => \A s \in Tasks : Answered(task[s]) =>
            /\ Loaded(task[s]) => task[s].chat # c
            /\ Creates(task[s]) => task[s].reply.chat # c
      BY DEF OlderAnswer, Answered, Loaded, Selects, Creates
  <2>7. MutationInv'
    <3>1. DeletedOnServer'
        BY <1>2, <1>6, <2>1 DEF MutationInv, DeletedOnServer
    <3>2. CreatedIsNew'
        BY <1>2, <1>3, <1>6, <1>10, <2>1, <2>6 DEF MutationInv, CreatedIsNew, CallsFit, Fits
    <3>3. LoadedIsRecent'
      <4>1. SUFFICES ASSUME NEW s \in Tasks, Loaded(task'[s]), Answered(task'[s])
                     PROVE  task'[s].chat \notin erased' /\ task'[s].reply.title >= retitled'[task'[s].chat]
          BY DEF LoadedIsRecent
      <4>2. /\ task'[s] = task[s] /\ task[s].chat \in Chats
            /\ Loaded(task[s]) /\ Answered(task[s])
          BY <1>3, <1>6, <4>1 DEF CallsFit, Fits, Loaded
      <4>3. task[s].chat \notin erased /\ task[s].reply.title >= retitled[task[s].chat]
          BY <2>1, <4>1, <4>2 DEF MutationInv, LoadedIsRecent
      <4>4. retitled'[task[s].chat] = retitled[task[s].chat]
        <5>1. CASE task[s].chat = c /\ applies /\ ~OlderAnswer(c)
            BY <2>6, <4>2, <5>1
        <5>2. CASE ~(task[s].chat = c /\ applies /\ ~OlderAnswer(c))
            BY <1>10, <4>2, <5>2
        <5> QED
            BY <5>1, <5>2
      <4> QED
          BY <1>2, <4>2, <4>3, <4>4
    <3>4. RenamedOnServer'
        BY <1>2, <1>3, <1>6, <1>8, <1>10, <2>1 DEF MutationInv, RenamedOnServer, CallsFit, Fits
    <3>5. TitlesGrow'
        BY <1>2, <1>10, <1>13, <2>1 DEF MutationInv, TitlesGrow
    <3>6. PageIsRecent'
      <4>1. CASE applies
          BY <1>2, <4>1 DEF PageIsRecent
      <4>2. CASE ~applies
          BY <1>2, <1>6, <2>1, <2>2, <4>2 DEF MutationInv, PageIsRecent
      <4> QED
          BY <4>1, <4>2
    <3>7. GoneIsGone'
        BY <1>2, <1>6, <2>1, <2>2, <2>4 DEF MutationInv, GoneIsGone
    <3>8. ViewIsRecent'
      <4>1. viewed # Nil => viewed.id \in Chats /\ viewed.title \in Nat
          BY <1>3 DEF StateTyped, Views
      <4>2. viewed # Nil => Recent(viewed.id, viewed.title)
          BY <2>1 DEF MutationInv, ViewIsRecent
      <4>3. PICK x : x = viewed
          OBVIOUS
      <4> QED
          BY <1>2, <2>5, <4>1, <4>2, <4>3 DEF ViewIsRecent
    <3>9. LoadIsRecent'
      <4>1. SUFFICES ASSUME viewLoad # Nil
                     PROVE  LoadIsRecent'
          BY <1>2 DEF LoadIsRecent
      <4>2. /\ viewLoad \in Tasks /\ task'[viewLoad] = task[viewLoad] /\ task[viewLoad].chat \in Chats
            /\ Answered(task[viewLoad]) => task[viewLoad].reply.title \in Nat
            /\ override # Nil => override \in Nat
          BY <1>3, <1>6, <2>1, <2>2, <4>1 DEF SelectionInv, LoadIsOwners, CallsFit, Fits,
             StateTyped
      <4>3. PICK e, m, o : e = task[viewLoad].chat /\ m = task[viewLoad].reply.title /\ o = override
          OBVIOUS
      <4>4. /\ override # Nil => Recent(e, o)'
            /\ override = Nil /\ Answered(task[viewLoad]) => Recent(e, m)'
          BY <2>1, <2>5, <4>1, <4>2, <4>3 DEF MutationInv, LoadIsRecent
      <4> QED
          BY <1>2, <4>2, <4>3, <4>4 DEF LoadIsRecent
    <3> QED
        BY <3>1, <3>2, <3>3, <3>4, <3>5, <3>6, <3>7, <3>8, <3>9 DEF MutationInv
  <2>8. Listed(workspace) \subseteq Listed(workspace')
      BY <1>4, <1>9, WorkspaceAssumption DEF Listed
  <2>9. ListInv'
      BY <1>2, <1>3, <1>5, <1>6, <1>9, <2>1, <2>8, QuietKeepsList
  <2> QED
      BY <2>3, <2>7, <2>9
<1> QED
    BY <1>2, <1>11, <1>12, <1>14, <1>15 DEF WsInv

\* The list after it has forgotten c, which is not selected any more either.
LEMMA ForgottenFields ==
    ASSUME NEW w \in Workspaces, NEW c \in Chats
    PROVE  LET v == Without(w, c)
               x == [v EXCEPT !.status = "ready", !.pending = Nil, !.selected = Nil,
                              !.selection = EmptyOrIdle(v)] IN
           /\ x \in Workspaces /\ x.cursor = w.cursor /\ x.pending = Nil /\ x.selected = Nil
           /\ \A d \in Chats : x.listed[d] = IF d = c THEN Nil ELSE w.listed[d]
<1> DEFINE v == Without(w, c)
           a == [v EXCEPT !.status = "ready"]
           b == [a EXCEPT !.pending = Nil]
           e == [b EXCEPT !.selected = Nil]
           s == EmptyOrIdle(v)
           x == [e EXCEPT !.selection = s]
<1>1. /\ v \in Workspaces /\ v.cursor = w.cursor
      /\ \A d \in Chats : v.listed[d] = IF d = c THEN Nil ELSE w.listed[d]
    BY WithoutFields
<1>2. s \in Selections /\ "ready" \in Statuses /\ Nil \in Places
    BY DEF EmptyOrIdle, Selections, Statuses, Places
<1> HIDE DEF v, s
<1>3. a \in Workspaces /\ a.listed = v.listed /\ a.cursor = v.cursor
    BY <1>1, <1>2, ReplacedStatus
<1> HIDE DEF a
<1>4. b \in Workspaces /\ SameList(b, a) /\ b.pending = Nil
    BY <1>2, <1>3, ReplacedPending
<1> HIDE DEF b
<1>5. e \in Workspaces /\ SameList(e, b) /\ e.pending = Nil /\ e.selected = Nil
    BY <1>2, <1>4, ReplacedSelected
<1> HIDE DEF e
<1>6. x \in Workspaces /\ SameList(x, e) /\ x.pending = Nil /\ x.selected = Nil
    BY <1>2, <1>5, ReplacedSelection DEF SamePlace
<1> HIDE DEF x
<1>7. /\ x \in Workspaces /\ x.cursor = w.cursor /\ x.pending = Nil /\ x.selected = Nil
      /\ \A d \in Chats : x.listed[d] = IF d = c THEN Nil ELSE w.listed[d]
    BY <1>1, <1>3, <1>4, <1>5, <1>6 DEF SameList
<1> QED
    BY <1>7 DEF x, e, b, a, v, s

\* What the client gives up when it is told of a deletion, and what the list does.
LEMMA ClientDeletedDoes ==
    ASSUME WsInv, NEW t \in Tasks, ClientDeleted(t)
    PROVE  LET c == task[t].chat
               shows == task[t].reply.ok /\ viewed # Nil /\ viewed.id = c
               loads == task[t].reply.ok /\ viewLoad # Nil /\ task[viewLoad].chat = c
           IN
           /\ viewed' = IF shows THEN Nil ELSE viewed
           /\ viewLoad' = IF shows \/ loads THEN Nil ELSE viewLoad
           /\ override' = IF shows \/ loads THEN Nil ELSE override
           /\ IF shows /\ ~controllerDisposed
              THEN /\ listOwner' = Nil /\ selectionOwner' = Nil /\ automatic' = Nil /\ unswayed' = {}
                   /\ workspace' \in Workspaces /\ workspace'.cursor = workspace.cursor
                   /\ workspace'.pending = Nil /\ workspace'.selected = Nil
                   /\ \A d \in Chats : workspace'.listed[d] = IF d = c THEN Nil ELSE workspace.listed[d]
              ELSE UNCHANGED <<workspace, listOwner, selectionOwner, automatic, unswayed>>
<1> DEFINE c == task[t].chat
           shows == task[t].reply.ok /\ viewed # Nil /\ viewed.id = c
           loads == task[t].reply.ok /\ viewLoad # Nil /\ task[viewLoad].chat = c
<1>1. /\ viewed' = IF shows THEN Nil ELSE viewed
      /\ viewLoad' = IF shows \/ loads THEN Nil ELSE viewLoad
      /\ override' = IF shows \/ loads THEN Nil ELSE override
      /\ IF shows THEN ObservedCleared
         ELSE UNCHANGED <<workspace, listOwner, selectionOwner, automatic, unswayed>>
    BY DEF ClientDeleted
<1>2. CASE ~(shows /\ ~controllerDisposed)
    BY <1>1, <1>2 DEF ObservedCleared, Forgets
<1>3. CASE shows /\ ~controllerDisposed
  <2>1. workspace \in Workspaces /\ c \in Chats
      BY <1>3 DEF WsInv, WsTyped, StateTyped, Views
  <2>2. workspace.selected = c
      BY <1>3 DEF WsInv, SelectionInv, SelectionIsDisplayed
  <2>3. Dropped(workspace) = c /\ Forgets
      BY <1>3, <2>1, <2>2, WorkspaceAssumption DEF Dropped, Forgets
  <2> DEFINE v == Without(workspace, c)
             x == [v EXCEPT !.status = "ready", !.pending = Nil, !.selected = Nil,
                            !.selection = EmptyOrIdle(v)]
  <2>4. /\ workspace' = x
        /\ listOwner' = Nil /\ selectionOwner' = Nil /\ automatic' = Nil /\ unswayed' = {}
      BY <1>1, <1>3, <2>3 DEF ObservedCleared
  <2>5. /\ x \in Workspaces /\ x.cursor = workspace.cursor /\ x.pending = Nil /\ x.selected = Nil
        /\ \A d \in Chats : x.listed[d] = IF d = c THEN Nil ELSE workspace.listed[d]
      BY <2>1, ForgottenFields
  <2> HIDE DEF x
  <2> QED
      BY <1>1, <1>3, <2>4, <2>5
<1> QED
    BY <1>2, <1>3

\* The client gives up its view, and the load that is pending.
LEMMA ClientDeletedKeeps ==
    ASSUME WsInv, NEW t \in Tasks, ClientDeleted(t)
    PROVE  WsInv'
<1> DEFINE c == task[t].chat
           r == task[t].reply
           shows == r.ok /\ viewed # Nil /\ viewed.id = c
           loads == r.ok /\ viewLoad # Nil /\ task[viewLoad].chat = c
<1>1. /\ task[t].op = "delete" /\ task[t].phase = "requested" /\ r # Nil
      /\ Mutates(task[t], "delete")
      /\ UNCHANGED <<existing, unborn, title, firstSelected, controllerDisposed, paged>>
      /\ UNCHANGED <<choice, latestCreate, deleting, renaming, erased, retitled>>
    BY DEF ClientDeleted, Mutates, serverVars, fixedVars, mutationVars
<1>2. /\ viewed' = IF shows THEN Nil ELSE viewed
      /\ viewLoad' = IF shows \/ loads THEN Nil ELSE viewLoad
      /\ override' = IF shows \/ loads THEN Nil ELSE override
      /\ IF shows /\ ~controllerDisposed
         THEN /\ listOwner' = Nil /\ selectionOwner' = Nil /\ automatic' = Nil /\ unswayed' = {}
              /\ workspace' \in Workspaces /\ workspace'.cursor = workspace.cursor
              /\ workspace'.pending = Nil /\ workspace'.selected = Nil
              /\ \A d \in Chats : workspace'.listed[d] = IF d = c THEN Nil ELSE workspace.listed[d]
         ELSE UNCHANGED <<workspace, listOwner, selectionOwner, automatic, unswayed>>
    BY ClientDeletedDoes
<1>3. /\ WsTyped /\ StateTyped /\ ChoiceInv /\ MutationsHold /\ MutationsAlone /\ CallsFit
      /\ workspace \in Workspaces /\ t # Nil
    BY WorkspaceAssumption DEF WsInv, WsTyped, StateTyped
<1>4. c \in Chats /\ (r.ok => Answered(task[t]))
    BY <1>1, <1>3 DEF CallsFit, Fits, Answered
<1>5. PICK k : /\ Moves(t, k) /\ k.op = "delete" /\ k.phase = "returning"
               /\ k.chat = c /\ k.reply = r /\ k.saw = task[t].saw
  <2>1. task' = [task EXCEPT ![t].phase = "returning"]
      BY DEF ClientDeleted
  <2> QED
      BY <1>1, <1>3, <2>1, ReturningMoves
<1>6. task'[t] = k /\ \A s \in Tasks : s # t => task'[s] = task[s]
    BY <1>5 DEF Moves
<1>7. MutationsAlone'
  <2>1. \A s \in Tasks : \A op \in {"rename", "delete"} :
            Mutates(task'[s], op) => Mutates(task[s], op) /\ task'[s].chat = task[s].chat
      BY <1>1, <1>5, <1>6 DEF Mutates
  <2> QED
      BY <1>1, <1>3, <2>1, AloneKept
<1>8. WsTyped'
  <2>1. StateTyped'
      BY <1>1, <1>2, <1>3 DEF StateTyped
  <2> QED
      BY <1>5, <1>7, <2>1 DEF WsTyped, Moves
<1>9. ChoiceInv'
    BY <1>1, <1>2, <1>3, <1>5, ChoiceKept
<1>10. MutationsHold'
  <2>1. \A d \in Chats : workspace'.listed[d] \in {Nil, workspace.listed[d]}
      BY <1>2
  <2> QED
      BY <1>1, <1>3, <2>1, ListedKept
<1>11. ASSUME ~controllerDisposed PROVE SelectionInv' /\ MutationInv' /\ ListInv'
  <2>1. SelectionInv /\ MutationInv /\ ListInv
      BY <1>11 DEF WsInv
  <2>2. viewLoad # t /\ viewLoad \in {Nil} \cup Tasks /\ listOwner \in {Nil} \cup Tasks
      BY <1>1, <1>3, <2>1 DEF SelectionInv, LoadIsOwners, Loads, StateTyped
  <2>3. r.ok => c \notin existing \cup unborn
      BY <1>1, <1>4, <2>1 DEF MutationInv, DeletedOnServer
  <2>4. SelectionInv'
    <3>1. CASE shows
        BY <1>2, <1>11, <3>1 DEF SelectionInv, SelectionIsDisplayed, OwnerActs, LoadIsOwners,
           CommittedIsDisplayed
    <3>2. CASE ~shows
      <4>1. \A s \in Tasks : Selects(task[s]) => task'[s] = task[s]
          BY <1>1, <1>6 DEF Selects
      <4> QED
          BY <1>1, <1>2, <1>3, <1>11, <2>1, <3>2, <4>1, SelectionStays DEF SamePlace
    <3> QED
        BY <3>1, <3>2
  <2>5. \A d : Gone(d)' => Gone(d) \/ (r.ok /\ d = c)
      BY <1>1, <1>5, <1>6 DEF Gone, Told, Answered
  <2>6. \A d, m : Recent(d, m) => Recent(d, m)'
      BY <1>1, <1>5, <1>6 DEF Recent, Told
  <2>7. MutationInv'
    <3>1. DeletedOnServer' /\ RenamedOnServer' /\ TitlesGrow'
        BY <1>1, <1>4, <1>5, <1>6, <2>1 DEF MutationInv, DeletedOnServer, RenamedOnServer,
           TitlesGrow,
           Mutates, Answered
    <3>2. CreatedIsNew' /\ LoadedIsRecent'
        BY <1>1, <1>5, <1>6, <2>1 DEF MutationInv, CreatedIsNew, LoadedIsRecent, Creates, Loaded,
           Selects
    <3>3. PageIsRecent'
        BY <1>1, <1>2, <1>5, <1>6, <2>1, <2>2 DEF MutationInv, PageIsRecent, Lists
    <3>4. GoneIsGone'
      <4>1. SUFFICES ASSUME NEW d \in Chats, Gone(d)'
                     PROVE  /\ d \notin (existing \cup unborn)'
                            /\ viewed' # Nil => viewed'.id # d
                            /\ viewLoad' # Nil /\ task'[viewLoad'].chat = d => ~Answered(task'[viewLoad'])
          BY DEF GoneIsGone
      <4>2. CASE Gone(d)
          BY <1>1, <1>2, <1>6, <2>1, <2>2, <4>2 DEF MutationInv, GoneIsGone
      <4>3. CASE r.ok /\ d = c
          BY <1>1, <1>2, <1>6, <2>2, <2>3, <4>3
      <4> QED
          BY <2>5, <4>1, <4>2, <4>3
    <3>5. ViewIsRecent'
        BY <1>2, <2>1, <2>6 DEF MutationInv, ViewIsRecent
    <3>6. LoadIsRecent'
        BY <1>2, <1>6, <2>1, <2>2, <2>6 DEF MutationInv, LoadIsRecent
    <3> QED
        BY <3>1, <3>2, <3>3, <3>4, <3>5, <3>6 DEF MutationInv
  <2>8. ListInv'
    <3>1. \A d : Creating(d) => Creating(d)'
        BY <1>1, <1>6 DEF Creating, Creates
    <3>2. workspace'.cursor = workspace.cursor
        BY <1>2
    <3>3. \A d \in existing : d \in Listed(workspace) => d \in Listed(workspace)'
        BY <1>2, <1>3, <2>3 DEF Listed
    <3>4. Reached' /\ CursorPaged'
        BY <1>1, <2>1, <3>1, <3>2, <3>3 DEF ListInv, Reached, CursorPaged
    <3>5. MoreContinues'
        BY <1>1, <1>2, <1>5, <1>6, <2>1, <2>2 DEF ListInv, MoreContinues, Lists
    <3>6. PageReaches'
        BY <1>1, <1>2, <1>5, <1>6, <2>1, <2>2, <3>1, <3>3 DEF ListInv, PageReaches, Lists
    <3> QED
        BY <3>4, <3>5, <3>6 DEF ListInv
  <2> QED
      BY <2>4, <2>7, <2>8
<1> QED
    BY <1>1, <1>8, <1>9, <1>10, <1>11 DEF WsInv

\* What a deletion that has settled leaves of the list and of the selection.
LEMMA DeleteSettlesDoes ==
    ASSUME NEW w \in Workspaces, NEW c \in Chats
    PROVE  LET x == [Deselected(Without(w, c), c) EXCEPT !.status = "ready"] IN
           /\ x \in Workspaces /\ x.cursor = w.cursor
           /\ x.pending = IF c \in {w.selected, w.pending} THEN Nil ELSE w.pending
           /\ x.selected = IF c = w.selected THEN Nil ELSE w.selected
           /\ \A d \in Chats : x.listed[d] = IF d = c THEN Nil ELSE w.listed[d]
<1> DEFINE v == Without(w, c)
           u == Deselected(v, c)
           x == [u EXCEPT !.status = "ready"]
<1>1. /\ v \in Workspaces /\ v.cursor = w.cursor /\ SamePlace(v, w)
      /\ \A d \in Chats : v.listed[d] = IF d = c THEN Nil ELSE w.listed[d]
    BY WithoutFields
<1> HIDE DEF v
<1>2. /\ u \in Workspaces /\ SameList(u, v)
      /\ u.pending = IF c \in {v.selected, v.pending} THEN Nil ELSE v.pending
      /\ u.selected = IF c = v.selected THEN Nil ELSE v.selected
    BY <1>1, DeselectedFields
<1> HIDE DEF u
<1>3. "ready" \in Statuses
    BY DEF Statuses
<1>4. x \in Workspaces /\ SamePlace(x, u) /\ x.listed = u.listed /\ x.cursor = u.cursor
    BY <1>2, <1>3, ReplacedStatus
<1> HIDE DEF x
<1>5. /\ x \in Workspaces /\ x.cursor = w.cursor
      /\ x.pending = IF c \in {w.selected, w.pending} THEN Nil ELSE w.pending
      /\ x.selected = IF c = w.selected THEN Nil ELSE w.selected
      /\ \A d \in Chats : x.listed[d] = IF d = c THEN Nil ELSE w.listed[d]
    BY <1>1, <1>2, <1>4 DEF SameList, SamePlace
<1> QED
    BY <1>5 DEF x, u, v

\* The list forgets a conversation, and no answer still to come knows it.
LEMMA DeleteSettlesKeeps ==
    ASSUME WsInv, NEW t \in Tasks, DeleteSettles(t)
    PROVE  WsInv'
<1> DEFINE r == task[t].reply
           applies == ~controllerDisposed /\ r.ok
<1>1. PICK c : c = task[t].chat
    OBVIOUS
<1> DEFINE deselects == applies /\ c \in {workspace.selected, workspace.pending}
           x == [Deselected(Without(workspace, c), c) EXCEPT !.status = "ready"]
<1>2. /\ task[t].op = "delete" /\ task[t].phase = "returning" /\ Mutates(task[t], "delete")
      /\ deleting' = deleting \ {c} /\ listOwner' = IF applies THEN Nil ELSE listOwner
      /\ workspace' = IF applies THEN x ELSE workspace
      /\ erased' = IF applies /\ ~OlderAnswer(c) THEN erased \cup {c} ELSE erased
      /\ Finish(t)
      /\ UNCHANGED <<existing, unborn, title, viewed, firstSelected, controllerDisposed, paged>>
      /\ UNCHANGED <<choice, latestCreate, renaming, retitled>>
    BY <1>1 DEF DeleteSettles, Mutates, serverVars, fixedVars
<1>3. IF deselects
      THEN /\ unswayed' = {} /\ selectionOwner' = Nil /\ automatic' = Nil
           /\ viewLoad' = Nil /\ override' = Nil
      ELSE UNCHANGED <<unswayed, selectionOwner, automatic, viewLoad, override>>
    BY <1>1 DEF DeleteSettles
<1>4. /\ WsTyped /\ StateTyped /\ ChoiceInv /\ MutationsHold /\ MutationsAlone /\ CallsFit
      /\ workspace \in Workspaces /\ task[t] \in Calls /\ t # Nil
    BY WorkspaceAssumption DEF WsInv, WsTyped, StateTyped, CallsFit
<1>5. c \in Chats /\ (r.ok => Answered(task[t]) /\ Told(task[t], "delete"))
    BY <1>1, <1>2, <1>4 DEF CallsFit, Fits, Answered, Told
<1>6. PICK k : /\ Moves(t, k) /\ k.op = "delete" /\ k.saw = task[t].saw /\ k.reply = Nil
               /\ k.phase = "done"
    BY <1>2, <1>4, FinishMoves, FinishedCall
<1>7. /\ task'[t] = k /\ \A s \in Tasks : s # t => task'[s] = task[s]
      /\ ~Answered(k) /\ ~Mutates(k, "rename") /\ ~Mutates(k, "delete") /\ ~Creates(task[t])
    BY <1>2, <1>6 DEF Mutates, Creates, Moves, Answered
<1>8. /\ MutationsAlone'
      /\ \A s \in Tasks : s # t /\ (Mutates(task[s], "rename") \/ Mutates(task[s], "delete")) =>
            task[s].chat # c
    BY <1>1, <1>2, <1>4, <1>6, MutationEnds
<1>9. /\ workspace' \in Workspaces /\ workspace'.cursor = workspace.cursor
      /\ \A d \in Chats : workspace'.listed[d] = IF d = c /\ applies THEN Nil ELSE workspace.listed[d]
      /\ IF applies
         THEN /\ workspace'.pending = IF deselects THEN Nil ELSE workspace.pending
              /\ workspace'.selected = IF c = workspace.selected THEN Nil ELSE workspace.selected
         ELSE workspace' = workspace
  <2>1. CASE applies
    <3>1. /\ x \in Workspaces /\ x.cursor = workspace.cursor
          /\ x.pending = IF c \in {workspace.selected, workspace.pending} THEN Nil ELSE workspace.pending
          /\ x.selected = IF c = workspace.selected THEN Nil ELSE workspace.selected
          /\ \A d \in Chats : x.listed[d] = IF d = c THEN Nil ELSE workspace.listed[d]
        BY <1>4, <1>5, DeleteSettlesDoes
    <3> HIDE DEF x
    <3> QED
        BY <1>2, <2>1, <3>1
  <2>2. CASE ~applies
      BY <1>2, <1>4, <2>2
  <2> QED
      BY <2>1, <2>2
<1> HIDE DEF x
<1>10. WsTyped'
  <2>1. StateTyped'
      BY <1>2, <1>3, <1>4, <1>5, <1>9 DEF StateTyped
  <2> QED
      BY <1>6, <1>8, <2>1 DEF WsTyped, Moves
<1>11. ChoiceInv'
    BY <1>2, <1>3, <1>4, <1>6, ChoiceKept
<1>12. MutationsHold'
    BY <1>2, <1>4, <1>9 DEF MutationsHold, Listed
<1>13. ASSUME ~controllerDisposed PROVE SelectionInv' /\ MutationInv' /\ ListInv'
  <2>1. SelectionInv /\ MutationInv /\ ListInv
      BY <1>13 DEF WsInv
  <2>2. viewLoad # t /\ viewLoad \in {Nil} \cup Tasks /\ listOwner \in {Nil} \cup Tasks
      BY <1>2, <1>4, <2>1 DEF SelectionInv, LoadIsOwners, Loads, StateTyped
  <2>3. r.ok => Gone(c) /\ c \notin existing \cup unborn /\ workspace.selected # c
    <3>1. r.ok => Gone(c)
        BY <1>1, <1>5 DEF Gone
    <3>2. r.ok => c \notin existing \cup unborn /\ (viewed # Nil => viewed.id # c)
        BY <1>5, <2>1, <3>1 DEF MutationInv, GoneIsGone
    <3> QED
        BY <1>5, <1>13, <2>1, <3>1, <3>2, WorkspaceAssumption DEF SelectionInv,
           SelectionIsDisplayed
  <2>4. SelectionInv'
    <3>1. CASE deselects
      <4>1. selectionOwner' = Nil /\ viewLoad' = Nil /\ workspace'.selected = workspace.selected
          BY <1>3, <1>9, <2>3, <3>1
      <4> QED
          BY <1>2, <2>1, <4>1 DEF SelectionInv, SelectionIsDisplayed, OwnerActs, LoadIsOwners,
             CommittedIsDisplayed
    <3>2. CASE ~deselects
      <4>1. SamePlace(workspace', workspace)
          BY <1>9, <2>3, <3>2 DEF SamePlace
      <4> QED
          BY <1>2, <1>3, <1>4, <1>6, <2>1, <3>2, <4>1, PlaceKept
    <3> QED
        BY <3>1, <3>2
  <2>5. \A d : Gone(d)' => Gone(d)
      BY <1>2, <1>7, <2>3 DEF Gone, Told
  <2>6. \A d, m : Recent(d, m) => Recent(d, m)'
      BY <1>2, <1>7 DEF Recent, Told
  <2>7. ~OlderAnswer(c) => \A s \in Tasks : Answered(task[s]) =>
            /\ Loaded(task[s]) => task[s].chat # c
            /\ Creates(task[s]) => task[s].reply.chat # c
      BY DEF OlderAnswer, Answered, Loaded, Selects, Creates
  <2>8. MutationInv'
    <3>1. DeletedOnServer' /\ TitlesGrow'
        BY <1>2, <1>7, <2>1 DEF MutationInv, DeletedOnServer, TitlesGrow
    <3>2. CreatedIsNew'
        BY <1>2, <1>7, <2>1, <2>7 DEF MutationInv, CreatedIsNew
    <3>3. LoadedIsRecent'
        BY <1>2, <1>7, <2>1, <2>7 DEF MutationInv, LoadedIsRecent
    <3>4. RenamedOnServer'
        BY <1>2, <1>7, <1>8, <2>1 DEF MutationInv, RenamedOnServer
    <3>5. PageIsRecent'
      <4>1. CASE applies
          BY <1>2, <4>1 DEF PageIsRecent
      <4>2. CASE ~applies
          BY <1>2, <1>7, <2>1, <2>2, <4>2 DEF MutationInv, PageIsRecent
      <4> QED
          BY <4>1, <4>2
    <3>6. GoneIsGone'
        BY <1>2, <1>3, <1>7, <2>1, <2>2, <2>5 DEF MutationInv, GoneIsGone
    <3>7. ViewIsRecent'
        BY <1>2, <2>1, <2>6 DEF MutationInv, ViewIsRecent
    <3>8. LoadIsRecent'
        BY <1>2, <1>3, <1>7, <2>1, <2>2, <2>6 DEF MutationInv, LoadIsRecent
    <3> QED
        BY <3>1, <3>2, <3>3, <3>4, <3>5, <3>6, <3>7, <3>8 DEF MutationInv
  <2>9. ListInv'
    <3>1. \A d : Creating(d) => Creating(d)'
        BY <1>2, <1>7 DEF Creating, Creates
    <3>2. workspace'.cursor = workspace.cursor
        BY <1>9
    <3>3. \A d \in existing : d \in Listed(workspace) => d \in Listed(workspace)'
        BY <1>4, <1>9, <2>3 DEF Listed
    <3>4. Reached' /\ CursorPaged'
        BY <1>2, <2>1, <3>1, <3>2, <3>3 DEF ListInv, Reached, CursorPaged
    <3>5. MoreContinues'
        BY <1>2, <1>6, <1>7, <2>1, <2>2, <3>2 DEF ListInv, MoreContinues, Lists
    <3>6. PageReaches'
        BY <1>2, <1>6, <1>7, <2>1, <2>2, <3>1, <3>3 DEF ListInv, PageReaches, Lists
    <3> QED
        BY <3>4, <3>5, <3>6 DEF ListInv
  <2> QED
      BY <2>4, <2>8, <2>9
<1> QED
    BY <1>2, <1>10, <1>11, <1>12, <1>13 DEF WsInv

-----------------------------------------------------------------------------
(* The invariant of the workspace, and what it says.                       *)

\* Nothing has begun.
LEMMA WorkspaceStarts == WsInit => WsInv
<1> SUFFICES ASSUME WsInit PROVE WsInv
    OBVIOUS
<1>1. /\ viewed = Nil /\ viewLoad = Nil /\ override = Nil /\ controllerDisposed = FALSE
      /\ listOwner = Nil /\ selectionOwner = Nil /\ automatic = Nil /\ latestCreate = Nil
      /\ unswayed = {} /\ deleting = {} /\ renaming = {} /\ choice = Nil /\ erased = {}
      /\ paged = FALSE /\ firstSelected \in BOOLEAN
      /\ existing \subseteq Chats /\ unborn = Chats \ existing
      /\ title = [c \in Chats |-> 0] /\ retitled = [c \in Chats |-> 0]
    BY DEF WsInit
<1>2. NoTask.op = Nil /\ NoTask.phase = "idle" /\ NoTask.reply = Nil /\ NoTask \in Calls
    BY NoTaskCall DEF NoTask
<1>3. task \in [Tasks -> Calls] /\ \A t \in Tasks : task[t] = NoTask
    BY <1>2 DEF WsInit
<1>4. /\ workspace \in Workspaces /\ workspace.cursor = Nil
      /\ workspace.selected = Nil /\ Listed(workspace) = {}
  <2>1. workspace = [listed |-> [c \in Chats |-> Nil], status |-> "idle", cursor |-> Nil,
                     pending |-> Nil, selected |-> Nil, selection |-> "idle"]
      BY DEF WsInit
  <2>2. [c \in Chats |-> Nil] \in Listings
      BY DEF Listings
  <2> QED
      BY <2>1, <2>2 DEF Workspaces, Statuses, Cursors, Places, Selections, Listed
<1>5. StateTyped
    BY <1>1, <1>4 DEF StateTyped
<1>6. CallsFit
  <2>1. Fits(NoTask)
      BY <1>2 DEF Fits, Loads, Mutates, Answered
  <2> QED
      BY <1>3, <2>1 DEF CallsFit
<1>7. MutationsAlone
    BY <1>2, <1>3 DEF MutationsAlone, Mutates
<1>8. ChoiceInv /\ MutationsHold
    BY <1>1, <1>4 DEF ChoiceInv, UserChoiceWins, UnswayedSaw, OwnerBegan, MutationsHold
<1>9. SelectionInv
    BY <1>1, <1>4 DEF SelectionInv, SelectionIsDisplayed, OwnerActs, LoadIsOwners,
       CommittedIsDisplayed
<1>10. MutationInv
  <2>1. \A t \in Tasks : ~Answered(task[t]) /\ ~Mutates(task[t], "rename")
      BY <1>2, <1>3 DEF Answered, Mutates
  <2>2. \A c : ~Gone(c)
      BY <1>1, <2>1 DEF Gone, Told
  <2> QED
      BY <1>1, <2>1, <2>2 DEF MutationInv, DeletedOnServer, GoneIsGone, RenamedOnServer,
         TitlesGrow,
         PageIsRecent, CreatedIsNew, LoadedIsRecent, ViewIsRecent, LoadIsRecent
<1>11. ListInv
    BY <1>1, <1>4 DEF ListInv, Reached, CursorPaged, MoreContinues, PageReaches
<1> QED
    BY <1>5, <1>6, <1>7, <1>8, <1>9, <1>10, <1>11 DEF WsInv, WsTyped

\* A step of something else.
LEMMA WorkspaceStutters == WsInv /\ UNCHANGED wsVars => WsInv'
<1> SUFFICES ASSUME WsInv, UNCHANGED wsVars PROVE WsInv'
    OBVIOUS
<1>1. /\ UNCHANGED <<firstSelected, existing, unborn, title, viewed, viewLoad, override>>
      /\ UNCHANGED <<controllerDisposed, listOwner, selectionOwner, automatic, latestCreate>>
      /\ UNCHANGED <<unswayed, deleting, renaming, workspace, task, choice, erased, retitled, paged>>
    BY DEF wsVars
<1>2. (WsTyped <=> WsTyped') /\ (ChoiceInv <=> ChoiceInv') /\ (MutationsHold <=> MutationsHold')
    BY <1>1 DEF WsTyped, StateTyped, CallsFit, MutationsAlone, ChoiceInv, UserChoiceWins,
       UnswayedSaw,
       OwnerBegan, MutationsHold, Listed
<1>3. SelectionInv <=> SelectionInv'
    BY <1>1 DEF SelectionInv, SelectionIsDisplayed, OwnerActs, LoadIsOwners, CommittedIsDisplayed
<1>4. MutationInv <=> MutationInv'
  <2>1. \A c : Gone(c)' <=> Gone(c)
      BY <1>1 DEF Gone
  <2>2. \A c, n : Recent(c, n)' <=> Recent(c, n)
      BY <1>1 DEF Recent
  <2> QED
      BY <1>1, <2>1, <2>2 DEF MutationInv, DeletedOnServer, GoneIsGone, RenamedOnServer,
         TitlesGrow,
         PageIsRecent, CreatedIsNew, LoadedIsRecent, ViewIsRecent, LoadIsRecent
<1>5. ListInv <=> ListInv'
  <2>1. \A c : Creating(c)' <=> Creating(c)
      BY <1>1 DEF Creating
  <2>2. Listed(workspace)' = Listed(workspace)
      BY <1>1 DEF Listed
  <2> QED
      BY <1>1, <2>1, <2>2 DEF ListInv, Reached, CursorPaged, MoreContinues, PageReaches
<1> QED
    BY <1>1, <1>2, <1>3, <1>4, <1>5 DEF WsInv

\* Every step of a call, of the server, and of the client keeps the invariant.
LEMMA WorkspaceStepKeeps == WsInv /\ [WsNext]_wsVars => WsInv'
<1> SUFFICES ASSUME WsInv, [WsNext]_wsVars PROVE WsInv'
    OBVIOUS
<1>1. CASE UNCHANGED wsVars
    BY <1>1, WorkspaceStutters
<1>2. CASE ClientCommits
    BY <1>2, ClientCommitsKeeps
<1>3. CASE WorkspaceDisposes
    BY <1>3, WorkspaceDisposesKeeps
<1>4. ASSUME NEW t \in Tasks, TaskNext(t) PROVE WsInv'
  <2>1. CASE Refresh(t) \/ LoadMore(t) \/ RefreshSettles(t) \/ RefreshContinues(t) \/ MoreSettles(t)
      BY <2>1, RefreshKeeps, LoadMoreKeeps, RefreshSettlesKeeps, RefreshContinuesKeeps,
         MoreSettlesKeeps
  <2>2. CASE \/ ServerLists(t) \/ ServerCreates(t) \/ ServerRenames(t) \/ ServerDeletes(t)
             \/ ServerLoads(t)
      BY <2>2, ServerListsKeeps, ServerCreatesKeeps, ServerRenamesKeeps, ServerDeletesKeeps,
         ServerLoadsKeeps
  <2>3. CASE CreateSettles(t) \/ \E select \in BOOLEAN : Create(t, select)
      BY <2>3, CreateKeeps, CreateSettlesKeeps
  <2>4. CASE \E c \in Chats : Rename(t, c) \/ Delete(t, c) \/ Choose(t, c)
      BY <2>4, RenameKeeps, DeleteKeeps, ChooseKeeps
  <2>5. CASE ClientRenamed(t) \/ RenameSettles(t) \/ ClientDeleted(t) \/ DeleteSettles(t)
      BY <2>5, ClientRenamedKeeps, RenameSettlesKeeps, ClientDeletedKeeps, DeleteSettlesKeeps
  <2>6. CASE ClientLoads(t) \/ SelectionSettles(t)
      BY <2>6, ClientLoadsKeeps, SelectionSettlesKeeps
  <2> QED
      BY <1>4, <2>1, <2>2, <2>3, <2>4, <2>5, <2>6 DEF TaskNext
<1> QED
    BY <1>1, <1>2, <1>3, <1>4 DEF WsNext

\* The invariant of the workspace.
LEMMA WorkspaceInvariance == WsSpec => []WsInv
BY WorkspaceStarts, WorkspaceStepKeeps, PTL DEF WsSpec

\* Every variable of the workspace keeps its type, whichever calls overlap.
THEOREM WorkspaceTypesHold == WsSpec => []WsTypeOK
<1>1. WsInv => WsTypeOK
    BY WorkspaceTyped DEF WsInv
<1> QED
    BY <1>1, WorkspaceInvariance, PTL

\* The conversation shown as selected is the one that the client displays, and the
\* selection is the user's last choice or that of a call that began after it,
\* however loads, commits, refreshes, creations, and deletions interleave.
THEOREM SelectionIsTheUsers == WsSpec => []SelectionHolds
<1>1. WsInv => SelectionHolds
    BY DEF WsInv, SelectionInv, ChoiceInv, SelectionHolds, SelectionIsDisplayed
<1> QED
    BY <1>1, WorkspaceInvariance, PTL

\* No late page, load, or commit undoes a deletion or a rename, and a ready list
\* without a further page holds every conversation of the server.
THEOREM ListAlwaysAgrees == WsSpec => []ListAgrees
<1>1. WsInv => ReadyListIsComplete
    BY DEF WsInv, ListInv, Reached, Behind, Creating, Creates, ReadyListIsComplete
<1>2. WsInv => ListAgrees
    BY <1>1 DEF WsInv, ListAgrees
<1> QED
    BY <1>2, WorkspaceInvariance, PTL

=============================================================================
