---------------------------- MODULE RequestProofs ----------------------------
(***************************************************************************)
(* Requests for every alphabet of names, every list a page may show, every *)
(* table of aliases and every conversation: the model catalog, the bodies  *)
(* that are built beside it, and what the client's history becomes there.  *)
(***************************************************************************)
EXTENDS Requests, SequenceLemmas, TLAPS

IDs == ToSet(Alphabet)

CatalogInv ==
    /\ page \in Pages \union {Down}
    /\ loaded \in BOOLEAN /\ ids \in Seq(IDs)
    /\ loaded => ids # <<>> /\ \E list : ids = sorted(list) /\ ToSet(ids) = ToSet(list)
    /\ listed \subseteq IDs \union StaticIds

LEMMA SomeIDs == IDs \subseteq Names \ {<<>>} /\ Alphabet \in Seq(IDs)
<1>1. Alphabet \in Seq(Names \ {<<>>})
  BY CatalogAssumption
<1> QED BY <1>1 DEF IDs, ToSet

(* Pieces of at most one element are put together in their order.          *)
IsPicked(list, S, s, P) == list \in Seq(S) /\ ToSet(list) = {s[i] : i \in DOMAIN s \cap P}

LEMMA Picked ==
    ASSUME NEW S, NEW s \in Seq(S), NEW P,
           NEW picked, picked = [i \in DOMAIN s |-> IF i \in P THEN <<s[i]>> ELSE <<>>]
    PROVE  IsPicked(FlattenSeq(picked), S, s, P)
<1>1. picked \in Seq(Seq(S)) /\ Len(picked) = Len(s) /\ DOMAIN s = 1..Len(s)
  <2>1. DOMAIN s = 1..Len(s) /\ Len(s) \in Nat
    OBVIOUS
  <2>2. \A i \in 1..Len(s) : picked[i] \in Seq(S)
    BY <2>1
  <2>3. picked = [i \in 1..Len(s) |-> picked[i]]
    BY <2>1
  <2> QED BY <2>1, <2>2, <2>3
<1>2. FlattenSeq(picked) \in Seq(S)
  <2>1. <<>> \in Seq(S)
    OBVIOUS
  <2> QED BY <1>1, <2>1, FlattenAppend
<1>3. ToSet(FlattenSeq(picked)) = UNION {ToSet(picked[i]) : i \in 1..Len(picked)}
  BY <1>1, FlattenRange
<1>4. ASSUME NEW i \in 1..Len(s)
      PROVE  ToSet(picked[i]) = IF i \in P THEN {s[i]} ELSE {}
  <2>1. CASE i \in P
    <3>1. picked[i] = <<s[i]>>
      BY <1>1, <2>1
    <3>2. \A x : ToSet(<<x>>) = {x}
      BY DEF ToSet
    <3> QED BY <2>1, <3>1, <3>2
  <2>2. CASE i \notin P
    <3>1. picked[i] = <<>>
      BY <1>1, <2>2
    <3> QED BY <2>2, <3>1 DEF ToSet
  <2> QED BY <2>1, <2>2
<1>5. UNION {ToSet(picked[i]) : i \in 1..Len(s)} = {s[i] : i \in (1..Len(s)) \cap P}
  <2> DEFINE set(i) == ToSet(picked[i])
  <2>1. \A i \in 1..Len(s) : set(i) = IF i \in P THEN {s[i]} ELSE {}
    BY <1>4
  <2> HIDE DEF set
  <2>2. UNION {set(i) : i \in 1..Len(s)} = {s[i] : i \in (1..Len(s)) \cap P}
    BY <2>1
  <2> QED BY <2>2 DEF set
<1> QED BY <1>1, <1>2, <1>3, <1>5 DEF IsPicked

(* parseModelIDs and sorted lose no id and add none.                       *)
LEMMA ParsedIDs ==
    ASSUME NEW p \in Seq(IDs)
    PROVE  parseModelIDs(p) \in Seq(IDs) /\ ToSet(parseModelIDs(p)) = ToSet(p)
<1> DEFINE first == {i \in DOMAIN p : ~\E j \in 1..(i - 1) : p[j] = p[i]}
           picked == [i \in DOMAIN p |-> IF i \in first THEN <<p[i]>> ELSE <<>>]
<1>1. parseModelIDs(p) = FlattenSeq(picked)
  <2>1. picked = [i \in DOMAIN p |-> IF \E j \in 1..(i - 1) : p[j] = p[i] THEN <<>> ELSE <<p[i]>>]
    OBVIOUS
  <2> HIDE DEF picked
  <2> QED BY <2>1 DEF parseModelIDs
<1>2. parseModelIDs(p) \in Seq(IDs) /\ ToSet(parseModelIDs(p)) = {p[i] : i \in DOMAIN p \cap first}
  <2> HIDE DEF first
  <2>1. picked = [i \in DOMAIN p |-> IF i \in first THEN <<p[i]>> ELSE <<>>]
    OBVIOUS
  <2> HIDE DEF picked
  <2>2. IsPicked(FlattenSeq(picked), IDs, p, first)
    BY <2>1, Picked
  <2> QED BY <1>1, <2>2 DEF IsPicked
<1>3. ASSUME NEW i \in DOMAIN p PROVE \E k \in DOMAIN p \cap first : p[k] = p[i]
  <2> DEFINE same == {k \in DOMAIN p : p[k] = p[i]}
  <2>1. PICK k \in same : \A m \in same : k <= m
    <3>1. same \subseteq Nat /\ i \in same
      OBVIOUS
    <3> HIDE DEF same
    <3> QED BY <3>1, LeastNumber
  <2>2. k \in DOMAIN p /\ p[k] = p[i] /\ DOMAIN p = 1..Len(p) /\ Len(p) \in Nat
    OBVIOUS
  <2>3. ASSUME NEW j \in 1..(k - 1) PROVE p[j] # p[k]
    <3>1. j \in DOMAIN p /\ ~(k <= j)
      BY <2>2
    <3> QED BY <2>1, <2>2, <3>1
  <2> QED BY <2>2, <2>3
<1> HIDE DEF first
<1>4. {p[i] : i \in DOMAIN p \cap first} = ToSet(p)
  BY <1>3 DEF ToSet
<1> QED BY <1>2, <1>4

LEMMA SortedIDs ==
    ASSUME NEW list \in Seq(IDs)
    PROVE  sorted(list) \in Seq(IDs) /\ ToSet(sorted(list)) = ToSet(list)
<1> DEFINE on == {i \in DOMAIN Alphabet : Alphabet[i] \in ToSet(list)}
           picked == [i \in DOMAIN Alphabet |-> IF i \in on THEN <<Alphabet[i]>> ELSE <<>>]
<1>1. sorted(list) = FlattenSeq(picked)
  <2>1. picked = [i \in DOMAIN Alphabet |-> IF Alphabet[i] \in ToSet(list) THEN <<Alphabet[i]>> ELSE <<>>]
    OBVIOUS
  <2> HIDE DEF picked
  <2> QED BY <2>1 DEF sorted
<1>2. sorted(list) \in Seq(IDs) /\ ToSet(sorted(list)) = {Alphabet[i] : i \in DOMAIN Alphabet \cap on}
  <2> HIDE DEF on
  <2>1. picked = [i \in DOMAIN Alphabet |-> IF i \in on THEN <<Alphabet[i]>> ELSE <<>>]
    OBVIOUS
  <2> HIDE DEF picked
  <2>2. IsPicked(FlattenSeq(picked), IDs, Alphabet, on)
    BY <2>1, SomeIDs, Picked
  <2> QED BY <1>1, <2>2 DEF IsPicked
<1>3. ToSet(list) \subseteq IDs
  BY DEF ToSet
<1>4. {Alphabet[i] : i \in DOMAIN Alphabet \cap on} = ToSet(list)
  BY <1>3 DEF IDs, ToSet
<1> QED BY <1>2, <1>4

(* The list decides by its ids alone.                                      *)
LEMMA SortedIsASet ==
    ASSUME NEW l, NEW m, ToSet(l) = ToSet(m) PROVE sorted(l) = sorted(m)
  BY DEF sorted

LEMMA NoIDs == ASSUME NEW s \in Seq(IDs) PROVE s = <<>> <=> ToSet(s) = {}
<1>1. s # <<>> => 1 \in DOMAIN s
  OBVIOUS
<1> QED BY <1>1 DEF ToSet

(* A fetch that succeeds.                                                  *)
LEMMA Updated ==
    ASSUME CatalogInv, RefreshSucceeds
    PROVE  /\ loaded' = TRUE /\ page # Down /\ page' = page
           /\ ids' \in Seq(IDs) /\ ids' # <<>>
           /\ \E list : ids' = sorted(list) /\ ToSet(ids') = ToSet(list)
<1>1. page # Down /\ page' = page
  BY DEF RefreshSucceeds, fetchModelIDs
<1>2. page \in Seq(IDs)
  BY <1>1, CatalogAssumption DEF CatalogInv, IDs
<1>3. PICK list : list = parseModelIDs(page) /\ list # <<>> /\ update(list)
  BY <1>1 DEF RefreshSucceeds, fetchModelIDs
<1>4. list \in Seq(IDs)
  BY <1>2, <1>3, ParsedIDs
<1>5. ids' = sorted(list) /\ loaded' = TRUE
  BY <1>3 DEF update
<1>6. ids' \in Seq(IDs) /\ ToSet(ids') = ToSet(list)
  BY <1>4, <1>5, SortedIDs
<1>7. ids' # <<>>
  BY <1>3, <1>4, <1>6, NoIDs
<1> QED BY <1>1, <1>5, <1>6, <1>7

LEMMA CatalogStarts == Init => CatalogInv
<1>1. <<>> \in Seq(IDs)
  OBVIOUS
<1> QED BY <1>1 DEF Init, InitCatalog, CatalogInv

LEMMA CatalogKept == CatalogInv /\ [Next]_vars => CatalogInv'
<1> SUFFICES ASSUME CatalogInv, [Next]_vars PROVE CatalogInv'
  OBVIOUS
<1>1. ASSUME UNCHANGED <<page, ids, loaded>>, listed' \subseteq IDs \union StaticIds PROVE CatalogInv'
  BY <1>1 DEF CatalogInv
<1>2. ASSUME Handlers PROVE CatalogInv'
  <2>1. UNCHANGED <<page, ids, loaded>>
    BY <1>2 DEF Handlers, SendChat, SendItems, SendInput, Send, HandleResponses, RefuseEmpty,
                BuildRequest, HandleModels, AnswerModels, catalogVars
  <2>2. listed' = listed \/ listed' = {} \/ listed' = ToSet(ids) \/ listed' = StaticIds
    BY <1>2 DEF Handlers, SendChat, SendItems, SendInput, Send, HandleResponses, RefuseEmpty,
                BuildRequest, HandleModels, AnswerModels, modelVars
  <2>3. ToSet(ids) \subseteq IDs
    BY DEF CatalogInv, ToSet
  <2> QED BY <1>1, <2>1, <2>2, <2>3 DEF CatalogInv
<1>3. ASSUME Background PROVE CatalogInv'
  <2>1. listed' = listed
    BY <1>3 DEF Background, modelVars
  <2>2. CASE RefreshSucceeds
    BY <2>1, <2>2, Updated DEF CatalogInv
  <2>3. CASE RefreshFails \/ RefresherWakes
    BY <1>1, <2>1, <2>3 DEF RefreshFails, RefresherWakes, CatalogInv
  <2>4. CASE PageChanges
    BY <2>1, <2>4 DEF PageChanges, CatalogInv
  <2> QED BY <1>3, <2>2, <2>3, <2>4 DEF Background, Refresher
<1>4. CASE UNCHANGED vars
  BY <1>1, <1>4 DEF vars, CatalogInv
<1> QED BY <1>2, <1>3, <1>4 DEF Next

(* The catalog is a sorted list of ids a page has shown, never an empty    *)
(* one, and a client is told of no other ids but the built-in ones.        *)
THEOREM CatalogInvariance == Spec => []CatalogInv
BY CatalogStarts, CatalogKept, PTL DEF Spec

(* A refresh loses no list and moves no name while the ids stay the same.  *)
THEOREM SafeRefresh == Spec => RefreshIsSafe
<1> DEFINE Safe ==
        /\ loaded => loaded' /\ ids' # <<>>
        /\ ids' # ids => page # Down
        /\ loaded /\ ids' # ids /\ ToSet(ids') = ToSet(ids) =>
              \A n \in Names : MapModel(n)' = MapModel(n)
<1>1. CatalogInv /\ [Next]_vars => [Safe]_catalogVars
  <2> SUFFICES ASSUME CatalogInv, [Next]_vars, catalogVars' # catalogVars PROVE Safe
    OBVIOUS
  <2>1. ASSUME UNCHANGED <<ids, loaded>> PROVE Safe
    BY <2>1 DEF CatalogInv
  <2>2. CASE RefreshSucceeds
    <3>1. loaded' /\ ids' # <<>> /\ page # Down
      BY <2>2, Updated
    <3>2. ASSUME loaded, ToSet(ids') = ToSet(ids) PROVE ids' = ids
      <4>1. PICK l : ids = sorted(l) /\ ToSet(ids) = ToSet(l)
        BY <3>2 DEF CatalogInv
      <4>2. PICK m : ids' = sorted(m) /\ ToSet(ids') = ToSet(m)
        BY <2>2, Updated
      <4> QED BY <3>2, <4>1, <4>2, SortedIsASet
    <3> QED BY <3>1, <3>2
  <2>3. CASE RefreshFails \/ RefresherWakes \/ PageChanges
    <3>1. UNCHANGED <<ids, loaded>>
      BY <2>3 DEF RefreshFails, RefresherWakes, PageChanges
    <3> QED BY <2>1, <3>1
  <2>4. CASE Handlers \/ UNCHANGED vars
    <3>1. UNCHANGED <<ids, loaded>>
      BY <2>4 DEF Handlers, SendChat, SendItems, SendInput, Send, HandleResponses, RefuseEmpty,
                  BuildRequest, HandleModels, AnswerModels, catalogVars, vars
    <3> QED BY <2>1, <3>1
  <2> QED BY <2>2, <2>3, <2>4 DEF Next, Background, Refresher
<1> QED BY <1>1, CatalogInvariance, PTL DEF Spec, RefreshIsSafe, Safe

-----------------------------------------------------------------------------
(* How a name is resolved *)

LEMMA LeastIsMin ==
    ASSUME NEW S, S \subseteq Nat, S # {} PROVE Min(S) \in S /\ \A m \in S : Min(S) <= m
  BY LeastNumber DEF Min

(* The id that a name leads to, if any, is one of the closest to it.       *)
IsClosest(id, n) ==
    /\ id \in ToSet(ids) /\ id # <<>>
    /\ index(id, n) # 4 /\ \A other \in ToSet(ids) : index(id, n) <= index(other, n)

LEMMA Resolved ==
    ASSUME NEW n, ids \in Seq(IDs), loaded = TRUE, n # <<>>
    PROVE  IF resolve(n) = <<>> THEN \A id \in ToSet(ids) : index(id, n) = 4
           ELSE IsClosest(resolve(n), n)
<1> DEFINE via  == [i \in DOMAIN ids |-> index(ids[i], n)]
           best == Min(ToSet(via) \union {4})
           at   == SelectInSeq(via, LAMBDA k : k = best)
<1>1. DOMAIN ids = 1..Len(ids) /\ Len(ids) \in Nat /\ \A i \in 1..Len(ids) : ids[i] \in IDs
  OBVIOUS
<1>2. \A id : index(id, n) \in 1..4
  BY DEF index
<1>3. via \in Seq(1..4) /\ Len(via) = Len(ids) /\ DOMAIN via = 1..Len(ids)
  <2> HIDE DEF index
  <2> QED BY <1>1, <1>2
<1>4. \A i \in 1..Len(ids) : via[i] = index(ids[i], n)
  BY <1>1
<1>5. resolve(n) = IF best = 4 THEN <<>> ELSE ids[at]
  BY DEF resolve
<1> HIDE DEF via
<1>6. best \in ToSet(via) \union {4} /\ \A m \in ToSet(via) \union {4} : best <= m
  <2>1. ToSet(via) \union {4} \subseteq Nat
    BY <1>3 DEF ToSet
  <2> QED BY <2>1, LeastIsMin
<1> HIDE DEF best
<1>7. \A i \in 1..Len(ids) : via[i] \in ToSet(via) /\ best <= via[i]
  BY <1>3, <1>6 DEF ToSet
<1>8. CASE best = 4
  <2>1. resolve(n) = <<>>
    BY <1>5, <1>8
  <2>2. ASSUME NEW id \in ToSet(ids) PROVE index(id, n) = 4
    <3>1. PICK i \in 1..Len(ids) : ids[i] = id
      BY <1>1 DEF ToSet
    <3>2. index(id, n) \in 1..4 /\ 4 <= index(id, n)
      BY <1>2, <1>4, <1>7, <1>8, <3>1
    <3> QED BY <3>2
  <2> QED BY <2>1, <2>2
<1>9. CASE best # 4
  <2> DEFINE I == {i \in 1..Len(via) : via[i] = best}
  <2>1. I \subseteq Nat /\ I # {}
    BY <1>3, <1>6, <1>9 DEF ToSet
  <2>2. at = Min(I)
    BY <2>1 DEF SelectInSeq
  <2>3. at \in 1..Len(ids) /\ via[at] = best
    <3> HIDE DEF at
    <3>1. at \in I
      <4> HIDE DEF I
      <4> QED BY <2>1, <2>2, LeastIsMin
    <3> QED BY <1>3, <3>1
  <2> HIDE DEF at
  <2>4. resolve(n) = ids[at] /\ ids[at] \in ToSet(ids) /\ ids[at] \in IDs
    BY <1>1, <1>5, <1>9, <2>3 DEF ToSet
  <2>5. index(ids[at], n) = best
    BY <1>4, <2>3
  <2>6. ASSUME NEW other \in ToSet(ids) PROVE best <= index(other, n)
    <3>1. PICK i \in 1..Len(ids) : ids[i] = other
      BY <1>1 DEF ToSet
    <3> QED BY <1>4, <1>7, <3>1
  <2>7. resolve(n) # <<>>
    BY <2>4, SomeIDs
  <2>8. IsClosest(resolve(n), n)
    BY <1>9, <2>4, <2>5, <2>6, <2>7 DEF IsClosest
  <2> QED BY <2>7, <2>8
<1> QED BY <1>8, <1>9

(* What ResolveIsFaithful says of a name.                                  *)
Faithful(n) ==
    LET to    == MapModel(n)
        offered == IF n = <<>> THEN {} ELSE ToSet(ids)
        short == { id \in offered : Short(id) = n }
        like  == { id \in offered : Letters(Short(id)) = Letters(n) }
    IN  /\ n \in ToSet(ids) => to = n
        /\ n \notin ToSet(ids) /\ short # {} => to \in short
        /\ n \notin ToSet(ids) /\ short = {} /\ like # {} => to \in like
        /\ n \notin ToSet(ids) /\ like = {} => to = staticMapModel(n)

LEMMA ResolvedFaithfully ==
    ASSUME NEW n, CatalogInv, loaded = TRUE PROVE Faithful(n)
<1>1. ids \in Seq(IDs) /\ <<>> \notin ToSet(ids)
  BY SomeIDs DEF CatalogInv, ToSet
<1>2. CASE n = <<>>
  <2>1. resolve(n) = <<>>
    BY <1>2 DEF resolve
  <2>2. MapModel(n) = staticMapModel(n)
    BY <2>1 DEF MapModel
  <2> QED BY <1>1, <1>2, <2>2 DEF Faithful
<1>3. CASE n # <<>>
  <2>1. /\ \A id : index(id, n) = 1 <=> id = n
        /\ \A id : index(id, n) = 2 <=> id # n /\ Short(id) = n
        /\ \A id : index(id, n) = 3 <=> id # n /\ Short(id) # n /\ Letters(Short(id)) = Letters(n)
    BY DEF index, SameNorm, normalizeModelID
  <2>2. \A id : index(id, n) \in 1..4
    BY DEF index
  <2>3. \A id : Short(id) = n => Letters(Short(id)) = Letters(n)
    OBVIOUS
  <2>4. CASE resolve(n) = <<>>
    <3>1. MapModel(n) = staticMapModel(n)
      BY <2>4 DEF MapModel
    <3>2. \A id \in ToSet(ids) : index(id, n) = 4
      BY <1>1, <1>3, <2>4, Resolved
    <3>3. \A id \in ToSet(ids) : id # n /\ Short(id) # n /\ Letters(Short(id)) # Letters(n)
      BY <2>1, <3>2
    <3> QED BY <1>3, <3>1, <3>3 DEF Faithful
  <2>5. CASE resolve(n) # <<>>
    <3> DEFINE id == resolve(n)
    <3>1. MapModel(n) = id
      BY <2>5 DEF MapModel
    <3>2. IsClosest(id, n)
      BY <1>1, <1>3, <2>5, Resolved
    <3> HIDE DEF id
    <3>3. /\ id \in ToSet(ids) /\ index(id, n) \in {1, 2, 3}
          /\ \A other \in ToSet(ids) : index(id, n) <= index(other, n)
      BY <2>2, <3>2 DEF IsClosest
    <3>4. n \in ToSet(ids) => id = n
      <4>1. n \in ToSet(ids) => index(id, n) <= 1
        BY <2>1, <3>3
      <4> QED BY <2>1, <3>3, <4>1
    <3>5. ASSUME NEW other \in ToSet(ids), n \notin ToSet(ids), Short(other) = n
          PROVE  Short(id) = n
      <4>1. index(other, n) = 2
        BY <2>1, <3>5
      <4>2. index(id, n) \in {1, 2}
        BY <3>3, <4>1
      <4> QED BY <2>1, <3>3, <3>5, <4>2
    <3>6. id = n \/ Letters(Short(id)) = Letters(n)
      BY <2>1, <3>3
    <3> QED BY <1>3, <3>1, <3>3, <3>4, <3>5, <3>6 DEF Faithful
  <2> QED BY <2>4, <2>5
<1> QED BY <1>2, <1>3

(* Whatever the page lists, a name goes to itself if it is listed, else to *)
(* a model with this short name, else to one spelt like it, else to its    *)
(* alias: in every state, whichever ids share a short or normal form.      *)
THEOREM Faithfulness == Spec => []ResolveIsFaithful
<1>1. CatalogInv => ResolveIsFaithful
  <2> SUFFICES ASSUME CatalogInv, loaded, NEW n \in Names PROVE Faithful(n)
    BY DEF ResolveIsFaithful, Faithful
  <2>1. loaded = TRUE
    BY DEF CatalogInv
  <2> QED BY <2>1, ResolvedFaithfully
<1> QED BY <1>1, CatalogInvariance, PTL

(* What a client was told of is served, if an id of the page that is also  *)
(* an alias stands for itself: nothing but its absence from the list sends *)
(* such an id elsewhere, and then to a model spelt like it.                *)
THEOREM ListedServed ==
    ASSUME \A n \in IDs \cap DOMAIN StaticAlias : StaticAlias[n] = n
    PROVE  Spec => []ListedIsServed
<1>1. CatalogInv => ListedIsServed
  <2> SUFFICES ASSUME CatalogInv, NEW n \in listed
               PROVE  \/ MapModel(n) = n
                      \/ loaded /\ n \notin ToSet(ids) /\ MapModel(n) \in ToSet(ids)
                           /\ Letters(Short(MapModel(n))) = Letters(n)
    BY DEF ListedIsServed
  <2>1. staticMapModel(n) = n
    BY CatalogAssumption DEF CatalogInv, staticMapModel
  <2>2. CASE ~loaded
    <3>1. resolve(n) = <<>>
      BY <2>2 DEF resolve
    <3> QED BY <2>1, <3>1 DEF MapModel
  <2>3. CASE loaded
    <3>1. Faithful(n)
      BY <2>3, ResolvedFaithfully DEF CatalogInv
    <3> QED BY <2>1, <2>3, <3>1 DEF Faithful
  <2> QED BY <2>2, <2>3
<1> QED BY <1>1, CatalogInvariance, PTL

-----------------------------------------------------------------------------
(* ConvertMessages *)

(* Each message becomes one of the same role with at least one part.       *)
LEMMA ConvertedTurns ==
    ASSUME NEW S, NEW msgs \in Seq(S)
    PROVE  /\ \E T : ConvertMessages(msgs) \in Seq(T)
           /\ DOMAIN ConvertMessages(msgs) = DOMAIN msgs /\ Len(ConvertMessages(msgs)) = Len(msgs)
           /\ \A i \in DOMAIN msgs :
                 /\ ConvertMessages(msgs)[i] = convertMessage(msgs[i], callsBefore(msgs, i))
                 /\ ConvertMessages(msgs)[i].role = msgs[i].role
                 /\ ConvertMessages(msgs)[i].content # <<>>
<1> DEFINE m(i) == convertMessage(msgs[i], callsBefore(msgs, i))
           n == Len(msgs)
           T == {m(i) : i \in 1..n}
<1>1. ConvertMessages(msgs) = [i \in 1..n |-> m(i)]
  BY DEF ConvertMessages
<1>2. n \in Nat /\ DOMAIN msgs = 1..n
  OBVIOUS
<1>3. \A i \in 1..n : m(i).role = msgs[i].role /\ m(i).content # <<>>
  <2>1. \A parts : normalizeContent(parts) # <<>>
    BY DEF normalizeContent
  <2>2. \A part : <<part>> # <<>>
    OBVIOUS
  <2> HIDE DEF normalizeContent
  <2> QED BY <2>1, <2>2 DEF convertMessage
<1> HIDE DEF m
<1>4. [i \in 1..n |-> m(i)] \in Seq(T)
  BY <1>2
<1> HIDE DEF T
<1>5. \E U : ConvertMessages(msgs) \in Seq(U)
  BY <1>1, <1>4
<1>6. DOMAIN ConvertMessages(msgs) = 1..n /\ Len(ConvertMessages(msgs)) = n
      /\ \A i \in 1..n : ConvertMessages(msgs)[i] = m(i)
  BY <1>1, <1>2
<1> QED BY <1>2, <1>3, <1>5, <1>6 DEF m

-----------------------------------------------------------------------------
(* Requests and bodies *)

(* What of a request the chat handler reads.                               *)
LimitOf(c) ==
    IF c.endpoint = "chat" THEN OrElse(c.maxCompletion, OrElse(c.maxTokens, DefaultTokens))
    ELSE OrElse(OrElse(c.maxCompletion, OrElse(c.maxOutput, c.maxTokens)), OrElse(c.maxTokens, DefaultTokens))

IsList(s) == \E S : s \in Seq(S)

IsChat(req) == IsList(req.messages) /\ asked(req) = LimitOf(client) /\ req.tools = client.tools

IsResponses(req) ==
    /\ client.endpoint # "chat" /\ req.tools = client.tools
    /\ req.maxTokens = client.maxTokens /\ req.maxOutput = client.maxOutput
    /\ req.maxCompletion = client.maxCompletion
    /\ req.input.kind = "items" => IsList(req.input.items)

RequestInv ==
    /\ client \in Clients /\ IsList(history)
    /\ stage \in {"client", "responses", "chat"}
    /\ stage = "responses" => IsResponses(request)
    /\ stage = "chat" \/ body # None => IsChat(chat)
    /\ body # None => body.max_tokens = clamp(LimitOf(client)) /\ body.tools = toolsOf(client)
    /\ Built => body.messages = ConvertMessages(ExtractSystem(chat.messages).rest)

LEMMA ListGrows == ASSUME NEW s, IsList(s), NEW e PROVE IsList(Append(s, e))
<1>1. PICK S : s \in Seq(S)
  BY DEF IsList
<1> DEFINE U == S \union {e}
<1>2. s \in Seq(U) /\ e \in U
  BY <1>1
<1> HIDE DEF U
<1>3. Append(s, e) \in Seq(U)
  BY <1>2
<1> QED BY <1>3 DEF IsList

LEMMA ListsJoin == ASSUME NEW s, IsList(s), NEW t, IsList(t) PROVE IsList(s \o t)
<1>1. PICK S : s \in Seq(S)
  BY DEF IsList
<1>2. PICK T : t \in Seq(T)
  BY DEF IsList
<1> DEFINE U == S \union T
<1>3. s \in Seq(U) /\ t \in Seq(U)
  BY <1>1, <1>2
<1> HIDE DEF U
<1>4. s \o t \in Seq(U)
  BY <1>3
<1> QED BY <1>4 DEF IsList

LEMMA Lists == IsList(<<>>) /\ \A e : IsList(<<e>>)
<1>1. <<>> \in Seq({}) /\ \A e : <<e>> \in Seq({e})
  OBVIOUS
<1> QED BY <1>1 DEF IsList

LEMMA ObjectsAreAList == ASSUME NEW items, IsList(items) PROVE IsList(objects(items))
<1>1. PICK S : items \in Seq(S)
  BY DEF IsList
<1> DEFINE P == {i \in DOMAIN items : items[i] # Nil}
           picked == [i \in DOMAIN items |-> IF i \in P THEN <<items[i]>> ELSE <<>>]
<1>2. objects(items) = FlattenSeq(picked)
  <2>1. picked = [i \in DOMAIN items |-> IF items[i] # Nil THEN <<items[i]>> ELSE <<>>]
    OBVIOUS
  <2> HIDE DEF picked
  <2> QED BY <2>1 DEF objects, Keep
<1> HIDE DEF P
<1>3. picked = [i \in DOMAIN items |-> IF i \in P THEN <<items[i]>> ELSE <<>>]
  OBVIOUS
<1> HIDE DEF picked
<1>4. IsPicked(FlattenSeq(picked), S, items, P)
  BY <1>1, <1>3, Picked
<1> QED BY <1>2, <1>4 DEF IsPicked, IsList

LEMMA RewrittenIsAChat ==
    ASSUME NEW req, IsResponses(req) PROVE IsChat(responsesToChatRequest(req))
<1> DEFINE chat2 == responsesToChatRequest(req)
<1>1. IsList(responsesInputToMessages(req.input))
  <2>1. ASSUME NEW items, IsList(items) PROVE IsList(responseItemsToMessages(items))
    <3>1. IsList(objects(items))
      BY <2>1, ObjectsAreAList
    <3>2. Len(objects(items)) \in Nat
      BY <3>1 DEF IsList
    <3> DEFINE f(i) == itemMessage(objects(items)[i])
               n == Len(objects(items))
               S == {f(i) : i \in 1..n}
    <3>3. responseItemsToMessages(items) = [i \in 1..n |-> f(i)]
      BY DEF responseItemsToMessages
    <3>4. n \in Nat
      BY <3>2
    <3> HIDE DEF f, n
    <3>5. [i \in 1..n |-> f(i)] \in Seq(S)
      BY <3>4
    <3> HIDE DEF S
    <3> QED BY <3>3, <3>5 DEF IsList
  <2>2. IsList(<<>>) /\ \A e : IsList(<<e>>)
    BY Lists
  <2> QED BY <2>1, <2>2 DEF responsesInputToMessages, IsResponses
<1>2. IsList(chat2.messages)
  <2>1. \A system : IsList(<<system>> \o responsesInputToMessages(req.input))
    BY <1>1, Lists, ListsJoin
  <2>2. IsList(<<>> \o responsesInputToMessages(req.input))
    BY <1>1, Lists, ListsJoin
  <2> QED BY <2>1, <2>2 DEF responsesToChatRequest
<1>3. asked(chat2) = LimitOf(client) /\ chat2.tools = client.tools
  BY DEF responsesToChatRequest, asked, LimitOf, IsResponses
<1> QED BY <1>2, <1>3 DEF IsChat

LEMMA RequestsStart == Init => RequestInv
<1>1. IsList(<<>>)
  BY Lists
<1> QED BY <1>1 DEF Init, RequestInv, Built

LEMMA RequestsKept == RequestInv /\ [Next]_vars => RequestInv'
<1> SUFFICES ASSUME RequestInv, [Next]_vars PROVE RequestInv'
  OBVIOUS
<1>1. ASSUME UNCHANGED chatVars PROVE RequestInv'
  BY <1>1 DEF chatVars, RequestInv, Built, IsChat, IsResponses
<1>2. ASSUME NEW m \in Messages, SendChat(m) PROVE RequestInv'
  <2>1. /\ UNCHANGED <<client, body>> /\ history' = Append(history, m) /\ stage' = "chat"
        /\ client.endpoint = "chat" /\ chat' = chatRequest(history')
    BY <1>2 DEF SendChat, Say, Send
  <2>2. IsList(history')
    BY <2>1, ListGrows DEF RequestInv
  <2>3. IsChat(chat')
    BY <2>1, <2>2 DEF IsChat, chatRequest, asked, LimitOf
  <2>4. IsChat(chat)'
    BY <2>1, <2>3 DEF IsChat
  <2> QED BY <2>1, <2>2, <2>4 DEF RequestInv, Built
<1>3. ASSUME NEW next, NEW input, Say(next), client.endpoint # "chat",
             Send(responsesRequest(input), "responses"), UNCHANGED chat,
             input.kind = "items" => input.items = history'
      PROVE  RequestInv'
  <2>1. /\ UNCHANGED <<client, body, chat>> /\ history' = Append(history, next)
        /\ stage' = "responses" /\ request' = responsesRequest(input)
    BY <1>3 DEF Say, Send
  <2>2. IsList(history')
    BY <2>1, ListGrows DEF RequestInv
  <2>3. IsResponses(request)'
    BY <1>3, <2>1, <2>2 DEF IsResponses, responsesRequest
  <2>4. body # None => IsChat(chat)'
    BY <2>1 DEF RequestInv, IsChat
  <2> QED BY <2>1, <2>2, <2>3, <2>4 DEF RequestInv, Built
<1>4. ASSUME NEW item \in Items, SendItems(item) PROVE RequestInv'
  <2> DEFINE input == [kind |-> "items", items |-> history']
  <2>1. /\ Say(item) /\ client.endpoint # "chat" /\ Send(responsesRequest(input), "responses")
        /\ UNCHANGED chat /\ input.items = history'
    BY <1>4 DEF SendItems
  <2> HIDE DEF input
  <2> QED BY <1>3, <2>1
<1>5. ASSUME NEW input \in Inputs, SendInput(input) PROVE RequestInv'
  <2>1. /\ Say(input) /\ client.endpoint # "chat" /\ Send(responsesRequest(input), "responses")
        /\ UNCHANGED chat
    BY <1>5 DEF SendInput
  <2>2. input.kind # "items"
    BY ClientsAssumption DEF Null
  <2> QED BY <1>3, <2>1, <2>2
<1>6. CASE HandleResponses
  <2>1. /\ UNCHANGED <<client, history, request, body>> /\ stage = "responses" /\ stage' = "chat"
        /\ chat' = responsesToChatRequest(request)
    BY <1>6 DEF HandleResponses
  <2>2. IsChat(chat')
    BY <2>1, RewrittenIsAChat DEF RequestInv
  <2>3. IsChat(chat)'
    BY <2>1, <2>2 DEF IsChat
  <2> QED BY <2>1, <2>3 DEF RequestInv, Built
<1>7. CASE RefuseEmpty
  <2>1. UNCHANGED <<client, history, request, chat, body>> /\ chat.messages = <<>> /\ stage' = "client"
    BY <1>7 DEF RefuseEmpty
  <2> QED BY <2>1 DEF RequestInv, Built, IsChat
<1>8. CASE BuildRequest
  <2>1. /\ UNCHANGED <<client, history, request, chat>> /\ stage = "chat" /\ stage' = "client"
        /\ body' = params(chat, MapModel(chat.model), threadKey(chat))
    BY <1>8 DEF BuildRequest
  <2>2. IsChat(chat) /\ IsChat(chat)'
    BY <2>1 DEF RequestInv, IsChat
  <2>3. /\ body'.messages = ConvertMessages(ExtractSystem(chat.messages).rest)
        /\ body'.max_tokens = clamp(LimitOf(client)) /\ body'.tools = toolsOf(client)
    BY <2>1, <2>2 DEF params, IsChat, toolsOf
  <2> QED BY <2>1, <2>2, <2>3 DEF RequestInv, Built
<1>9. CASE HandleModels \/ AnswerModels \/ Background \/ UNCHANGED vars
  BY <1>1, <1>9 DEF HandleModels, AnswerModels, Background, vars, chatVars
<1> QED BY <1>2, <1>4, <1>5, <1>6, <1>7, <1>8, <1>9 DEF Next, Handlers

(* A handler's request has the limits and tools of its client, and a body  *)
(* the turns of the last chat request.                                     *)
THEOREM RequestInvariance == Spec => []RequestInv
BY RequestsStart, RequestsKept, PTL DEF Spec

LEMMA SentTools ==
    ASSUME NEW tools, tools \in Seq(ToSet(tools))
    PROVE  ConvertTools(tools) = <<>> \/ Nil \notin ToSet(ConvertTools(tools))
<1> DEFINE P == {i \in DOMAIN tools : tools[i] # Nil}
           picked == [i \in DOMAIN tools |-> IF i \in P THEN <<tools[i]>> ELSE <<>>]
<1>2. ConvertTools(tools) = FlattenSeq(picked)
  <2>1. picked = [i \in DOMAIN tools |-> IF tools[i] # Nil THEN <<tools[i]>> ELSE <<>>]
    OBVIOUS
  <2> HIDE DEF picked
  <2> QED BY <2>1 DEF ConvertTools, Keep
<1> HIDE DEF P
<1>3. picked = [i \in DOMAIN tools |-> IF i \in P THEN <<tools[i]>> ELSE <<>>]
  OBVIOUS
<1> HIDE DEF picked
<1>4. IsPicked(FlattenSeq(picked), ToSet(tools), tools, P)
  BY <1>3, Picked
<1> QED BY <1>2, <1>4 DEF IsPicked, P

LEMMA KeptTurns ==
    ASSUME NEW msgs, IsList(msgs)
    PROVE  /\ IsList(ExtractSystem(msgs).rest)
           /\ ExtractSystem(msgs).rest = <<>> => \A m \in ToSet(msgs) : m.role = "system"
<1>1. PICK S : msgs \in Seq(S)
  BY DEF IsList
<1> DEFINE P == {i \in DOMAIN msgs : ~IsSystem(msgs[i])}
           picked == [i \in DOMAIN msgs |-> IF i \in P THEN <<msgs[i]>> ELSE <<>>]
           rest == ExtractSystem(msgs).rest
<1>2. rest = FlattenSeq(picked)
  <2>1. picked = [i \in DOMAIN msgs |-> IF ~IsSystem(msgs[i]) THEN <<msgs[i]>> ELSE <<>>]
    OBVIOUS
  <2> HIDE DEF picked
  <2> QED BY <2>1 DEF ExtractSystem, Keep
<1> HIDE DEF P
<1>3. picked = [i \in DOMAIN msgs |-> IF i \in P THEN <<msgs[i]>> ELSE <<>>]
  OBVIOUS
<1> HIDE DEF picked
<1>4. IsPicked(rest, S, msgs, P)
  BY <1>1, <1>2, <1>3, Picked
<1> HIDE DEF rest
<1>5. IsList(rest)
  BY <1>4 DEF IsPicked, IsList
<1>6. ASSUME rest = <<>> PROVE \A m \in ToSet(msgs) : m.role = "system"
  <2>1. ToSet(rest) = {}
    BY <1>6 DEF ToSet
  <2>2. {msgs[i] : i \in DOMAIN msgs \cap P} = {}
    BY <1>4, <2>1 DEF IsPicked
  <2>3. \A i \in DOMAIN msgs : i \notin P
    BY <2>2
  <2> QED BY <1>1, <2>3 DEF P, IsSystem, ToSet
<1> QED BY <1>5, <1>6 DEF rest

LEMMA LimitsAreNumbers ==
    ASSUME RequestInv PROVE LimitOf(client) \in Int /\ clamp(LimitOf(client)) \in 1..maxUpstreamTokens
<1>1. LimitOf(client) \in Int
  BY ClientsAssumption, RequestBodyAssumption DEF RequestInv, LimitOf, OrElse
<1> HIDE DEF LimitOf
<1> QED BY <1>1, RequestBodyAssumption DEF clamp

(* No body has an empty message, a limit out of range or no tools.         *)
THEOREM Acceptance == Spec => []BodyIsAccepted
<1>1. RequestInv => BodyIsAccepted
  <2> SUFFICES ASSUME RequestInv, Built PROVE BodyIsAccepted
    BY DEF BodyIsAccepted
  <2> DEFINE rest == ExtractSystem(chat.messages).rest
  <2>1. /\ IsList(chat.messages) /\ body.messages = ConvertMessages(rest)
        /\ body.max_tokens = clamp(LimitOf(client)) /\ body.tools = toolsOf(client)
    BY DEF RequestInv, Built, IsChat
  <2>2. IsList(rest) /\ (rest = <<>> => \A m \in ToSet(chat.messages) : m.role = "system")
    BY <2>1, KeptTurns
  <2> HIDE DEF rest
  <2>3. PICK S : rest \in Seq(S)
    BY <2>2 DEF IsList
  <2>4. Len(body.messages) = Len(rest) /\ \A i \in DOMAIN body.messages : body.messages[i].content # <<>>
    BY <2>1, <2>3, ConvertedTurns
  <2>5. body.messages = <<>> => rest = <<>>
    <3>1. Len(<<>>) = 0
      OBVIOUS
    <3> QED BY <2>3, <2>4, <3>1
  <2>6. body.max_tokens \in 1..maxUpstreamTokens
    BY <2>1, LimitsAreNumbers
  <2>7. body.tools # <<>> /\ Nil \notin ToSet(body.tools)
    <3>1. ConvertTools(client.tools) = <<>> \/ Nil \notin ToSet(ConvertTools(client.tools))
      BY ClientsAssumption, SentTools DEF RequestInv
    <3>2. defaultTools # <<>> /\ Nil \notin ToSet(defaultTools)
      BY RequestBodyAssumption DEF ToSet
    <3> QED BY <2>1, <3>1, <3>2 DEF toolsOf
  <2> QED BY <2>2, <2>4, <2>5, <2>6, <2>7 DEF BodyIsAccepted
<1> QED BY <1>1, RequestInvariance, PTL

(* The body's limit is the client's most specific one, within bounds,      *)
(* whichever handlers it went through.                                     *)
THEOREM Limitation == Spec => []LimitIsHonoured
<1>1. RequestInv => LimitIsHonoured
  <2> SUFFICES ASSUME RequestInv, Built PROVE LimitIsHonoured
    BY DEF LimitIsHonoured
  <2>1. body.max_tokens = clamp(LimitOf(client))
    BY DEF RequestInv, Built
  <2>2. {client.maxTokens, client.maxOutput, client.maxCompletion} \subseteq Int \union {Nil}
    BY ClientsAssumption DEF RequestInv
  <2>3. IF Limits = <<>> THEN LimitOf(client) = DefaultTokens ELSE LimitOf(client) = Limits[1] /\ Limits[1] \in Int
    BY <2>2 DEF Limits, LimitOf, OrElse
  <2>4. \A l \in Int : Min({l, maxUpstreamTokens}) = IF l > maxUpstreamTokens THEN maxUpstreamTokens ELSE l
    BY RequestBodyAssumption DEF Min
  <2> QED BY <2>1, <2>3, <2>4, RequestBodyAssumption DEF LimitIsHonoured, clamp
<1> QED BY <1>1, RequestInvariance, PTL

-----------------------------------------------------------------------------
(* The thread of a conversation *)

(* A new turn of another's leaves the system's text and the first user     *)
(* turn what they were.                                                    *)
GrowsBy(old, new, S, P, s, e) ==
    /\ old \in Seq(S) /\ new = IF e \in P THEN Append(old, e) ELSE old
    /\ old = <<>> => \A i \in DOMAIN s : s[i] \notin P

LEMMA KeepGrows ==
    ASSUME NEW S, NEW P \in SUBSET S, NEW s \in Seq(S), NEW e \in S, NEW piece,
           piece = [x \in S |-> IF x \in P THEN <<x>> ELSE <<>>]
    PROVE  GrowsBy(FlattenSeq(Pieces(piece, s)), FlattenSeq(Pieces(piece, Append(s, e))), S, P, s, e)
<1> DEFINE kept == FlattenSeq(Pieces(piece, s))
<1>1. piece \in [S -> Seq(S)]
  OBVIOUS
<1>2. Append(s, e) = s \o <<e>>
  OBVIOUS
<1>3. kept \in Seq(S) /\ FlattenSeq(Pieces(piece, s \o <<e>>)) = kept \o piece[e]
  <2> DEFINE Grows(p) == /\ FlattenSeq(Pieces(p, s)) \in Seq(S)
                         /\ FlattenSeq(Pieces(p, s \o <<e>>)) = FlattenSeq(Pieces(p, s)) \o p[e]
  <2>1. ASSUME NEW p \in [S -> Seq(S)] PROVE Grows(p)
    BY PiecesTyped, PiecesGrow
  <2> HIDE DEF Grows
  <2>2. Grows(piece)
    BY <1>1, <2>1
  <2> QED BY <2>2 DEF Grows
<1>4. piece[e] = IF e \in P THEN <<e>> ELSE <<>>
  OBVIOUS
<1>5. Pieces(piece, s) = [i \in DOMAIN s |-> IF i \in {j \in DOMAIN s : s[j] \in P} THEN <<s[i]>> ELSE <<>>]
  BY DEF Pieces
<1> DEFINE on == {j \in DOMAIN s : s[j] \in P}
<1>6. IsPicked(kept, S, s, on)
  <2> HIDE DEF on
  <2> DEFINE picked == Pieces(piece, s)
  <2>1. picked = [i \in DOMAIN s |-> IF i \in on THEN <<s[i]>> ELSE <<>>]
    BY <1>5 DEF on
  <2> HIDE DEF picked
  <2>2. IsPicked(FlattenSeq(picked), S, s, on)
    BY <2>1, Picked
  <2> QED BY <2>2 DEF picked
<1> HIDE DEF kept
<1>7. kept = <<>> => ToSet(kept) = {}
  BY DEF ToSet
<1>8. kept = <<>> => \A i \in DOMAIN s : s[i] \notin P
  BY <1>6, <1>7 DEF IsPicked, on
<1>9. kept \o <<e>> = Append(kept, e) /\ kept \o <<>> = kept
  BY <1>3
<1> QED BY <1>2, <1>3, <1>4, <1>8, <1>9 DEF kept, GrowsBy

LEMMA SystemStays ==
    ASSUME NEW S, NEW msgs \in Seq(S), NEW m \in S, ~IsSystem(m)
    PROVE  systemText(Append(msgs, m)) = systemText(msgs)
<1> DEFINE P == {x \in S : IsSystem(x)}
           piece == [x \in S |-> IF x \in P THEN <<x>> ELSE <<>>]
<1>1. ASSUME NEW s \in Seq(S) PROVE Keep(s, IsSystem) = FlattenSeq(Pieces(piece, s))
  <2>1. Pieces(piece, s) = [i \in DOMAIN s |-> IF IsSystem(s[i]) THEN <<s[i]>> ELSE <<>>]
    BY DEF Pieces
  <2> QED BY <2>1 DEF Keep
<1>2. Append(msgs, m) \in Seq(S) /\ m \notin P
  OBVIOUS
<1>3. FlattenSeq(Pieces(piece, Append(msgs, m))) = FlattenSeq(Pieces(piece, msgs))
  <2>1. P \in SUBSET S /\ piece = [x \in S |-> IF x \in P THEN <<x>> ELSE <<>>]
    OBVIOUS
  <2> HIDE DEF P, piece
  <2>2. GrowsBy(FlattenSeq(Pieces(piece, msgs)), FlattenSeq(Pieces(piece, Append(msgs, m))), S, P, msgs, m)
    BY <2>1, KeepGrows
  <2> QED BY <1>2, <2>2 DEF GrowsBy
<1>4. Keep(Append(msgs, m), IsSystem) = Keep(msgs, IsSystem)
  <2> HIDE DEF piece
  <2> QED BY <1>1, <1>2, <1>3
<1> QED BY <1>4 DEF systemText

LEMMA FirstStays ==
    ASSUME NEW S, NEW msgs \in Seq(S), NEW m \in S, NEW i \in DOMAIN msgs, msgs[i].role = "user"
    PROVE  firstUser(Append(msgs, m)) = firstUser(msgs)
<1> DEFINE P == {x \in S : x.role = "user"}
           piece == [x \in S |-> IF x \in P THEN <<x>> ELSE <<>>]
<1>1. ASSUME NEW s \in Seq(S) PROVE UserTurns(s) = FlattenSeq(Pieces(piece, s))
  <2>1. Pieces(piece, s) = [k \in DOMAIN s |-> IF s[k].role = "user" THEN <<s[k]>> ELSE <<>>]
    BY DEF Pieces
  <2> QED BY <2>1 DEF UserTurns, Keep
<1>2. Append(msgs, m) \in Seq(S) /\ msgs[i] \in P
  OBVIOUS
<1> DEFINE turns == FlattenSeq(Pieces(piece, msgs))
           more  == FlattenSeq(Pieces(piece, Append(msgs, m)))
<1>3. GrowsBy(turns, more, S, P, msgs, m)
  <2>1. P \in SUBSET S /\ piece = [x \in S |-> IF x \in P THEN <<x>> ELSE <<>>]
    OBVIOUS
  <2> HIDE DEF P, piece
  <2> QED BY <2>1, KeepGrows
<1>4. UserTurns(msgs) = turns /\ UserTurns(Append(msgs, m)) = more
  <2> HIDE DEF piece
  <2> QED BY <1>1, <1>2
<1> HIDE DEF turns, more
<1>5. turns # <<>> /\ turns \in Seq(S) /\ more \in {turns, Append(turns, m)}
  <2> HIDE DEF P
  <2> QED BY <1>2, <1>3 DEF GrowsBy
<1>6. Append(turns, m) # <<>> /\ Append(turns, m)[1] = turns[1]
  BY <1>5
<1> QED BY <1>4, <1>5, <1>6 DEF firstUser

LEMMA ObjectsGrow ==
    ASSUME NEW S, NEW items \in Seq(S), NEW e \in S
    PROVE  /\ objects(items) \in Seq(S)
           /\ objects(Append(items, e)) = IF e = Nil THEN objects(items) ELSE Append(objects(items), e)
           /\ ToSet(objects(items)) = ToSet(items) \ {Nil}
<1> DEFINE P == S \ {Nil}
           piece == [x \in S |-> IF x \in P THEN <<x>> ELSE <<>>]
<1>1. ASSUME NEW s \in Seq(S) PROVE objects(s) = FlattenSeq(Pieces(piece, s))
  <2>1. Pieces(piece, s) = [k \in DOMAIN s |-> IF s[k] # Nil THEN <<s[k]>> ELSE <<>>]
    BY DEF Pieces
  <2> QED BY <2>1 DEF objects, Keep
<1>2. Append(items, e) \in Seq(S) /\ (e \in P <=> e # Nil)
  OBVIOUS
<1>3. GrowsBy(FlattenSeq(Pieces(piece, items)), FlattenSeq(Pieces(piece, Append(items, e))), S, P, items, e)
  <2>1. P \in SUBSET S /\ piece = [x \in S |-> IF x \in P THEN <<x>> ELSE <<>>]
    OBVIOUS
  <2> HIDE DEF P, piece
  <2> QED BY <2>1, KeepGrows
<1>4. ToSet(objects(items)) = ToSet(items) \ {Nil}
  <2> DEFINE on == {k \in DOMAIN items : items[k] # Nil}
             picked == [k \in DOMAIN items |-> IF k \in on THEN <<items[k]>> ELSE <<>>]
  <2>1. objects(items) = FlattenSeq(picked)
    <3>1. picked = [k \in DOMAIN items |-> IF items[k] # Nil THEN <<items[k]>> ELSE <<>>]
      OBVIOUS
    <3> HIDE DEF picked
    <3> QED BY <3>1 DEF objects, Keep
  <2> HIDE DEF on
  <2>2. picked = [k \in DOMAIN items |-> IF k \in on THEN <<items[k]>> ELSE <<>>]
    OBVIOUS
  <2> HIDE DEF picked
  <2>3. IsPicked(FlattenSeq(picked), S, items, on)
    BY <2>2, Picked
  <2> QED BY <2>1, <2>3 DEF IsPicked, ToSet, on
<1> HIDE DEF piece
<1>5. GrowsBy(objects(items), objects(Append(items, e)), S, P, items, e)
  BY <1>1, <1>2, <1>3
<1> QED BY <1>2, <1>4, <1>5 DEF GrowsBy

LEMMA KeyStays ==
    ASSUME NEW S, NEW msgs \in Seq(S), NEW m \in S, ~IsSystem(m),
           NEW i \in DOMAIN msgs, msgs[i].role = "user",
           NEW old, old.messages = msgs, NEW new, new.messages = Append(msgs, m),
           new.user = old.user, new.model = old.model
    PROVE  convKey(new) = convKey(old)
<1>1. systemText(new.messages) = systemText(old.messages)
  BY SystemStays
<1>2. firstUser(new.messages) = firstUser(old.messages)
  BY FirstStays
<1> QED BY <1>1, <1>2 DEF convKey

(* The chat request that the client's conversation becomes.                *)
ItemList(h) == [kind |-> "items", items |-> h]

InputOf(h) == IF client.endpoint = "input" THEN Last(h) ELSE ItemList(h)

ChatOf(h) ==
    IF client.endpoint = "chat" THEN chatRequest(h)
    ELSE responsesToChatRequest(responsesRequest(InputOf(h)))

TurnsOf(c) ==
    IF c.endpoint = "chat" THEN Messages ELSE IF c.endpoint = "responses" THEN Items ELSE Inputs

LEMMA ChatGrows ==
    ASSUME client \in Clients, client.endpoint # "input",
           NEW h \in Seq(TurnsOf(client)), NEW next \in TurnsOf(client), ~FromSystem(next),
           client.user # Nil \/ \E i \in DOMAIN h : FromUser(h[i])
    PROVE  convKey(ChatOf(Append(h, next))) = convKey(ChatOf(h))
<1> DEFINE old == ChatOf(h)
           new == ChatOf(Append(h, next))
<1>1. /\ old.user = client.user /\ new.user = client.user
      /\ old.model = client.model /\ new.model = client.model
  BY DEF ChatOf, chatRequest, responsesRequest, responsesToChatRequest
<1>2. client.endpoint \in {"chat", "responses"}
  BY ClientsAssumption
<1>3. CASE client.user # Nil
  BY <1>1, <1>3 DEF convKey
<1>4. CASE client.user = Nil /\ client.endpoint = "chat"
  <2>1. h \in Seq(Messages) /\ next \in Messages
    BY <1>4 DEF TurnsOf
  <2>2. old.messages = h /\ new.messages = Append(h, next)
    BY <1>4 DEF ChatOf, chatRequest
  <2>3. ~IsSystem(next)
    BY <1>4, <2>1, ClientsAssumption DEF FromSystem, IsSystem
  <2>4. PICK i \in DOMAIN h : h[i].role = "user"
    BY <1>4 DEF FromUser
  <2> HIDE DEF old, new
  <2>5. convKey(new) = convKey(old)
    BY <1>1, <2>1, <2>2, <2>3, <2>4, KeyStays
  <2> QED BY <2>5 DEF old, new
<1>5. CASE client.user = Nil /\ client.endpoint = "responses"
  <2> DEFINE turn(item) == itemMessage(item)
             first == IF client.instructions = Null THEN <<>>
                      ELSE <<Message("system", client.instructions)>>
             turns(items) == [k \in 1..Len(objects(items)) |-> turn(objects(items)[k])]
             S == {turn(x) : x \in Items} \union {Message("system", client.instructions)}
  <2>1. h \in Seq(Items) /\ next \in Items
    BY <1>5 DEF TurnsOf
  <2>2. /\ objects(h) \in Seq(Items)
        /\ objects(Append(h, next)) = IF next = Nil THEN objects(h) ELSE Append(objects(h), next)
        /\ ToSet(objects(h)) = ToSet(h) \ {Nil}
    BY <2>1, ObjectsGrow
  <2>3. PICK i \in DOMAIN h : h[i] # Nil /\ h[i].role \in {"user", Nil}
    BY <1>5 DEF FromUser
  <2>4. PICK j \in 1..Len(objects(h)) : objects(h)[j] = h[i]
    <3>1. h[i] \in ToSet(objects(h))
      BY <2>2, <2>3 DEF ToSet
    <3> QED BY <2>2, <3>1 DEF ToSet
  <2>5. objects(h) # <<>> /\ objects(Append(h, next)) # <<>>
    BY <2>2, <2>4
  <2>6. ASSUME NEW items, objects(items) # <<>> PROVE ChatOf(items).messages = first \o turns(items)
    BY <1>5, <2>6 DEF ChatOf, responsesRequest, responsesToChatRequest, responsesInputToMessages,
                      responseItemsToMessages, InputOf, ItemList
  <2>7. old.messages = first \o turns(h) /\ new.messages = first \o turns(Append(h, next))
    <3> HIDE DEF first, turns
    <3> QED BY <2>5, <2>6
  <2>8. turns(h) \in Seq(S) /\ first \in Seq(S)
    <3>1. first \in Seq(S)
      <4> DEFINE system == Message("system", client.instructions)
      <4>1. system \in S
        OBVIOUS
      <4> HIDE DEF S, system
      <4>2. <<system>> \in Seq(S) /\ <<>> \in Seq(S)
        BY <4>1
      <4> QED BY <4>2 DEF system
    <3>2. \A k \in 1..Len(objects(h)) : turn(objects(h)[k]) \in S
      <4> HIDE DEF turn
      <4> QED BY <2>2
    <3>3. Len(objects(h)) \in Nat
      BY <2>2
    <3> HIDE DEF turn, S
    <3> QED BY <3>1, <3>2, <3>3
  <2>9. CASE next = Nil
    <3>1. turns(Append(h, next)) = turns(h)
      BY <2>2, <2>9
    <3>2. new.messages = old.messages
      <4> HIDE DEF turns, first, old, new
      <4> QED BY <2>7, <3>1
    <3> HIDE DEF old, new
    <3>3. convKey(new) = convKey(old)
      BY <1>1, <3>2 DEF convKey
    <3> QED BY <3>3 DEF old, new
  <2>10. CASE next # Nil
    <3> DEFINE m == turn(next)
               msgs == first \o turns(h)
    <3>1. objects(Append(h, next)) = Append(objects(h), next)
      BY <2>2, <2>10
    <3>2. turns(Append(h, next)) = Append(turns(h), m)
      <4> DEFINE os == objects(h)
      <4>1. os \in Seq(Items)
        BY <2>2
      <4> HIDE DEF turn, os
      <4>2. [k \in 1..Len(Append(os, next)) |-> turn(Append(os, next)[k])]
              = Append([k \in 1..Len(os) |-> turn(os[k])], turn(next))
        BY <2>1, <4>1
      <4> QED BY <3>1, <4>2 DEF os
    <3>3. m \in S /\ ~IsSystem(m)
      <4>1. next.role # "system"
        BY <1>5, <2>10 DEF FromSystem
      <4> QED BY <2>1, <4>1 DEF IsSystem, itemMessage, Message, OrElse
    <3>4. turns(h)[j].role = "user" /\ j \in DOMAIN turns(h)
      BY <2>3, <2>4 DEF itemMessage, Message, OrElse
    <3>5. msgs \in Seq(S) /\ first \o Append(turns(h), m) = Append(msgs, m)
      <4> HIDE DEF S, first, turns, m
      <4> QED BY <2>8, <3>3
    <3>6. PICK k \in DOMAIN msgs : msgs[k].role = "user"
      <4> HIDE DEF S, first, turns
      <4>1. Len(first) + j \in DOMAIN msgs /\ msgs[Len(first) + j] = turns(h)[j]
        BY <2>8, <3>4
      <4> HIDE DEF msgs
      <4> QED BY <3>4, <4>1
    <3>7. old.messages = msgs /\ new.messages = Append(msgs, m)
      <4> HIDE DEF first, turns, m
      <4> QED BY <2>7, <3>2, <3>5
    <3> HIDE DEF old, new, msgs, m, S
    <3>8. convKey(new) = convKey(old)
      BY <1>1, <3>3, <3>5, <3>6, <3>7, KeyStays
    <3> QED BY <3>8 DEF old, new
  <2> QED BY <2>9, <2>10
<1> QED BY <1>2, <1>3, <1>4, <1>5

ConversationInv ==
    /\ history \in Seq(TurnsOf(client)) /\ (stage # "client" => history # <<>>)
    /\ stage = "responses" => client.endpoint # "chat" /\ request = responsesRequest(InputOf(history))
    /\ stage = "chat" \/ Built => history # <<>> /\ chat = ChatOf(history)
    /\ Built => body.system =
          IF systemText(chat.messages) = <<>> THEN <<>> ELSE <<systemText(chat.messages)>>
    /\ body # None /\ client.endpoint # "input" =>
          body.thread = convKey(ChatOf(IF stage = "client" THEN history ELSE Front(history)))

LEMMA ConversationStarts == Init => ConversationInv
<1>1. \A S : <<>> \in Seq(S)
  OBVIOUS
<1> QED BY <1>1 DEF Init, ConversationInv, Built

(* A conversation is never refused as empty.                               *)
LEMMA NeverEmpty ==
    ASSUME client \in Clients, client.endpoint # "input", NEW h \in Seq(TurnsOf(client)), h # <<>>
    PROVE  ChatOf(h).messages # <<>>
<1>1. CASE client.endpoint = "chat"
  BY <1>1 DEF ChatOf, chatRequest
<1>2. CASE client.endpoint = "responses"
  <2> DEFINE rewritten == responsesInputToMessages(ItemList(h))
  <2>1. h \in Seq(Items)
    BY <1>2 DEF TurnsOf
  <2>2. h[1] \in Items
    BY <2>1
  <2>3. objects(h) \in Seq(Items)
    BY <2>1, <2>2, ObjectsGrow
  <2>4. rewritten # <<>> /\ IsList(rewritten)
    <3>1. CASE objects(h) = <<>>
      <4>1. rewritten = <<Message("user", [kind |-> "parts", parts |-> <<>>])>>
        BY <3>1 DEF responsesInputToMessages, ItemList
      <4>2. \A m : <<m>> # <<>>
        OBVIOUS
      <4> QED BY <4>1, <4>2, Lists
    <3>2. CASE objects(h) # <<>>
      <4> DEFINE f(k) == itemMessage(objects(h)[k])
                 n == Len(objects(h))
                 S == {f(k) : k \in 1..n}
                 ms == [k \in 1..n |-> f(k)]
      <4>1. rewritten = ms
        BY <3>2 DEF responsesInputToMessages, responseItemsToMessages, ItemList
      <4>2. n \in Nat /\ n # 0
        BY <2>3, <3>2
      <4> HIDE DEF f, n
      <4>3. ms \in Seq(S) /\ ms # <<>>
        BY <4>2
      <4> HIDE DEF S, ms
      <4> QED BY <4>1, <4>3 DEF IsList
    <3> QED BY <3>1, <3>2
  <2> HIDE DEF rewritten
  <2>5. \A m : <<m>> \o rewritten # <<>> /\ <<>> \o rewritten # <<>>
    BY <2>4 DEF IsList
  <2>6. ChatOf(h).messages = (IF client.instructions = Null THEN <<>>
                              ELSE <<Message("system", client.instructions)>>) \o rewritten
    BY <1>2 DEF ChatOf, InputOf, responsesRequest, responsesToChatRequest, rewritten
  <2> QED BY <2>5, <2>6
<1> QED BY <1>1, <1>2, ClientsAssumption

LEMMA FrontOfAppend ==
    ASSUME NEW S, NEW s \in Seq(S), NEW e \in S
    PROVE  /\ Append(s, e) \in Seq(S) /\ Append(s, e) # <<>>
           /\ Front(Append(s, e)) = s /\ Last(Append(s, e)) = e
<1>1. Append(s, e) \in Seq(S) /\ Append(s, e) # <<>> /\ Len(Append(s, e)) = Len(s) + 1
  <2> DEFINE t == Append(s, e)
  <2>1. t \in Seq(S) /\ Len(t) = Len(s) + 1 /\ Len(s) + 1 # 0
    OBVIOUS
  <2> HIDE DEF t
  <2>2. t # <<>>
    BY <2>1
  <2> QED BY <2>1, <2>2 DEF t
<1>2. SubSeq(Append(s, e), 1, Len(s)) = s /\ Append(s, e)[Len(s) + 1] = e /\ Len(s) + 1 - 1 = Len(s)
  OBVIOUS
<1> QED BY <1>1, <1>2 DEF Front, Last

LEMMA ConversationKept == RequestInv /\ ConversationInv /\ [Next]_vars => ConversationInv'
<1> SUFFICES ASSUME RequestInv, ConversationInv, [Next]_vars PROVE ConversationInv'
  OBVIOUS
<1>0. client' = client /\ client \in Clients
  <2>1. client' = client
    BY DEF Next, Handlers, SendChat, SendItems, SendInput, Send, HandleResponses, RefuseEmpty,
           BuildRequest, HandleModels, AnswerModels, Background, chatVars, vars
  <2> QED BY <2>1 DEF RequestInv
<1> DEFINE Ends(h) == IF stage = "client" THEN h ELSE Front(h)
<1>1. ASSUME UNCHANGED <<history, request, stage, chat, body>> PROVE ConversationInv'
  BY <1>0, <1>1 DEF ConversationInv, Built, ChatOf, InputOf, chatRequest, responsesRequest
<1>2. ASSUME NEW next \in TurnsOf(client), stage = "client", history' = Append(history, next),
             UNCHANGED body,
             \/ stage' = "chat" /\ chat' = ChatOf(history')
             \/ /\ stage' = "responses" /\ client.endpoint # "chat"
                /\ request' = responsesRequest(InputOf(history'))
      PROVE  ConversationInv'
  <2>1. history' \in Seq(TurnsOf(client)) /\ history' # <<>> /\ Front(history') = history
    BY <1>2, FrontOfAppend DEF ConversationInv
  <2>2. body' # None /\ client.endpoint # "input" => body'.thread = convKey(ChatOf(history))
    BY <1>2 DEF ConversationInv
  <2>3. (body # None /\ client.endpoint # "input" =>
            body.thread = convKey(ChatOf(IF stage = "client" THEN history ELSE Front(history))))'
    BY <1>0, <1>2, <2>1, <2>2 DEF ChatOf, InputOf, chatRequest, responsesRequest
  <2>4. (stage = "chat" => history # <<>> /\ chat = ChatOf(history))'
    BY <1>0, <1>2, <2>1 DEF ChatOf, InputOf, chatRequest, responsesRequest
  <2>5. (stage = "responses" => client.endpoint # "chat" /\ request = responsesRequest(InputOf(history)))'
    BY <1>0, <1>2 DEF InputOf, responsesRequest
  <2>6. (history \in Seq(TurnsOf(client)))' /\ ~Built'
    BY <1>0, <1>2, <2>1 DEF Built
  <2> QED BY <2>1, <2>3, <2>4, <2>5, <2>6 DEF ConversationInv
<1>3. ASSUME NEW m \in Messages, SendChat(m) PROVE ConversationInv'
  <2>1. /\ client.endpoint = "chat" /\ stage = "client" /\ stage' = "chat" /\ UNCHANGED body
        /\ history' = Append(history, m) /\ chat' = chatRequest(history')
    BY <1>3 DEF SendChat, Say, Send
  <2>2. m \in TurnsOf(client) /\ chat' = ChatOf(history')
    BY <2>1 DEF TurnsOf, ChatOf
  <2> QED BY <1>2, <2>1, <2>2
<1>4. ASSUME NEW item \in Items, SendItems(item) PROVE ConversationInv'
  <2>1. /\ client.endpoint = "responses" /\ stage = "client" /\ stage' = "responses" /\ UNCHANGED body
        /\ history' = Append(history, item) /\ request' = responsesRequest(ItemList(history'))
    BY <1>4 DEF SendItems, Say, Send, ItemList
  <2>2. item \in TurnsOf(client) /\ InputOf(history') = ItemList(history')
    BY <2>1 DEF TurnsOf, InputOf
  <2> QED BY <1>2, <2>1, <2>2
<1>5. ASSUME NEW input \in Inputs, SendInput(input) PROVE ConversationInv'
  <2>1. /\ client.endpoint = "input" /\ stage = "client" /\ stage' = "responses" /\ UNCHANGED body
        /\ history' = Append(history, input) /\ request' = responsesRequest(input)
    BY <1>5 DEF SendInput, Say, Send
  <2>2. input \in TurnsOf(client)
    BY <2>1 DEF TurnsOf
  <2>3. InputOf(history') = input
    BY <2>1, <2>2, FrontOfAppend DEF InputOf, ConversationInv
  <2> QED BY <1>2, <2>1, <2>2, <2>3
<1>6. CASE HandleResponses
  <2>1. /\ UNCHANGED <<history, request, body>> /\ stage = "responses" /\ stage' = "chat"
        /\ chat' = responsesToChatRequest(request)
    BY <1>6 DEF HandleResponses
  <2>2. history # <<>> /\ chat' = ChatOf(history) /\ ~Built'
    BY <2>1 DEF ConversationInv, ChatOf, Built
  <2>3. (history # <<>> /\ chat = ChatOf(history))'
    BY <1>0, <2>1, <2>2 DEF ChatOf, InputOf, chatRequest, responsesRequest
  <2>4. (body # None /\ client.endpoint # "input" =>
            body.thread = convKey(ChatOf(IF stage = "client" THEN history ELSE Front(history))))'
    BY <1>0, <2>1 DEF ConversationInv, ChatOf, InputOf, chatRequest, responsesRequest
  <2> QED BY <1>0, <2>1, <2>2, <2>3, <2>4 DEF ConversationInv
<1>7. CASE RefuseEmpty
  <2>1. /\ UNCHANGED <<history, request, chat, body>> /\ stage = "chat" /\ stage' = "client"
        /\ chat.messages = <<>>
    BY <1>7 DEF RefuseEmpty
  <2>2. client.endpoint = "input"
    <3>1. history \in Seq(TurnsOf(client)) /\ history # <<>> /\ chat = ChatOf(history)
      BY <2>1 DEF ConversationInv
    <3> QED BY <1>0, <2>1, <3>1, NeverEmpty
  <2> QED BY <1>0, <2>1, <2>2 DEF ConversationInv, Built
<1>8. CASE BuildRequest
  <2>1. /\ UNCHANGED <<history, request, chat>> /\ stage = "chat" /\ stage' = "client"
        /\ body' = params(chat, MapModel(chat.model), threadKey(chat))
    BY <1>8 DEF BuildRequest
  <2>2. history # <<>> /\ chat = ChatOf(history)
    BY <2>1 DEF ConversationInv
  <2>3. body'.thread = convKey(ChatOf(history))
    BY <2>1, <2>2 DEF params, threadKey
  <2>4. (body.thread = convKey(ChatOf(history)) /\ history # <<>> /\ chat = ChatOf(history))'
    BY <1>0, <2>1, <2>2, <2>3 DEF ChatOf, InputOf, chatRequest, responsesRequest
  <2>5. body'.system = IF systemText(chat.messages) = <<>> THEN <<>> ELSE <<systemText(chat.messages)>>
    <3>1. ExtractSystem(chat.messages).system = systemText(chat.messages)
      BY DEF ExtractSystem
    <3> QED BY <2>1, <3>1 DEF params
  <2> QED BY <1>0, <2>1, <2>4, <2>5 DEF ConversationInv
<1>9. CASE HandleModels \/ AnswerModels \/ Background \/ UNCHANGED vars
  BY <1>1, <1>9 DEF HandleModels, AnswerModels, Background, vars, chatVars
<1> QED BY <1>3, <1>4, <1>5, <1>6, <1>7, <1>8, <1>9 DEF Next, Handlers

(* A body is that of the conversation it was built from, and has its       *)
(* system texts and its thread.                                            *)
THEOREM ConversationInvariance == Spec => []ConversationInv
BY RequestInvariance, ConversationStarts, ConversationKept, PTL DEF Spec

(* A conversation keeps its thread from turn to turn, whatever the catalog *)
(* does: only a system message, or a first user turn, makes another of it. *)
THEOREM Continuity == Spec => TurnsKeepTheThread
<1> DEFINE Keeps ==
        body # None /\ body' # body /\ client.endpoint # "input" =>
          \/ body.thread = body'.thread
          \/ FromSystem(Last(history))
          \/ body.thread = Nil
          \/ client.user = Nil /\ ~\E i \in 1..(Len(history) - 1) : FromUser(history[i])
<1>1. RequestInv /\ ConversationInv /\ [Next]_vars => [Keeps]_vars
  <2> SUFFICES ASSUME RequestInv, ConversationInv, Next, body # None, body' # body, client.endpoint # "input",
                      ~FromSystem(Last(history)),
                      client.user # Nil \/ \E i \in 1..(Len(history) - 1) : FromUser(history[i])
               PROVE  body.thread = body'.thread
    BY DEF vars
  <2>1. BuildRequest
    BY DEF Next, Handlers, SendChat, SendItems, SendInput, Send, HandleResponses, RefuseEmpty,
           HandleModels, AnswerModels, Background, chatVars
  <2>2. stage = "chat" /\ body'.thread = convKey(chat)
    BY <2>1 DEF BuildRequest, params, threadKey
  <2>3. /\ history \in Seq(TurnsOf(client)) /\ history # <<>> /\ client \in Clients
        /\ body.thread = convKey(ChatOf(Front(history))) /\ chat = ChatOf(history)
    BY <2>2 DEF ConversationInv, RequestInv
  <2> DEFINE h == Front(history)
             next == Last(history)
  <2>4. /\ h \in Seq(TurnsOf(client)) /\ next \in TurnsOf(client) /\ history = Append(h, next)
        /\ DOMAIN h = 1..(Len(history) - 1) /\ \A i \in DOMAIN h : h[i] = history[i]
    BY <2>3 DEF Front, Last
  <2>5. client.user # Nil \/ \E i \in DOMAIN h : FromUser(h[i])
    BY <2>4
  <2>6. ~FromSystem(next)
    OBVIOUS
  <2> HIDE DEF h, next
  <2>7. convKey(ChatOf(Append(h, next))) = convKey(ChatOf(h))
    BY <2>3, <2>4, <2>5, <2>6, ChatGrows
  <2> QED BY <2>2, <2>3, <2>4, <2>7 DEF h
<1> QED BY <1>1, RequestInvariance, ConversationInvariance, PTL DEF Spec, TurnsKeepTheThread, Keeps

-----------------------------------------------------------------------------
(***************************************************************************)
(* What a client says, calls and answers, through the conversions: what a  *)
(* part, a call and a message add to the list made of those before, and a  *)
(* body, on either endpoint, as the list made of all of them.              *)
(***************************************************************************)

(* The calls among parts, in their order.                                  *)
LEMMA CallsOfParts ==
    ASSUME NEW S, NEW parts \in Seq(S)
    PROVE  /\ callsAmong(parts) \in Seq(S)
           /\ \A c : c \in ToSet(callsAmong(parts)) <=> c.type = "call" /\ c \in ToSet(parts)
<1> DEFINE P == {i \in DOMAIN parts : parts[i].type = "call"}
           picked == [i \in DOMAIN parts |-> IF i \in P THEN <<parts[i]>> ELSE <<>>]
<1>1. callsAmong(parts) = FlattenSeq(picked)
  <2>1. picked = [i \in DOMAIN parts |-> IF parts[i].type = "call" THEN <<parts[i]>> ELSE <<>>]
    OBVIOUS
  <2> HIDE DEF picked
  <2> QED BY <2>1 DEF callsAmong, Keep
<1> HIDE DEF P
<1>2. picked = [i \in DOMAIN parts |-> IF i \in P THEN <<parts[i]>> ELSE <<>>]
  OBVIOUS
<1> HIDE DEF picked
<1>3. IsPicked(FlattenSeq(picked), S, parts, P)
  BY <1>2, Picked
<1>4. {parts[i] : i \in DOMAIN parts \cap P} = {c \in ToSet(parts) : c.type = "call"}
  BY DEF P, ToSet
<1> QED BY <1>1, <1>3, <1>4 DEF IsPicked

(* Calls that are apart by their ids are apart among the parts.            *)
CalledOnce(calls, id) == \A i, j \in DOMAIN calls : calls[i].id = id /\ calls[j].id = id => i = j

LEMMA CallsApart ==
    ASSUME NEW S, NEW parts \in Seq(S), NEW id, CalledOnce(callsAmong(parts), id),
           NEW i \in DOMAIN parts, parts[i].type = "call", parts[i].id = id,
           NEW j \in DOMAIN parts, parts[j].type = "call", parts[j].id = id
    PROVE  i = j
<1> DEFINE calls == callsAmong(parts)
           picked == [k \in DOMAIN parts |-> IF parts[k].type = "call" THEN <<parts[k]>> ELSE <<>>]
<1>1. calls = FlattenSeq(picked)
  BY DEF callsAmong, Keep
<1>2. picked \in Seq(Seq(S)) /\ DOMAIN picked = DOMAIN parts
      /\ \A k \in DOMAIN picked : picked[k] = <<>> \/ \E x : picked[k] = <<x>>
  <2>1. DOMAIN parts = 1..Len(parts) /\ Len(parts) \in Nat /\ \A k \in 1..Len(parts) : picked[k] \in Seq(S)
    OBVIOUS
  <2> QED BY <2>1
<1>3. picked[i] = <<parts[i]>> /\ picked[j] = <<parts[j]>>
  OBVIOUS
<1> HIDE DEF calls, picked
<1>4. PICK at : Places(at, picked, calls)
  BY <1>1, <1>2, FlattenPlaces
<1>5. \A x, y : <<x>> # <<>> /\ (<<x>> = <<y>> => x = y)
  OBVIOUS
<1>6. PICK n \in DOMAIN calls : at[n] = i
  BY <1>2, <1>3, <1>4, <1>5 DEF Places
<1>7. PICK k \in DOMAIN calls : at[k] = j
  BY <1>2, <1>3, <1>4, <1>5 DEF Places
<1>8. calls[n] = parts[i] /\ calls[k] = parts[j]
  BY <1>3, <1>4, <1>5, <1>6, <1>7 DEF Places
<1>9. n = k
  BY <1>8 DEF calls, CalledOnce
<1> QED BY <1>6, <1>7, <1>9

(* A name is that of a call, and it is only missing where none is named.   *)
LEMMA GreatestIsMax ==
    ASSUME NEW n \in Nat, NEW S \in SUBSET (1..n), S # {}
    PROVE  Max(S) \in S
<1> DEFINE above == {k \in 0..n : \A m \in S : m <= k}
<1>1. above \subseteq Nat /\ n \in above
  OBVIOUS
<1>2. PICK k \in above : \A m \in above : k <= m
  BY <1>1, LeastNumber
<1>3. k \in S
  <2> SUFFICES ASSUME k \notin S PROVE FALSE
    OBVIOUS
  <2>1. PICK m \in S : TRUE
    OBVIOUS
  <2>2. m \in 1..n /\ m <= k /\ k \in 0..n
    OBVIOUS
  <2>3. \A l \in S : l <= k - 1
    OBVIOUS
  <2>4. k - 1 \in above
    BY <2>2, <2>3
  <2> QED BY <1>2, <2>2, <2>4
<1>4. \A m \in S : k >= m
  OBVIOUS
<1> QED BY <1>3, <1>4 DEF Max

LEMMA NamesAreOfCalls ==
    ASSUME NEW S, NEW calls \in Seq(S), NEW id
    PROVE  /\ nameOf(calls, id) # Nil =>
                 id # Nil /\ \E c \in ToSet(calls) : c.id = id /\ c.name = nameOf(calls, id)
           /\ nameOf(calls, id) = Nil => \A c \in ToSet(calls) : c.id = id /\ id # Nil => c.name = Nil
<1> DEFINE named == { i \in DOMAIN calls : calls[i].id = id /\ calls[i].name # Nil }
<1>1. Len(calls) \in Nat /\ DOMAIN calls = 1..Len(calls) /\ named \in SUBSET (1..Len(calls))
  OBVIOUS
<1>2. named # {} => Max(named) \in named
  <2> HIDE DEF named
  <2> QED BY <1>1, GreatestIsMax
<1>3. nameOf(calls, id) = IF id = Nil \/ named = {} THEN Nil ELSE calls[Max(named)].name
  BY DEF nameOf
<1>4. ASSUME NEW c \in ToSet(calls), c.id = id, c.name # Nil PROVE named # {}
  <2>1. PICK i \in DOMAIN calls : calls[i] = c
    BY DEF ToSet
  <2>2. i \in named
    BY <1>4, <2>1
  <2> QED BY <2>2
<1>5. ASSUME NEW i \in named PROVE calls[i] \in ToSet(calls) /\ calls[i].id = id /\ calls[i].name # Nil
  BY DEF ToSet
<1> HIDE DEF named
<1> QED BY <1>2, <1>3, <1>4, <1>5

-----------------------------------------------------------------------------
(* What a part becomes.                                                    *)
LEMMA ParsedPart ==
    ASSUME NEW part, NEW calls
    PROVE  /\ parsePart(part, calls) = <<>> \/ \E x : parsePart(part, calls) = <<x>>
           /\ part.type = "call" => parsePart(part, calls) # <<>>
           /\ \A x : parsePart(part, calls) = <<x>> =>
                 /\ x.type = "tool-call" => part.type = "call" /\ x.name = part.name
                 /\ x.type = "tool-result" =>
                       /\ part.type = "result"
                       /\ x.name = OrElse(OrElse(part.name, nameOf(calls, part.id)), "unknown")
                 /\ x.type \in {"tool-call", "tool-result"} => x.id = part.id
                 /\ part.type = "call" => x.type = "tool-call"
<1>1. \A x, y : <<x>> # <<>> /\ (<<x>> = <<y>> => x = y)
  OBVIOUS
<1>2. CASE part.type \in {"text", "image"} /\ part.text # <<>>
  <2>1. parsePart(part, calls) = <<textPart(part.text)>>
    BY <1>2 DEF parsePart
  <2> QED BY <1>1, <1>2, <2>1 DEF textPart
<1>3. CASE part.type = "call"
  <2>1. parsePart(part, calls) = <<callPart(part.id, part.name, part.input)>>
    BY <1>3 DEF parsePart
  <2> QED BY <1>1, <1>3, <2>1 DEF callPart
<1>4. CASE part.type = "result"
  <2>1. parsePart(part, calls)
          = <<resultPart(part.id, OrElse(part.name, nameOf(calls, part.id)), part.text)>>
    BY <1>4 DEF parsePart
  <2> QED BY <1>1, <1>4, <2>1 DEF resultPart
<1>5. CASE ~(part.type \in {"text", "image"} /\ part.text # <<>>) /\ part.type \notin {"call", "result"}
  <2>1. parsePart(part, calls) = <<>>
    BY <1>5 DEF parsePart
  <2> QED BY <1>1, <1>5, <2>1
<1> QED BY <1>2, <1>3, <1>4, <1>5

(* parsed is what parseContent makes of content when the names of calls    *)
(* are known: its n-th element, unless a text, comes from the part at[n].  *)
partsOf(content) == IF content.kind = "parts" THEN content.parts ELSE <<>>

knownTo(parts, i, calls) == calls \o callsAmong(SubSeq(parts, 1, i - 1))

Untexted(parsed) == {n \in DOMAIN parsed : parsed[n].type # "text"}

Reads(at, parsed, parts, calls) ==
    /\ IsList(parsed)
    /\ at \in [Untexted(parsed) -> DOMAIN parts]
    /\ \A n \in Untexted(parsed) : parsePart(parts[at[n]], knownTo(parts, at[n], calls)) = <<parsed[n]>>
    /\ \A n, k \in Untexted(parsed) : n < k => at[n] < at[k]
    /\ \A i \in DOMAIN parts : parts[i].type = "call" => \E n \in Untexted(parsed) : at[n] = i

LEMMA PiecesOfOne ==
    ASSUME NEW n \in Nat, NEW s, s = [i \in 1..n |-> s[i]],
           \A i \in 1..n : s[i] = <<>> \/ \E x : s[i] = <<x>>
    PROVE  \E S : s \in Seq(Seq(S)) /\ \E at : Places(at, s, FlattenSeq(s))
<1> DEFINE S == {s[i][1] : i \in 1..n}
<1>1. ASSUME NEW i \in 1..n PROVE s[i] \in Seq(S)
  <2>1. CASE s[i] = <<>>
    <3>1. <<>> \in Seq(S)
      OBVIOUS
    <3> QED BY <2>1, <3>1
  <2>2. CASE s[i] # <<>>
    <3>1. PICK x : s[i] = <<x>>
      BY <2>2
    <3>2. s[i][1] = x /\ s[i][1] \in S
      BY <3>1
    <3> HIDE DEF S
    <3>3. <<x>> \in Seq(S)
      BY <3>2
    <3> QED BY <3>1, <3>3
  <2> QED BY <2>1, <2>2
<1> HIDE DEF S
<1>2. [i \in 1..n |-> s[i]] \in Seq(Seq(S)) /\ DOMAIN [i \in 1..n |-> s[i]] = 1..n
  BY <1>1
<1>3. s \in Seq(Seq(S)) /\ DOMAIN s = 1..n
  BY <1>2
<1>4. \E at : Places(at, s, FlattenSeq(s))
  BY <1>3, FlattenPlaces
<1> QED BY <1>3, <1>4

LEMMA Flattened ==
    ASSUME NEW S, NEW s \in Seq(Seq(S)) PROVE FlattenSeq(s) \in Seq(S)
<1>1. <<>> \in Seq(S)
  OBVIOUS
<1> QED BY <1>1, FlattenAppend

LEMMA Parsed ==
    ASSUME NEW content, IsContent(content), NEW calls
    PROVE  \E at : Reads(at, parseContent(content, calls), partsOf(content), calls)
<1> DEFINE parsed == parseContent(content, calls)
<1>1. CASE content.kind # "parts"
  <2>1. partsOf(content) = <<>> /\ DOMAIN <<>> = {}
    BY <1>1 DEF partsOf
  <2>2. parsed = <<>> \/ parsed = <<textPart(content.text)>>
    BY <1>1 DEF parseContent
  <2>3. Untexted(parsed) = {}
    BY <2>2 DEF Untexted, textPart
  <2>4. IsList(parsed)
    BY <2>2, Lists
  <2>5. [n \in {} |-> 0] \in [{} -> DOMAIN <<>>]
    OBVIOUS
  <2> HIDE DEF parsed
  <2>6. Reads([n \in {} |-> 0], parsed, partsOf(content), calls)
    BY <2>1, <2>3, <2>4, <2>5 DEF Reads
  <2> QED BY <2>6 DEF parsed
<1>2. CASE content.kind = "parts"
  <2> DEFINE parts == content.parts
             piece(i) == parsePart(parts[i], knownTo(parts, i, calls))
             pieces == [i \in DOMAIN parts |-> piece(i)]
  <2>1. partsOf(content) = parts
    BY <1>2 DEF partsOf
  <2>2. parsed = FlattenSeq(pieces)
    BY <1>2 DEF parseContent, knownTo
  <2>3. parts \in Seq(ToSet(parts))
    BY <1>2 DEF IsContent
  <2>4. Len(parts) \in Nat /\ DOMAIN parts = 1..Len(parts)
    BY <2>3
  <2>5. \A i \in DOMAIN parts : pieces[i] = piece(i)
    OBVIOUS
  <2>6. \A i \in DOMAIN parts : piece(i) = <<>> \/ \E x : piece(i) = <<x>>
    BY ParsedPart
  <2> HIDE DEF piece
  <2>7. pieces = [i \in 1..Len(parts) |-> pieces[i]] /\ DOMAIN pieces = DOMAIN parts
    BY <2>4
  <2> HIDE DEF parsed, pieces, parts
  <2>8. PICK S, at : pieces \in Seq(Seq(S)) /\ Places(at, pieces, parsed)
    <3>1. \E S : pieces \in Seq(Seq(S)) /\ \E at : Places(at, pieces, FlattenSeq(pieces))
      BY <2>4, <2>5, <2>6, <2>7, PiecesOfOne
    <3> QED BY <2>2, <3>1
  <2>9. IsList(parsed)
    BY <2>2, <2>8, Flattened DEF IsList
  <2> DEFINE to == [n \in Untexted(parsed) |-> at[n]]
  <2>10. /\ at \in [DOMAIN parsed -> DOMAIN parts]
         /\ \A n \in DOMAIN parsed : piece(at[n]) = <<parsed[n]>>
         /\ \A n, k \in DOMAIN parsed : n < k => at[n] < at[k]
    <3>1. at \in [DOMAIN parsed -> DOMAIN parts]
      BY <2>7, <2>8 DEF Places
    <3>2. \A n \in DOMAIN parsed : pieces[at[n]] = piece(at[n])
      BY <2>5, <3>1
    <3> QED BY <2>5, <2>7, <2>8, <3>1, <3>2 DEF Places
  <2>11. ASSUME NEW i \in DOMAIN parts, parts[i].type = "call"
         PROVE  \E n \in Untexted(parsed) : to[n] = i
    <3>1. piece(i) # <<>>
      BY <2>11, ParsedPart DEF piece
    <3>2. PICK n \in DOMAIN parsed : at[n] = i
      <4>1. pieces[i] # <<>> /\ i \in DOMAIN pieces
        BY <2>5, <2>7, <3>1
      <4> QED BY <2>8, <4>1 DEF Places
    <3>3. parsed[n].type = "tool-call"
      BY <2>10, <2>11, <3>2, ParsedPart DEF piece
    <3>4. n \in Untexted(parsed)
      BY <3>3 DEF Untexted
    <3> QED BY <3>2, <3>4
  <2>12. \A n \in Untexted(parsed) : n \in DOMAIN parsed /\ to[n] = at[n]
    BY DEF Untexted
  <2>13. to \in [Untexted(parsed) -> DOMAIN parts]
    BY <2>10, <2>12
  <2> HIDE DEF to
  <2>14. Reads(to, parsed, parts, calls)
    BY <2>9, <2>10, <2>11, <2>12, <2>13 DEF Reads, piece
  <2> QED BY <2>1, <2>14 DEF parsed
<1> QED BY <1>1, <1>2

-----------------------------------------------------------------------------
(* Where content calls id.                                                 *)
CallsAt(content, id) == {n \in DOMAIN content : content[n].type = "tool-call" /\ content[n].id = id}

(* A call part is read as a call of its name, and no other is.             *)
LEMMA ReadCalls ==
    ASSUME NEW at, NEW parsed, NEW parts, NEW calls, Reads(at, parsed, parts, calls), NEW id
    PROVE  /\ \A n \in CallsAt(parsed, id) :
                 n \in Untexted(parsed) /\ at[n] \in DOMAIN parts /\ parts[at[n]].type = "call"
                 /\ parts[at[n]].id = id /\ parts[at[n]].name = parsed[n].name
           /\ \A i \in DOMAIN parts : parts[i].type = "call" /\ parts[i].id = id =>
                 \E n \in CallsAt(parsed, id) : at[n] = i
<1>1. ASSUME NEW n \in CallsAt(parsed, id)
      PROVE  n \in Untexted(parsed) /\ at[n] \in DOMAIN parts /\ parts[at[n]].type = "call"
             /\ parts[at[n]].id = id /\ parts[at[n]].name = parsed[n].name
  <2>1. n \in Untexted(parsed)
    BY DEF CallsAt, Untexted
  <2>2. at[n] \in DOMAIN parts /\ parsePart(parts[at[n]], knownTo(parts, at[n], calls)) = <<parsed[n]>>
    BY <2>1 DEF Reads
  <2>3. parsed[n].type = "tool-call" /\ parsed[n].id = id
    BY DEF CallsAt
  <2> QED BY <2>1, <2>2, <2>3, ParsedPart
<1>2. ASSUME NEW i \in DOMAIN parts, parts[i].type = "call", parts[i].id = id
      PROVE  \E n \in CallsAt(parsed, id) : at[n] = i
  <2>1. PICK n \in Untexted(parsed) : at[n] = i
    BY <1>2 DEF Reads
  <2>2. parsePart(parts[i], knownTo(parts, i, calls)) = <<parsed[n]>>
    BY <2>1 DEF Reads
  <2>3. parsed[n].type = "tool-call" /\ parsed[n].id = id
    BY <1>2, <2>2, ParsedPart
  <2>4. n \in CallsAt(parsed, id)
    BY <2>3 DEF CallsAt, Untexted
  <2> QED BY <2>1, <2>4
<1> QED BY <1>1, <1>2

LEMMA CallsConcat ==
    ASSUME NEW S, NEW u \in Seq(S), NEW v \in Seq(S), NEW id
    PROVE  /\ u \o v \in Seq(S)
           /\ CallsAt(u \o v, id) = CallsAt(u, id) \union {Len(u) + n : n \in CallsAt(v, id)}
<1>1. /\ u \o v \in Seq(S) /\ Len(u) \in Nat /\ Len(v) \in Nat
      /\ DOMAIN u = 1..Len(u) /\ DOMAIN v = 1..Len(v) /\ DOMAIN (u \o v) = 1..(Len(u) + Len(v))
      /\ \A n \in 1..Len(u) : (u \o v)[n] = u[n]
      /\ \A n \in 1..Len(v) : (u \o v)[Len(u) + n] = v[n]
  OBVIOUS
<1> DEFINE w == u \o v
<1> HIDE DEF w
<1>2. \A n \in CallsAt(w, id) : n \in CallsAt(u, id) \/ n - Len(u) \in CallsAt(v, id)
  <2> SUFFICES ASSUME NEW n \in CallsAt(w, id) PROVE n \in CallsAt(u, id) \/ n - Len(u) \in CallsAt(v, id)
    OBVIOUS
  <2>1. n \in 1..(Len(u) + Len(v)) /\ w[n].type = "tool-call" /\ w[n].id = id
    BY <1>1 DEF CallsAt, w
  <2>2. CASE n <= Len(u)
    <3>1. n \in 1..Len(u)
      BY <1>1, <2>1, <2>2
    <3> QED BY <1>1, <2>1, <3>1 DEF CallsAt, w
  <2>3. CASE ~(n <= Len(u))
    <3>1. n - Len(u) \in 1..Len(v) /\ Len(u) + (n - Len(u)) = n
      BY <1>1, <2>1, <2>3
    <3>2. w[n] = v[n - Len(u)]
      BY <1>1, <3>1 DEF w
    <3> QED BY <1>1, <2>1, <3>1, <3>2 DEF CallsAt
  <2> QED BY <2>2, <2>3
<1>3. \A n \in CallsAt(u, id) : n \in CallsAt(w, id)
  <2> SUFFICES ASSUME NEW n \in CallsAt(u, id) PROVE n \in CallsAt(w, id)
    OBVIOUS
  <2>1. n \in 1..Len(u) /\ n \in 1..(Len(u) + Len(v))
    BY <1>1 DEF CallsAt
  <2> QED BY <1>1, <2>1 DEF CallsAt, w
<1>4. \A n \in CallsAt(v, id) : Len(u) + n \in CallsAt(w, id)
  <2> SUFFICES ASSUME NEW n \in CallsAt(v, id) PROVE Len(u) + n \in CallsAt(w, id)
    OBVIOUS
  <2>1. n \in 1..Len(v) /\ Len(u) + n \in 1..(Len(u) + Len(v))
    BY <1>1 DEF CallsAt
  <2>2. w[Len(u) + n] = v[n]
    BY <1>1, <2>1 DEF w
  <2> QED BY <1>1, <2>1, <2>2 DEF CallsAt, w
<1>5. \A n \in CallsAt(w, id) : n - Len(u) \in CallsAt(v, id) => n \in {Len(u) + k : k \in CallsAt(v, id)}
  <2> SUFFICES ASSUME NEW n \in CallsAt(w, id), n - Len(u) \in CallsAt(v, id)
               PROVE  n = Len(u) + (n - Len(u))
    OBVIOUS
  <2>1. n \in 1..(Len(u) + Len(v))
    BY <1>1 DEF CallsAt, w
  <2> QED BY <1>1, <2>1
<1>6. CallsAt(w, id) = CallsAt(u, id) \union {Len(u) + n : n \in CallsAt(v, id)}
  BY <1>2, <1>3, <1>4, <1>5
<1> QED BY <1>1, <1>6 DEF w

(* What AddCalls adds: each call whose id was not called yet, once.        *)
Adds(extra, parsed, calls) ==
    /\ IsList(extra) /\ AddCalls(parsed, calls) = parsed \o extra
    /\ \A n \in DOMAIN extra : \E c \in ToSet(calls) : extra[n] = Called(c)
    /\ \A id : id # Nil /\ CallsAt(parsed, id) # {} => CallsAt(extra, id) = {}
    /\ \A c \in ToSet(calls) : c.id # Nil /\ CallsAt(parsed, c.id) = {} => \E n : CallsAt(extra, c.id) = {n}

LEMMA AddedCalls ==
    ASSUME NEW S, NEW parsed, NEW calls \in Seq(S)
    PROVE  \E extra : Adds(extra, parsed, calls)
<1> DEFINE calling == { p \in ToSet(parsed) : p.type = "tool-call" }
           Added(i) == ({ p.id : p \in calling } \ {Nil}) \union { calls[j].id : j \in 1..(i - 1) }
           piece(i) == IF calls[i].id \in Added(i) THEN <<>> ELSE <<Called(calls[i])>>
           pieces == [i \in DOMAIN calls |-> piece(i)]
           extra == FlattenSeq(pieces)
<1>1. AddCalls(parsed, calls) = parsed \o extra
  BY DEF AddCalls
<1>2. Len(calls) \in Nat /\ DOMAIN calls = 1..Len(calls)
  OBVIOUS
<1>3. \A i \in DOMAIN calls : pieces[i] = piece(i)
  OBVIOUS
<1> HIDE DEF Added
<1>4. \A i \in DOMAIN calls : piece(i) = <<>> \/ \E x : piece(i) = <<x>>
  OBVIOUS
<1>5. \A i, x : piece(i) = <<x>> => x = Called(calls[i]) /\ calls[i].id \notin Added(i)
  <2>1. \A x, y : <<x>> # <<>> /\ (<<x>> = <<y>> => x = y)
    OBVIOUS
  <2> QED BY <2>1
<1>6. \A i : calls[i].id \notin Added(i) => piece(i) # <<>>
  OBVIOUS
<1> HIDE DEF piece
<1>7. pieces = [i \in 1..Len(calls) |-> pieces[i]] /\ DOMAIN pieces = DOMAIN calls
  BY <1>2
<1> HIDE DEF pieces, extra
<1>8. PICK R, at : pieces \in Seq(Seq(R)) /\ Places(at, pieces, extra)
  <2>1. \E R : pieces \in Seq(Seq(R)) /\ \E at : Places(at, pieces, FlattenSeq(pieces))
    BY <1>2, <1>3, <1>4, <1>7, PiecesOfOne
  <2> QED BY <2>1 DEF extra
<1>9. IsList(extra)
  BY <1>8, Flattened DEF IsList, extra
<1>10. ASSUME NEW n \in DOMAIN extra
       PROVE  at[n] \in DOMAIN calls /\ extra[n] = Called(calls[at[n]]) /\ calls[at[n]].id \notin Added(at[n])
  <2>1. at[n] \in DOMAIN calls
    BY <1>7, <1>8 DEF Places
  <2>2. piece(at[n]) = <<extra[n]>>
    BY <1>3, <1>8, <2>1 DEF Places
  <2> QED BY <1>5, <2>1, <2>2
<1>11. \A i, k \in DOMAIN extra : i < k => at[i] < at[k]
  BY <1>8 DEF Places
<1>12. \A i \in DOMAIN calls : calls[i].id \notin Added(i) => \E n \in DOMAIN extra : at[n] = i
  BY <1>3, <1>6, <1>7, <1>8 DEF Places
<1>13. \A c : Called(c).type = "tool-call" /\ Called(c).id = c.id
  BY DEF Called, callPart
<1>14. \A n \in DOMAIN extra : \E c \in ToSet(calls) : extra[n] = Called(c)
  BY <1>10 DEF ToSet
<1>15. ASSUME NEW id, id # Nil, CallsAt(parsed, id) # {} PROVE CallsAt(extra, id) = {}
  <2>1. PICK p \in calling : p.id = id
    BY <1>15 DEF CallsAt, ToSet
  <2>2. \A i : id \in Added(i)
    BY <1>15, <2>1 DEF Added
  <2> QED BY <1>10, <1>13, <2>2 DEF CallsAt
<1>16. ASSUME NEW c \in ToSet(calls), c.id # Nil, CallsAt(parsed, c.id) = {}
       PROVE  \E n : CallsAt(extra, c.id) = {n}
  <2> DEFINE same == {i \in DOMAIN calls : calls[i].id = c.id}
  <2>1. same # {} /\ same \subseteq Nat
    BY <1>2 DEF ToSet
  <2>2. PICK i \in same : \A j \in same : i <= j
    <3> HIDE DEF same
    <3> QED BY <2>1, LeastNumber
  <2>3. i \in DOMAIN calls /\ calls[i].id = c.id
    OBVIOUS
  <2>4. calls[i].id \notin Added(i)
    <3>1. \A p \in calling : p.id # c.id
      BY <1>16 DEF CallsAt, ToSet
    <3>2. ASSUME NEW j \in 1..(i - 1) PROVE calls[j].id # c.id
      <4>1. j \in DOMAIN calls /\ ~(i <= j)
        BY <1>2, <2>3
      <4> QED BY <2>2, <4>1
    <3> QED BY <2>3, <3>1, <3>2 DEF Added
  <2>5. PICK n \in DOMAIN extra : at[n] = i
    BY <1>12, <2>3, <2>4
  <2>6. n \in CallsAt(extra, c.id)
    BY <1>10, <1>13, <2>3, <2>5 DEF CallsAt
  <2>7. ASSUME NEW k \in CallsAt(extra, c.id) PROVE k = n
    <3>1. k \in DOMAIN extra /\ at[k] \in DOMAIN calls /\ calls[at[k]].id = c.id /\ c.id \notin Added(at[k])
      BY <1>10, <1>13 DEF CallsAt
    <3>2. at[k] \in same /\ i <= at[k]
      BY <2>2, <3>1
    <3>3. ~(i < at[k])
      <4>1. i < at[k] => i \in 1..(at[k] - 1)
        BY <1>2, <2>3, <3>1
      <4>2. i \in 1..(at[k] - 1) => c.id \in Added(at[k])
        BY <2>3 DEF Added
      <4> QED BY <3>1, <4>1, <4>2
    <3>4. at[k] = at[n] /\ at[n] \in Int
      BY <1>2, <2>3, <2>5, <3>1, <3>2, <3>3
    <3>5. k \in Nat /\ n \in Nat
      BY <1>9, <3>1 DEF IsList
    <3> QED BY <1>11, <3>1, <3>4, <3>5
  <2>8. CallsAt(extra, c.id) = {n}
    BY <2>6, <2>7
  <2> QED BY <2>8
<1>17. Adds(extra, parsed, calls)
  <2> HIDE DEF calling
  <2> QED BY <1>1, <1>9, <1>14, <1>15, <1>16 DEF Adds
<1> QED BY <1>17

-----------------------------------------------------------------------------
(* What a message becomes.                                                 *)
IsMessage(m) == IsContent(m.content) /\ m.calls \in Seq(ToSet(m.calls))

LEMMA MessageParts ==
    ASSUME NEW content, IsContent(content)
    PROVE  /\ IsList(partsOf(content)) /\ callsIn(content) = callsAmong(partsOf(content))
           /\ \A type : PartsOf(content, type) = { p \in ToSet(partsOf(content)) : p.type = type }
<1>1. CASE content.kind = "parts"
  BY <1>1 DEF IsContent, IsList, partsOf, callsIn, PartsOf
<1>2. CASE content.kind # "parts"
  <2>1. partsOf(content) = <<>> /\ <<>> \in Seq({}) /\ ToSet(<<>>) = {}
    BY <1>2 DEF partsOf, ToSet
  <2>2. [i \in DOMAIN <<>> |-> IF <<>>[i].type = "call" THEN <<(<<>>[i])>> ELSE <<>>] = <<>>
    OBVIOUS
  <2>3. callsAmong(<<>>) = <<>>
    BY <2>2, NothingJoined DEF callsAmong, Keep
  <2> QED BY <1>2, <2>1, <2>3 DEF IsList, callsIn, PartsOf
<1> QED BY <1>1, <1>2

LEMMA MessageCalls ==
    ASSUME NEW m, IsMessage(m)
    PROVE  /\ IsList(callsOf(m))
           /\ \A c : c \in ToSet(callsOf(m)) <=>
                 c \in ToSet(m.calls) \/ (m.role # "tool" /\ c \in PartsOf(m.content, "call"))
<1>1. PICK S : partsOf(m.content) \in Seq(S)
  BY MessageParts DEF IsMessage, IsList
<1>2. callsIn(m.content) \in Seq(S)
      /\ (\A c : c \in ToSet(callsIn(m.content)) <=> c \in PartsOf(m.content, "call"))
  <2>1. /\ callsIn(m.content) = callsAmong(partsOf(m.content))
        /\ PartsOf(m.content, "call") = { p \in ToSet(partsOf(m.content)) : p.type = "call" }
    BY MessageParts DEF IsMessage
  <2> QED BY <1>1, <2>1, CallsOfParts
<1> DEFINE more == IF m.role = "tool" THEN <<>> ELSE callsIn(m.content)
           U == S \union ToSet(m.calls)
<1>3. m.calls \in Seq(U) /\ callsIn(m.content) \in Seq(U) /\ <<>> \in Seq(U)
  BY <1>2 DEF IsMessage
<1> HIDE DEF U
<1>4. more \in Seq(U)
  BY <1>3
<1>5. ToSet(<<>>) = {}
  BY DEF ToSet
<1>6. \A c : c \in ToSet(more) <=> m.role # "tool" /\ c \in PartsOf(m.content, "call")
  BY <1>2, <1>5
<1>7. callsOf(m) = m.calls \o more
  BY DEF callsOf
<1> HIDE DEF more
<1>8. ToSet(m.calls \o more) = ToSet(m.calls) \union ToSet(more) /\ m.calls \o more \in Seq(U)
  BY <1>3, <1>4, ConcatRange
<1> QED BY <1>6, <1>7, <1>8 DEF IsList

(* No call is where none was added, so that the rest of a message that     *)
(* calls nothing is what it was read as.                                   *)
Becomes(at, parsed, extra, m, calls) ==
    /\ Reads(at, parsed, partsOf(m.content), calls \o m.calls)
    /\ Adds(extra, parsed, m.calls)
    /\ convertMessage(m, calls).content = normalizeContent(parsed \o extra)

LEMMA Converted ==
    ASSUME NEW m, IsMessage(m), m.role # "tool", m.role = "assistant" \/ m.calls = <<>>, NEW calls
    PROVE  \E at, parsed, extra : Becomes(at, parsed, extra, m, calls)
<1> DEFINE parsed == parseContent(m.content, calls \o m.calls)
<1>1. PICK at : Reads(at, parsed, partsOf(m.content), calls \o m.calls)
  BY Parsed DEF IsMessage
<1>2. PICK extra : Adds(extra, parsed, m.calls)
  BY AddedCalls DEF IsMessage
<1>3. convertMessage(m, calls).content
        = normalizeContent(IF m.role = "assistant" THEN AddCalls(parsed, m.calls) ELSE parsed)
  BY DEF convertMessage
<1> HIDE DEF parsed
<1>4. m.calls = <<>> => parsed \o extra = parsed
  <2> SUFFICES ASSUME m.calls = <<>> PROVE parsed \o extra = parsed
    OBVIOUS
  <2>1. ToSet(m.calls) = {}
    BY DEF ToSet
  <2>2. PICK S, T : parsed \in Seq(S) /\ extra \in Seq(T)
    BY <1>1, <1>2 DEF Reads, Adds, IsList
  <2>3. extra = <<>>
    <3>1. DOMAIN extra = {}
      BY <1>2, <2>1 DEF Adds
    <3> QED BY <2>2, <3>1
  <2>4. parsed \o <<>> = parsed
    BY <2>2
  <2> QED BY <2>3, <2>4
<1>5. convertMessage(m, calls).content = normalizeContent(parsed \o extra)
  BY <1>2, <1>3, <1>4 DEF Adds
<1> QED BY <1>1, <1>2, <1>5 DEF Becomes

(* Each call of a message is sent once, by its name, and no other call.    *)
IsCalledOnce(content, c) == \E n : CallsAt(content, c.id) = {n} /\ content[n].name = c.name

LEMMA CallsOnce ==
    ASSUME NEW m, IsMessage(m), m.role # "tool", IsOrderly(m), NEW calls,
           NEW c \in ToSet(callsOf(m)), c.id # Nil
    PROVE  IsCalledOnce(convertMessage(m, calls).content, c)
<1> DEFINE parts == partsOf(m.content)
           id == c.id
<1>1. PICK at, parsed, extra : Becomes(at, parsed, extra, m, calls)
  BY Converted DEF IsOrderly
<1> DEFINE whole == parsed \o extra
<1>2. /\ Reads(at, parsed, parts, calls \o m.calls) /\ Adds(extra, parsed, m.calls)
      /\ convertMessage(m, calls).content = normalizeContent(whole)
  BY <1>1 DEF Becomes
<1>3. PICK U : parsed \in Seq(U) /\ extra \in Seq(U)
  <2>1. PICK S, T : parsed \in Seq(S) /\ extra \in Seq(T)
    BY <1>2 DEF Reads, Adds, IsList
  <2>2. parsed \in Seq(S \union T) /\ extra \in Seq(S \union T)
    BY <2>1
  <2> QED BY <2>2
<1>4. PICK S : parts \in Seq(S) /\ callsIn(m.content) = callsAmong(parts)
  BY MessageParts DEF IsMessage, IsList
<1>5. ASSUME NEW d, d.id = id, d \in ToSet(m.calls) \/ (d.type = "call" /\ d \in ToSet(parts)) PROVE d.name = c.name
  <2>1. ToSet(callsIn(m.content) \o m.calls) = ToSet(callsIn(m.content)) \union ToSet(m.calls)
    <3> DEFINE V == S \union ToSet(m.calls)
    <3>1. callsIn(m.content) \in Seq(S)
      BY <1>4, CallsOfParts
    <3>2. callsIn(m.content) \in Seq(V) /\ m.calls \in Seq(V)
      BY <3>1 DEF IsMessage
    <3> HIDE DEF V
    <3> QED BY <3>2, ConcatRange
  <2>2. d \in ToSet(callsIn(m.content) \o m.calls)
    BY <1>4, <1>5, <2>1, CallsOfParts
  <2>3. c \in ToSet(callsIn(m.content) \o m.calls)
    <3>1. c \in ToSet(m.calls) \/ c \in PartsOf(m.content, "call")
      BY MessageCalls
    <3>2. PartsOf(m.content, "call") = { p \in ToSet(parts) : p.type = "call" }
      BY MessageParts DEF IsMessage
    <3> QED BY <1>4, <2>1, <3>1, <3>2, CallsOfParts
  <2> QED BY <1>5, <2>2, <2>3 DEF IsOrderly
<1>6. ASSUME NEW n, CallsAt(whole, id) = {n}, whole[n].name = c.name
      PROVE  \E k : /\ CallsAt(convertMessage(m, calls).content, id) = {k}
                    /\ convertMessage(m, calls).content[k].name = c.name
  <2>1. whole # <<>>
    <3>1. CallsAt(<<>>, id) = {}
      BY DEF CallsAt
    <3> HIDE DEF whole
    <3> QED BY <1>6, <3>1
  <2>2. convertMessage(m, calls).content = whole
    BY <1>2, <2>1 DEF normalizeContent
  <2> QED BY <1>6, <2>2
<1>7. CallsAt(whole, id) = CallsAt(parsed, id) \union {Len(parsed) + n : n \in CallsAt(extra, id)}
  BY <1>3, CallsConcat
<1>8. ASSUME NEW i \in DOMAIN parts, parts[i].type = "call", parts[i].id = id
      PROVE  \E n : CallsAt(whole, id) = {n} /\ whole[n].name = c.name
  <2>1. PICK n \in CallsAt(parsed, id) : at[n] = i
    BY <1>2, <1>8, ReadCalls
  <2>2. ASSUME NEW k \in CallsAt(parsed, id) PROVE k = n
    <3>1. at[k] \in DOMAIN parts /\ parts[at[k]].type = "call" /\ parts[at[k]].id = id
          /\ k \in Untexted(parsed) /\ n \in Untexted(parsed)
      BY <1>2, <2>1, ReadCalls
    <3>2. CalledOnce(callsAmong(parts), id)
      BY <1>4 DEF IsOrderly, CalledOnce
    <3>3. at[k] = i
      BY <1>4, <1>8, <3>1, <3>2, CallsApart
    <3>4. at[k] \in Int /\ k \in Int /\ n \in Int
      BY <1>3, <1>4, <3>1 DEF Untexted
    <3>5. ~(k < n) /\ ~(n < k)
      BY <1>2, <2>1, <3>1, <3>3, <3>4 DEF Reads
    <3> QED BY <3>4, <3>5
  <2>3. CallsAt(extra, id) = {}
    BY <1>2, <2>1 DEF Adds
  <2>4. CallsAt(whole, id) = {n}
    BY <1>7, <2>1, <2>2, <2>3
  <2>5. n \in DOMAIN parsed /\ whole[n] = parsed[n]
    BY <1>3, <2>1 DEF CallsAt
  <2>6. parts[i].name = parsed[n].name
    BY <1>2, <2>1, ReadCalls
  <2>7. parts[i].name = c.name
    <3>1. parts[i] \in ToSet(parts)
      BY DEF ToSet
    <3> QED BY <1>5, <1>8, <3>1
  <2> QED BY <2>4, <2>5, <2>6, <2>7
<1>9. ASSUME \A i \in DOMAIN parts : ~(parts[i].type = "call" /\ parts[i].id = id)
      PROVE  \E n : CallsAt(whole, id) = {n} /\ whole[n].name = c.name
  <2>1. c \in ToSet(m.calls)
    <3>1. PartsOf(m.content, "call") = { p \in ToSet(parts) : p.type = "call" }
      BY MessageParts DEF IsMessage
    <3>2. c \notin PartsOf(m.content, "call")
      BY <1>9, <3>1 DEF ToSet
    <3> QED BY <3>2, MessageCalls
  <2>2. CallsAt(parsed, id) = {}
    BY <1>2, <1>9, ReadCalls
  <2>3. PICK n : CallsAt(extra, id) = {n}
    BY <1>2, <2>1, <2>2 DEF Adds
  <2>4. CallsAt(whole, id) = {Len(parsed) + n}
    BY <1>7, <2>2, <2>3
  <2>5. n \in DOMAIN extra /\ extra[n].id = id
    BY <2>3 DEF CallsAt
  <2>6. whole[Len(parsed) + n] = extra[n]
    BY <1>3, <2>5
  <2>7. PICK d \in ToSet(m.calls) : extra[n] = Called(d)
    BY <1>2, <2>5 DEF Adds
  <2>8. d.id = id /\ extra[n].name = d.name
    BY <2>5, <2>7 DEF Called, callPart
  <2>9. extra[n].name = c.name
    BY <1>5, <2>8
  <2> QED BY <2>4, <2>6, <2>9
<1> QED BY <1>6, <1>8, <1>9 DEF IsCalledOnce

LEMMA SentOf ==
    ASSUME NEW m, IsMessage(m), m.role = "assistant" \/ m.calls = <<>>, NEW calls,
           NEW p \in ToSet(convertMessage(m, calls).content), p.type = "tool-call"
    PROVE  \E c \in ToSet(callsOf(m)) : c.id = p.id /\ c.name = p.name
<1>1. ASSUME NEW e, p \in ToSet(<<e>>) PROVE p = e
  BY <1>1 DEF ToSet
<1>2. m.role # "tool"
  <2> SUFFICES ASSUME m.role = "tool" PROVE FALSE
    OBVIOUS
  <2>1. \E id, name, text : convertMessage(m, calls).content = <<resultPart(id, name, text)>>
    BY DEF convertMessage
  <2> QED BY <1>1, <2>1 DEF resultPart
<1>3. PICK at, parsed, extra : Becomes(at, parsed, extra, m, calls)
  BY <1>2, Converted
<1> DEFINE parts == partsOf(m.content)
           whole == parsed \o extra
<1>4. /\ Reads(at, parsed, parts, calls \o m.calls) /\ Adds(extra, parsed, m.calls)
      /\ convertMessage(m, calls).content = normalizeContent(whole)
  BY <1>3 DEF Becomes
<1>5. p \in ToSet(whole)
  <2> HIDE DEF whole
  <2> QED BY <1>1, <1>4 DEF normalizeContent, textPart
<1>6. PICK k \in CallsAt(whole, p.id) : whole[k] = p
  BY <1>5 DEF ToSet, CallsAt
<1>7. PICK S, T : parsed \in Seq(S) /\ extra \in Seq(T)
  BY <1>4 DEF Reads, Adds, IsList
<1> DEFINE U == S \union T
<1>8. parsed \in Seq(U) /\ extra \in Seq(U)
  BY <1>7
<1> HIDE DEF U
<1>9. CallsAt(whole, p.id) = CallsAt(parsed, p.id) \union {Len(parsed) + n : n \in CallsAt(extra, p.id)}
  BY <1>8, CallsConcat
<1>10. CASE k \in CallsAt(parsed, p.id)
  <2>1. k \in DOMAIN parsed
    BY <1>10 DEF CallsAt
  <2>2. whole[k] = parsed[k]
    BY <1>8, <2>1
  <2>3. /\ at[k] \in DOMAIN parts /\ parts[at[k]].type = "call" /\ parts[at[k]].id = p.id
        /\ parts[at[k]].name = parsed[k].name
    BY <1>4, <1>10, ReadCalls
  <2>4. parts[at[k]] \in PartsOf(m.content, "call")
    <3>1. PartsOf(m.content, "call") = { q \in ToSet(parts) : q.type = "call" }
      BY MessageParts DEF IsMessage
    <3> QED BY <2>3, <3>1 DEF ToSet
  <2> QED BY <1>2, <1>6, <2>2, <2>3, <2>4, MessageCalls
<1>11. ASSUME NEW n \in CallsAt(extra, p.id), k = Len(parsed) + n
       PROVE  \E c \in ToSet(callsOf(m)) : c.id = p.id /\ c.name = p.name
  <2>1. n \in DOMAIN extra
    BY DEF CallsAt
  <2>2. whole[k] = extra[n]
    BY <1>8, <1>11, <2>1
  <2>3. PICK c \in ToSet(m.calls) : extra[n] = Called(c)
    BY <1>4, <2>1 DEF Adds
  <2> QED BY <1>6, <2>2, <2>3, MessageCalls DEF Called, callPart
<1> QED BY <1>6, <1>9, <1>10, <1>11

(* A result bears the name its part gives it, or that of a call before it, *)
(* and "unknown" only if no call is before it.                             *)
Given(m, id) ==
    { p.name : p \in { q \in IF m.role = "tool" THEN {m} ELSE PartsOf(m.content, "result") : q.id = id } } \ {Nil}

IsNamed(r, content, n, m, calls) ==
    \/ r.name \in Given(m, r.id)
    \/ /\ r.id # Nil /\ r.name # Nil
       /\ \E c \in ToSet(calls) \union ToSet(callsOf(m)) : c.id = r.id /\ c.name = r.name
    \/ /\ r.name = "unknown"
       /\ r.id # Nil => /\ \A c \in ToSet(calls) : c.id = r.id => c.name = Nil
                        /\ \A k \in 1..(n - 1) :
                              content[k].type = "tool-call" /\ content[k].id = r.id => content[k].name = Nil

LEMMA ResultNamed ==
    ASSUME NEW m, IsMessage(m), m.role = "assistant" \/ m.calls = <<>>, NEW calls, IsList(calls),
           NEW n \in DOMAIN convertMessage(m, calls).content,
           convertMessage(m, calls).content[n].type = "tool-result"
    PROVE  IsNamed(convertMessage(m, calls).content[n], convertMessage(m, calls).content, n, m, calls)
<1> DEFINE content == convertMessage(m, calls).content
           r == content[n]
           known == calls \o m.calls
<1>1. PICK S : calls \in Seq(S)
  BY DEF IsList
<1> DEFINE U == S \union ToSet(m.calls)
<1>2. calls \in Seq(U) /\ m.calls \in Seq(U)
  BY <1>1 DEF IsMessage
<1> HIDE DEF U
<1>3. known \in Seq(U) /\ ToSet(known) = ToSet(calls) \union ToSet(m.calls)
  BY <1>2, ConcatRange
<1>4. CASE m.role = "tool"
  <2>1. content = <<resultPart(m.id, OrElse(m.name, nameOf(known, m.id)), contentToString(m.content))>>
    BY <1>4 DEF convertMessage
  <2>2. n = 1 /\ r = resultPart(m.id, OrElse(m.name, nameOf(known, m.id)), contentToString(m.content))
    BY <2>1
  <2>3. r.id = m.id /\ r.name = OrElse(OrElse(m.name, nameOf(known, m.id)), "unknown")
    BY <2>2 DEF resultPart
  <2>4. m.name # Nil => m.name \in Given(m, m.id)
    BY <1>4 DEF Given
  <2> HIDE DEF r, content, known
  <2>5. CASE m.name # Nil
    BY <2>3, <2>4, <2>5 DEF OrElse, IsNamed, r, content
  <2>6. CASE m.name = Nil /\ nameOf(known, m.id) # Nil
    <3>1. r.name = nameOf(known, m.id)
      BY <2>3, <2>6 DEF OrElse
    <3>2. PICK c \in ToSet(known) : m.id # Nil /\ c.id = m.id /\ c.name = r.name
      BY <1>3, <2>6, <3>1, NamesAreOfCalls
    <3>3. c \in ToSet(calls) \union ToSet(callsOf(m))
      BY <1>3, <3>2, MessageCalls
    <3> QED BY <2>3, <2>6, <3>1, <3>2, <3>3 DEF IsNamed, r, content
  <2>7. CASE m.name = Nil /\ nameOf(known, m.id) = Nil
    <3>1. r.name = "unknown"
      BY <2>3, <2>7 DEF OrElse
    <3>2. \A c \in ToSet(calls) : c.id = m.id /\ m.id # Nil => c.name = Nil
      BY <1>3, <2>7, NamesAreOfCalls
    <3>3. 1..(n - 1) = {}
      BY <2>2
    <3> QED BY <2>3, <3>1, <3>2, <3>3 DEF IsNamed, r, content
  <2> QED BY <2>5, <2>6, <2>7
<1>5. CASE m.role # "tool"
  <2>1. PICK at, parsed, extra : Becomes(at, parsed, extra, m, calls)
    BY <1>5, Converted
  <2> DEFINE parts == partsOf(m.content)
             whole == parsed \o extra
             part == parts[at[n]]
             prefix == SubSeq(parts, 1, at[n] - 1)
             before == knownTo(parts, at[n], known)
  <2>2. /\ Reads(at, parsed, parts, known) /\ Adds(extra, parsed, m.calls)
        /\ content = normalizeContent(whole)
    BY <2>1 DEF Becomes
  <2>3. PICK T : parsed \in Seq(T) /\ extra \in Seq(T)
    <3>1. PICK V, W : parsed \in Seq(V) /\ extra \in Seq(W)
      BY <2>2 DEF Reads, Adds, IsList
    <3>2. parsed \in Seq(V \union W) /\ extra \in Seq(V \union W)
      BY <3>1
    <3> QED BY <3>2
  <2>4. content = whole
    <3> SUFFICES ASSUME content # whole PROVE FALSE
      OBVIOUS
    <3>1. content = <<textPart(<<>>)>>
      BY <2>2 DEF normalizeContent
    <3>2. n = 1 /\ content[n] = textPart(<<>>)
      BY <3>1
    <3> HIDE DEF content
    <3> QED BY <3>2 DEF textPart, content
  <2>5. n \in DOMAIN parsed /\ \A k \in 1..n : k \in DOMAIN parsed /\ content[k] = parsed[k]
    <3>1. n \in 1..(Len(parsed) + Len(extra)) /\ Len(parsed) \in Nat /\ Len(extra) \in Nat
          /\ DOMAIN parsed = 1..Len(parsed)
      BY <2>3, <2>4
    <3>2. n <= Len(parsed)
      <4> SUFFICES ASSUME ~(n <= Len(parsed)) PROVE FALSE
        OBVIOUS
      <4>1. n - Len(parsed) \in DOMAIN extra /\ whole[n] = extra[n - Len(parsed)]
        BY <2>3, <3>1
      <4>2. PICK c \in ToSet(m.calls) : extra[n - Len(parsed)] = Called(c)
        BY <2>2, <4>1 DEF Adds
      <4>3. content[n].type = "tool-call"
        BY <2>4, <4>1, <4>2 DEF Called, callPart
      <4> HIDE DEF content
      <4> QED BY <4>3 DEF content
    <3>3. \A k \in 1..n : k \in 1..Len(parsed)
      BY <3>1, <3>2
    <3>4. \A k \in 1..Len(parsed) : whole[k] = parsed[k]
      BY <2>3
    <3>5. n \in 1..n
      BY <3>1
    <3> HIDE DEF whole, content
    <3> QED BY <2>4, <3>1, <3>3, <3>4, <3>5
  <2>6. n \in 1..n /\ r = parsed[n] /\ r.type = "tool-result"
    <3>1. n \in Nat /\ n >= 1
      BY <2>3, <2>5
    <3>2. n \in 1..n
      BY <3>1
    <3> QED BY <2>5, <3>2
  <2> HIDE DEF r, content, whole, known, prefix
  <2>7. n \in Untexted(parsed)
    BY <2>5, <2>6 DEF Untexted
  <2>8. at[n] \in DOMAIN parts /\ parsePart(part, before) = <<r>>
    BY <2>2, <2>6, <2>7 DEF Reads
  <2>9. /\ part.type = "result" /\ part.id = r.id
        /\ r.name = OrElse(OrElse(part.name, nameOf(before, r.id)), "unknown")
    BY <2>6, <2>8, ParsedPart
  <2>10. PICK V : parts \in Seq(V)
    BY MessageParts DEF IsMessage, IsList
  <2>11. /\ at[n] \in Nat /\ prefix \in Seq(V) /\ DOMAIN prefix = 1..(at[n] - 1)
         /\ \A i \in 1..(at[n] - 1) : prefix[i] = parts[i] /\ i \in DOMAIN parts
    <3> DEFINE k == at[n]
    <3>1. k \in 1..Len(parts)
      BY <2>8, <2>10
    <3> HIDE DEF k
    <3>2. /\ SubSeq(parts, 1, k - 1) \in Seq(V) /\ DOMAIN SubSeq(parts, 1, k - 1) = 1..(k - 1)
          /\ \A i \in 1..(k - 1) : SubSeq(parts, 1, k - 1)[i] = parts[i] /\ i \in DOMAIN parts
      BY <2>10, <3>1
    <3> QED BY <3>1, <3>2 DEF prefix, k
  <2>12. /\ callsAmong(prefix) \in Seq(V)
         /\ \A c : c \in ToSet(callsAmong(prefix)) <=> c.type = "call" /\ c \in ToSet(prefix)
    BY <2>11, CallsOfParts
  <2>13. IsList(before) /\ ToSet(before) = ToSet(known) \union ToSet(callsAmong(prefix))
    <3> DEFINE W == U \union V
    <3>1. known \in Seq(W) /\ callsAmong(prefix) \in Seq(W)
      BY <1>3, <2>12 DEF known
    <3> HIDE DEF W
    <3>2. known \o callsAmong(prefix) \in Seq(W)
          /\ ToSet(known \o callsAmong(prefix)) = ToSet(known) \union ToSet(callsAmong(prefix))
      BY <3>1, ConcatRange
    <3> QED BY <3>2 DEF knownTo, IsList, prefix
  <2>14. PICK B : before \in Seq(B)
    BY <2>13 DEF IsList
  <2>15. /\ PartsOf(m.content, "call") = { q \in ToSet(parts) : q.type = "call" }
         /\ PartsOf(m.content, "result") = { q \in ToSet(parts) : q.type = "result" }
    BY MessageParts DEF IsMessage
  <2>16. part \in PartsOf(m.content, "result")
    BY <2>8, <2>9, <2>15 DEF ToSet
  <2> HIDE DEF part, before
  <2>17. CASE part.name # Nil
    <3>1. r.name = part.name
      BY <2>9, <2>17 DEF OrElse
    <3>2. r.name \in Given(m, r.id)
      BY <1>5, <2>9, <2>16, <2>17, <3>1 DEF Given
    <3> QED BY <3>2 DEF IsNamed, r, content
  <2>18. CASE part.name = Nil /\ nameOf(before, r.id) # Nil
    <3>1. r.name = nameOf(before, r.id)
      BY <2>9, <2>18 DEF OrElse
    <3>2. PICK c \in ToSet(before) : r.id # Nil /\ c.id = r.id /\ c.name = r.name
      BY <2>14, <2>18, <3>1, NamesAreOfCalls
    <3>3. \A i : prefix[i] = parts[i] /\ i \in DOMAIN parts => prefix[i] \in ToSet(parts)
      BY DEF ToSet
    <3>4. \A d \in ToSet(prefix) : d \in ToSet(parts)
      BY <2>11, <3>3 DEF ToSet
    <3>5. c \in ToSet(callsAmong(prefix)) => c \in PartsOf(m.content, "call")
      BY <2>12, <2>15, <3>4
    <3>6. c \in ToSet(known) => c \in ToSet(calls) \/ c \in ToSet(m.calls)
      BY <1>3 DEF known
    <3>7. c \in ToSet(calls) \/ c \in ToSet(callsOf(m))
      BY <1>5, <2>13, <3>2, <3>5, <3>6, MessageCalls
    <3>8. r.name # Nil
      BY <2>18, <3>1
    <3> QED BY <3>2, <3>7, <3>8 DEF IsNamed, r, content
  <2>19. CASE part.name = Nil /\ nameOf(before, r.id) = Nil
    <3>1. r.name = "unknown"
      BY <2>9, <2>19 DEF OrElse
    <3>2. \A c \in ToSet(before) : c.id = r.id /\ r.id # Nil => c.name = Nil
      BY <2>14, <2>19, NamesAreOfCalls
    <3>3. \A c \in ToSet(calls) : c \in ToSet(before)
      BY <1>3, <2>13 DEF known
    <3>4. ASSUME NEW k \in 1..(n - 1), content[k].type = "tool-call", content[k].id = r.id, r.id # Nil
          PROVE  content[k].name = Nil
      <4>1. k \in 1..n /\ k < n
        BY <2>3, <2>5
      <4>2. k \in DOMAIN parsed /\ content[k] = parsed[k]
        BY <2>5, <4>1
      <4>3. k \in CallsAt(parsed, r.id)
        BY <3>4, <4>2 DEF CallsAt
      <4>4. /\ k \in Untexted(parsed) /\ at[k] \in DOMAIN parts /\ parts[at[k]].type = "call"
            /\ parts[at[k]].id = r.id /\ parts[at[k]].name = parsed[k].name
        BY <2>2, <4>3, ReadCalls
      <4>5. at[k] < at[n]
        BY <2>2, <2>7, <4>1, <4>4 DEF Reads
      <4>6. at[k] \in 1..(at[n] - 1)
        BY <2>10, <2>11, <4>4, <4>5
      <4>7. parts[at[k]] \in ToSet(prefix)
        BY <2>11, <4>6 DEF ToSet
      <4>8. parts[at[k]] \in ToSet(before)
        BY <2>12, <2>13, <4>4, <4>7
      <4> QED BY <3>2, <3>4, <4>2, <4>4, <4>8
    <3> QED BY <3>1, <3>2, <3>3, <3>4 DEF IsNamed, r, content
  <2> QED BY <2>17, <2>18, <2>19
<1> QED BY <1>4, <1>5

-----------------------------------------------------------------------------
(* The messages that a conversation becomes.                               *)
IsTurn(m) == IsMessage(m) /\ (ClientsFollowTheProtocol /\ m.role # "system" => IsOrderly(m))

LEMMA Speechless ==
    ASSUME NEW role, role # "system", NEW content, IsContent(content), callsIn(content) = <<>>
    PROVE  IsTurn(Message(role, content))
<1>1. <<>> \o <<>> = <<>> /\ ToSet(<<>>) = {} /\ DOMAIN <<>> = {} /\ \A S : <<>> \in Seq(S)
  BY DEF ToSet
<1> QED BY <1>1 DEF IsTurn, IsMessage, IsOrderly, Message

LEMMA SystemIsATurn ==
    ASSUME NEW content, IsContent(content) PROVE IsTurn(Message("system", content))
<1>1. \A S : <<>> \in Seq(S)
  OBVIOUS
<1> QED BY <1>1 DEF IsTurn, IsMessage, Message

LEMMA MembersOfBoth ==
    ASSUME NEW u, IsList(u), NEW v, IsList(v), NEW x \in ToSet(u \o v) PROVE x \in ToSet(u) \/ x \in ToSet(v)
<1>1. PICK S : u \in Seq(S)
  BY DEF IsList
<1>2. PICK T : v \in Seq(T)
  BY DEF IsList
<1> DEFINE U == S \union T
<1>3. u \in Seq(U) /\ v \in Seq(U)
  BY <1>1, <1>2
<1> HIDE DEF U
<1> QED BY <1>3, ConcatRange

Opening ==
    IF client.instructions = Null THEN <<>> ELSE <<Message("system", client.instructions)>>

NoParts == [kind |-> "parts", parts |-> <<>>]

LEMMA NoPartsSayNothing == IsContent(NoParts) /\ callsIn(NoParts) = <<>>
<1>1. <<>> \in Seq(ToSet(<<>>)) /\ ToSet(<<>>) = {}
  BY DEF ToSet
<1>2. [i \in DOMAIN <<>> |-> IF <<>>[i].type = "call" THEN <<(<<>>[i])>> ELSE <<>>] = <<>>
  OBVIOUS
<1>3. callsAmong(<<>>) = <<>>
  BY <1>2, NothingJoined DEF callsAmong, Keep
<1> QED BY <1>1, <1>3 DEF IsContent, callsIn, NoParts

(* What a list of items becomes.                                           *)
LEMMA ItemsBecome ==
    ASSUME client.endpoint = "responses", NEW h \in Seq(Items), h # <<>>
    PROVE  /\ objects(h) \in Seq(Items) /\ ToSet(objects(h)) = ToSet(h) \ {Nil}
           /\ ChatOf(h).messages = Opening \o
                 (IF objects(h) = <<>> THEN <<Message("user", NoParts)>>
                  ELSE [i \in 1..Len(objects(h)) |-> itemMessage(objects(h)[i])])
<1>1. h[1] \in Items
  OBVIOUS
<1>2. objects(h) \in Seq(Items) /\ ToSet(objects(h)) = ToSet(h) \ {Nil}
  BY <1>1, ObjectsGrow
<1>3. responsesInputToMessages(ItemList(h)) =
        IF objects(h) = <<>> THEN <<Message("user", NoParts)>>
        ELSE [i \in 1..Len(objects(h)) |-> itemMessage(objects(h)[i])]
  BY DEF responsesInputToMessages, responseItemsToMessages, ItemList, NoParts
<1>4. ChatOf(h).messages = Opening \o responsesInputToMessages(ItemList(h))
  BY DEF ChatOf, InputOf, responsesRequest, responsesToChatRequest, Opening
<1> QED BY <1>2, <1>3, <1>4

LEMMA InputBecomes ==
    ASSUME client \in Clients, client.endpoint = "input", NEW h \in Seq(Inputs), h # <<>>
    PROVE  /\ Last(h) \in Inputs
           /\ ChatOf(h).messages = Opening \o
                 (IF Last(h) = Null THEN <<>> ELSE <<Message("user", Last(h))>>)
<1>1. Last(h) \in Inputs
  BY DEF Last
<1>2. Last(h) # Null => Last(h).kind \in {"string", "other"}
  BY <1>1, ClientsAssumption
<1>3. responsesInputToMessages(Last(h)) = IF Last(h) = Null THEN <<>> ELSE <<Message("user", Last(h))>>
  BY <1>2 DEF responsesInputToMessages, Null
<1>4. ChatOf(h).messages = Opening \o responsesInputToMessages(Last(h))
  BY DEF ChatOf, InputOf, responsesRequest, responsesToChatRequest, Opening
<1> QED BY <1>1, <1>3, <1>4

LEMMA TurnsOfChat ==
    ASSUME client \in Clients, NEW h \in Seq(TurnsOf(client)), h # <<>>
    PROVE  IsList(ChatOf(h).messages) /\ \A m \in ToSet(ChatOf(h).messages) : IsTurn(m)
<1>1. ASSUME NEW e, NEW x \in ToSet(<<e>>) PROVE x = e
  BY DEF ToSet
<1>2. IsList(Opening) /\ \A m \in ToSet(Opening) : IsTurn(m)
  <2>1. ToSet(<<>>) = {}
    BY DEF ToSet
  <2>2. IsTurn(Message("system", client.instructions))
    BY SystemIsATurn, ClientsAssumption
  <2> QED BY <1>1, <2>1, <2>2, Lists DEF Opening
<1>3. ASSUME NEW rest, IsList(rest), \A m \in ToSet(rest) : IsTurn(m), ChatOf(h).messages = Opening \o rest
      PROVE  IsList(ChatOf(h).messages) /\ \A m \in ToSet(ChatOf(h).messages) : IsTurn(m)
  <2> HIDE DEF Opening
  <2>1. IsList(Opening \o rest)
    BY <1>2, <1>3, ListsJoin
  <2>2. \A m \in ToSet(Opening \o rest) : m \in ToSet(Opening) \/ m \in ToSet(rest)
    BY <1>2, <1>3, MembersOfBoth
  <2> QED BY <1>2, <1>3, <2>1, <2>2
<1>4. CASE client.endpoint = "chat"
  <2>1. h \in Seq(Messages)
    BY <1>4 DEF TurnsOf
  <2>2. ChatOf(h).messages = h
    BY <1>4 DEF ChatOf, chatRequest
  <2>3. \A m \in ToSet(h) : m \in Messages
    BY <2>1 DEF ToSet
  <2>4. \A m \in Messages : IsTurn(m)
    BY ClientsAssumption DEF ClientsFollowTheProtocol, IsTurn, IsMessage
  <2> QED BY <2>1, <2>2, <2>3, <2>4 DEF IsList
<1>5. CASE client.endpoint = "responses"
  <2> DEFINE os == objects(h)
             ms == [i \in 1..Len(os) |-> itemMessage(os[i])]
  <2>1. h \in Seq(Items)
    BY <1>5 DEF TurnsOf
  <2>2. /\ os \in Seq(Items) /\ ToSet(os) = ToSet(h) \ {Nil}
        /\ ChatOf(h).messages = Opening \o (IF os = <<>> THEN <<Message("user", NoParts)>> ELSE ms)
    BY <1>5, <2>1, ItemsBecome
  <2>3. ASSUME NEW item \in Items \ {Nil} PROVE IsTurn(itemMessage(item))
    <3>1. IsContent(itemContent(item))
      BY ClientsAssumption DEF itemContent
    <3>2. ClientsFollowTheProtocol => IsOrderly(itemMessage(item))
      BY DEF ClientsFollowTheProtocol
    <3>3. itemMessage(item).content = itemContent(item) /\ itemMessage(item).calls = <<>>
          /\ \A S : <<>> \in Seq(S)
      BY DEF itemMessage, Message
    <3> QED BY <3>1, <3>2, <3>3 DEF IsTurn, IsMessage
  <2> HIDE DEF os
  <2>4. /\ Len(os) \in Nat /\ DOMAIN os = 1..Len(os) /\ \A i \in 1..Len(os) : os[i] \in Items \ {Nil}
    <3>1. Len(os) \in Nat /\ DOMAIN os = 1..Len(os) /\ \A i \in 1..Len(os) : os[i] \in Items
      BY <2>2
    <3>2. \A i \in 1..Len(os) : os[i] \in ToSet(os)
      BY <3>1 DEF ToSet
    <3> HIDE DEF ms
    <3>3. \A i \in 1..Len(os) : os[i] # Nil
      BY <2>2, <3>2
    <3> QED BY <3>1, <3>3
  <2>5. IsList(ms) /\ \A m \in ToSet(ms) : IsTurn(m)
    <3> DEFINE f(i) == itemMessage(os[i])
               S == {f(i) : i \in 1..Len(os)}
    <3>1. \A i \in 1..Len(os) : IsTurn(f(i))
      BY <2>3, <2>4
    <3> HIDE DEF f
    <3>2. [i \in 1..Len(os) |-> f(i)] \in Seq(S) /\ \A m \in S : IsTurn(m)
      BY <2>4, <3>1
    <3> HIDE DEF S
    <3>3. \A m \in ToSet([i \in 1..Len(os) |-> f(i)]) : m \in S
      BY <3>2 DEF ToSet
    <3> QED BY <3>2, <3>3 DEF IsList, f
  <2>6. IsTurn(Message("user", NoParts))
    BY Speechless, NoPartsSayNothing
  <2> HIDE DEF ms
  <2>7. CASE os = <<>>
    <3> DEFINE rest == <<Message("user", NoParts)>>
    <3>1. IsList(rest) /\ \A m \in ToSet(rest) : IsTurn(m)
      BY <1>1, <2>6, Lists
    <3>2. ChatOf(h).messages = Opening \o rest
      BY <2>2, <2>7
    <3> HIDE DEF rest
    <3> QED BY <1>3, <3>1, <3>2
  <2>8. CASE os # <<>>
    BY <1>3, <2>2, <2>5, <2>8
  <2> QED BY <2>7, <2>8
<1>6. CASE client.endpoint = "input"
  <2> DEFINE rest == IF Last(h) = Null THEN <<>> ELSE <<Message("user", Last(h))>>
  <2>1. h \in Seq(Inputs)
    BY <1>6 DEF TurnsOf
  <2>2. Last(h) \in Inputs /\ ChatOf(h).messages = Opening \o rest
    BY <1>6, <2>1, InputBecomes
  <2>3. Last(h) # Null => IsTurn(Message("user", Last(h)))
    <3>1. Last(h) # Null => Last(h).kind \in {"string", "other"} /\ Last(h).text \in Seq(Words)
      BY <2>2, ClientsAssumption
    <3>2. Last(h) # Null => IsContent(Last(h)) /\ callsIn(Last(h)) = <<>>
      BY <3>1 DEF IsContent, callsIn
    <3> QED BY <3>2, Speechless
  <2>4. IsList(rest) /\ \A m \in ToSet(rest) : IsTurn(m)
    <3>1. ToSet(<<>>) = {}
      BY DEF ToSet
    <3> QED BY <1>1, <2>3, <3>1, Lists
  <2> HIDE DEF rest
  <2> QED BY <1>3, <2>2, <2>4
<1> QED BY <1>4, <1>5, <1>6, ClientsAssumption

(* The turns of a body.                                                    *)
LEMMA BuiltFromTurns ==
    ASSUME RequestInv, ConversationInv, Built
    PROVE  /\ IsList(Turns) /\ body.messages = ConvertMessages(Turns) /\ Turns = ExtractSystem(chat.messages).rest
           /\ \A i \in DOMAIN Turns :
                 /\ IsMessage(Turns[i]) /\ Turns[i].role # "system"
                 /\ ClientsFollowTheProtocol => IsOrderly(Turns[i])
<1>1. Turns = ExtractSystem(chat.messages).rest
  BY DEF Turns, ExtractSystem, IsSystem, Keep
<1>2. body.messages = ConvertMessages(Turns)
  BY <1>1 DEF RequestInv
<1>3. chat = ChatOf(history) /\ history \in Seq(TurnsOf(client)) /\ history # <<>> /\ client \in Clients
  BY DEF ConversationInv, RequestInv
<1>4. IsList(chat.messages) /\ \A m \in ToSet(chat.messages) : IsTurn(m)
  BY <1>3, TurnsOfChat
<1>5. PICK S : chat.messages \in Seq(S)
  BY <1>4 DEF IsList
<1> DEFINE msgs == chat.messages
           P == {i \in DOMAIN msgs : msgs[i].role # "system"}
           picked == [i \in DOMAIN msgs |-> IF i \in P THEN <<msgs[i]>> ELSE <<>>]
<1>6. Turns = FlattenSeq(picked)
  <2>1. picked = [i \in DOMAIN msgs |-> IF msgs[i].role # "system" THEN <<msgs[i]>> ELSE <<>>]
    OBVIOUS
  <2> HIDE DEF picked
  <2> QED BY <2>1 DEF Turns, Keep
<1> HIDE DEF P
<1>7. picked = [i \in DOMAIN msgs |-> IF i \in P THEN <<msgs[i]>> ELSE <<>>]
  OBVIOUS
<1> HIDE DEF picked
<1>8. IsPicked(Turns, S, msgs, P)
  BY <1>5, <1>6, <1>7, Picked
<1>9. Turns \in Seq(S) /\ \A i \in DOMAIN Turns : Turns[i] \in ToSet(Turns)
  BY <1>8 DEF IsPicked, ToSet
<1>10. \A m \in ToSet(Turns) : m \in ToSet(msgs) /\ m.role # "system"
  BY <1>8 DEF IsPicked, P, ToSet
<1> HIDE DEF Turns, msgs
<1> QED BY <1>1, <1>2, <1>4, <1>9, <1>10 DEF IsList, IsTurn, msgs

(* Each call that the client replays is in the body once, in its message.  *)
THEOREM CallsKept == ASSUME ClientsFollowTheProtocol PROVE Spec => []CallsSurvive
<1>1. RequestInv /\ ConversationInv => CallsSurvive
  <2> SUFFICES ASSUME RequestInv, ConversationInv, Built, NEW i \in DOMAIN Turns, Turns[i].role = "assistant",
                      NEW c \in PartsOf(Turns[i].content, "call") \union ToSet(Turns[i].calls), c.id # Nil
               PROVE  \E n \in CallsAt(body.messages[i].content, c.id) :
                         CallsAt(body.messages[i].content, c.id) = {n} /\ body.messages[i].content[n].name = c.name
    BY DEF CallsSurvive, CallsAt
  <2> DEFINE m == Turns[i]
             before == callsBefore(Turns, i)
  <2>1. IsList(Turns) /\ body.messages = ConvertMessages(Turns) /\ IsMessage(m) /\ IsOrderly(m)
    BY BuiltFromTurns
  <2>2. body.messages[i] = convertMessage(m, before)
    BY <2>1, ConvertedTurns DEF IsList
  <2> HIDE DEF m, before
  <2>3. c \in ToSet(callsOf(m))
    BY <2>1, MessageCalls DEF m
  <2>4. m.role # "tool" /\ c.id # Nil
    BY DEF m
  <2>5. IsCalledOnce(convertMessage(m, before).content, c)
    BY <2>1, <2>3, <2>4, CallsOnce
  <2> QED BY <2>2, <2>5 DEF IsCalledOnce
<1> QED BY <1>1, RequestInvariance, ConversationInvariance, PTL

LEMMA CallsOfTurnsBefore ==
    ASSUME NEW msgs, NEW i \in Nat, \A j \in 1..(i - 1) : IsList(callsOf(msgs[j]))
    PROVE  /\ IsList(callsBefore(msgs, i))
           /\ \A c : c \in ToSet(callsBefore(msgs, i)) <=> \E j \in 1..(i - 1) : c \in ToSet(callsOf(msgs[j]))
<1> DEFINE f(j) == callsOf(msgs[j])
           set(j) == ToSet(f(j))
           S == UNION {set(j) : j \in 1..(i - 1)}
           s == [j \in 1..(i - 1) |-> f(j)]
<1>1. ASSUME NEW j \in 1..(i - 1) PROVE f(j) \in Seq(S)
  <2>1. PICK T : f(j) \in Seq(T)
    BY DEF IsList
  <2> HIDE DEF f
  <2>2. f(j) \in Seq(set(j))
    BY <2>1 DEF ToSet
  <2>3. set(j) \subseteq S
    OBVIOUS
  <2> HIDE DEF set, S
  <2> QED BY <2>2, <2>3
<1>2. callsBefore(msgs, i) = FlattenSeq(s)
  BY DEF callsBefore
<1> HIDE DEF f, S
<1>3. s \in Seq(Seq(S)) /\ DOMAIN s = 1..Len(s) /\ Len(s) \in Nat /\ DOMAIN s = 1..(i - 1)
      /\ \A j \in 1..(i - 1) : s[j] = f(j)
  <2> DEFINE n == IF i = 0 THEN 0 ELSE i - 1
  <2>1. n \in Nat /\ 1..n = 1..(i - 1)
    OBVIOUS
  <2> HIDE DEF n
  <2>2. [j \in 1..n |-> f(j)] \in Seq(Seq(S))
    BY <1>1, <2>1
  <2>3. s \in Seq(Seq(S)) /\ DOMAIN s = 1..(i - 1) /\ \A j \in 1..(i - 1) : s[j] = f(j)
    BY <2>1, <2>2
  <2> HIDE DEF s
  <2> QED BY <2>3
<1> HIDE DEF s
<1>4. FlattenSeq(s) \in Seq(S) /\ ToSet(FlattenSeq(s)) = UNION {ToSet(s[j]) : j \in 1..Len(s)}
  BY <1>3, Flattened, FlattenRange
<1>5. \A c : c \in ToSet(FlattenSeq(s)) <=> \E j \in 1..(i - 1) : c \in ToSet(f(j))
  BY <1>3, <1>4
<1> QED BY <1>2, <1>4, <1>5 DEF IsList, f

(* A result finds a call of its id wherever there is one before it.        *)
THEOREM ResultsNamed == ASSUME ClientsFollowTheProtocol PROVE Spec => []ResultsFindTheirCall
<1>1. RequestInv /\ ConversationInv => ResultsFindTheirCall
  <2> SUFFICES ASSUME RequestInv, ConversationInv, Built, NEW i \in DOMAIN body.messages,
                      NEW n \in DOMAIN body.messages[i].content,
                      body.messages[i].content[n].type = "tool-result"
               PROVE  LET r == body.messages[i].content[n]
                      IN  \/ r.name \in Given(Turns[i], r.id) \union NamesOf(r.id, SentBefore(i + 1, 1))
                          \/ r.name = "unknown" /\ NamesOf(r.id, SentBefore(i, n)) = {}
    BY DEF ResultsFindTheirCall, Given
  <2> DEFINE content(j) == body.messages[j].content
             before(j) == callsBefore(Turns, j)
             r == content(i)[n]
  <2>1. IsList(Turns) /\ body.messages = ConvertMessages(Turns)
    BY BuiltFromTurns
  <2>2. \A j \in DOMAIN Turns : IsMessage(Turns[j]) /\ IsOrderly(Turns[j])
    BY BuiltFromTurns
  <2>3. /\ DOMAIN body.messages = DOMAIN Turns
        /\ \A j \in DOMAIN Turns : content(j) = convertMessage(Turns[j], before(j)).content
    BY <2>1, ConvertedTurns DEF IsList
  <2>4. DOMAIN Turns = 1..Len(Turns) /\ Len(Turns) \in Nat
    BY <2>1 DEF IsList
  <2>5. i \in DOMAIN Turns /\ i \in Nat /\ \A j \in 1..i : j \in DOMAIN Turns
    BY <2>3, <2>4
  <2>6. /\ IsList(before(i))
        /\ \A c : c \in ToSet(before(i)) <=> \E j \in 1..(i - 1) : c \in ToSet(callsOf(Turns[j]))
    <3>1. \A j \in 1..(i - 1) : j \in DOMAIN Turns
      BY <2>5
    <3>2. \A j \in 1..(i - 1) : IsList(callsOf(Turns[j]))
      BY <2>2, <3>1, MessageCalls
    <3> QED BY <2>5, <3>2, CallsOfTurnsBefore
  <2> HIDE DEF content, before
  <2>7. ASSUME NEW j \in 1..i, NEW c \in ToSet(callsOf(Turns[j])), c.id # Nil
        PROVE  c.name \in { p.name : p \in { q \in ToSet(content(j)) : q.type = "tool-call" /\ q.id = c.id } }
    <3>1. j \in DOMAIN Turns /\ IsMessage(Turns[j]) /\ IsOrderly(Turns[j])
      BY <2>2, <2>5
    <3>2. Turns[j].role # "tool"
      <4>1. Turns[j].role = "tool" => Turns[j].calls = <<>> /\ ToSet(<<>>) = {}
        BY <3>1 DEF IsOrderly, ToSet
      <4> QED BY <3>1, <4>1, MessageCalls
    <3>3. PICK k : CallsAt(content(j), c.id) = {k} /\ content(j)[k].name = c.name
      <4>1. IsCalledOnce(convertMessage(Turns[j], before(j)).content, c)
        BY <2>7, <3>1, <3>2, CallsOnce
      <4>2. content(j) = convertMessage(Turns[j], before(j)).content
        BY <2>3, <3>1
      <4> QED BY <4>1, <4>2 DEF IsCalledOnce
    <3>4. k \in DOMAIN content(j) /\ content(j)[k].type = "tool-call" /\ content(j)[k].id = c.id
      BY <3>3 DEF CallsAt
    <3>5. content(j)[k] \in ToSet(content(j))
      BY <3>4 DEF ToSet
    <3> QED BY <3>3, <3>4, <3>5
  <2>8. /\ SentBefore(i + 1, 1) = UNION { ToSet(content(j)) : j \in 1..i }
        /\ SentBefore(i, n) = (UNION { ToSet(content(j)) : j \in 1..(i - 1) })
                              \union { content(i)[k] : k \in 1..(n - 1) }
    <3>1. i + 1 - 1 = i /\ 1..(1 - 1) = {}
      BY <2>5
    <3>2. ASSUME NEW l, NEW m
          PROVE  SentBefore(l, m) = (UNION { ToSet(content(j)) : j \in 1..(l - 1) })
                                    \union { content(l)[k] : k \in 1..(m - 1) }
      BY Zenon DEF SentBefore, content
    <3> DEFINE next == i + 1
    <3>3. next - 1 = i
      BY <2>5
    <3> HIDE DEF next
    <3>4. SentBefore(next, 1) = (UNION { ToSet(content(j)) : j \in 1..i })
                                \union { content(next)[k] : k \in {} }
      BY <3>1, <3>2, <3>3
    <3>5. { content(next)[k] : k \in {} } = {}
      OBVIOUS
    <3>6. SentBefore(next, 1) = UNION { ToSet(content(j)) : j \in 1..i }
      BY <3>4, <3>5
    <3> QED BY <3>2, <3>6 DEF next
  <2>9. IsNamed(r, content(i), n, Turns[i], before(i))
    <3>1. n \in DOMAIN content(i) /\ content(i)[n].type = "tool-result"
      BY DEF content
    <3>2. Turns[i].role = "assistant" \/ Turns[i].calls = <<>>
      BY <2>2, <2>5 DEF IsOrderly
    <3> QED BY <2>2, <2>3, <2>5, <2>6, <3>1, <3>2, ResultNamed
  <2> HIDE DEF r
  <2>10. CASE r.name \in Given(Turns[i], r.id)
    BY <2>10 DEF r, content
  <2>11. ASSUME r.id # Nil, r.name # Nil, NEW c \in ToSet(before(i)) \union ToSet(callsOf(Turns[i])),
                c.id = r.id, c.name = r.name
         PROVE  r.name \in NamesOf(r.id, SentBefore(i + 1, 1))
    <3>1. PICK j \in 1..i : c \in ToSet(callsOf(Turns[j]))
      <4>1. i \in 1..i /\ \A j \in 1..(i - 1) : j \in 1..i
        BY <2>4, <2>5
      <4> QED BY <2>6, <4>1
    <3>2. PICK q \in ToSet(content(j)) : q.type = "tool-call" /\ q.id = r.id /\ q.name = r.name
      BY <2>7, <2>11, <3>1
    <3>3. q \in SentBefore(i + 1, 1)
      BY <2>8, <3>2
    <3> QED BY <2>11, <3>2, <3>3 DEF NamesOf
  <2>12. ASSUME r.name = "unknown",
                r.id # Nil => /\ \A c \in ToSet(before(i)) : c.id = r.id => c.name = Nil
                              /\ \A k \in 1..(n - 1) :
                                    content(i)[k].type = "tool-call" /\ content(i)[k].id = r.id
                                    => content(i)[k].name = Nil
         PROVE  NamesOf(r.id, SentBefore(i, n)) = {}
    <3> SUFFICES ASSUME NEW p \in SentBefore(i, n), p.type = "tool-call", p.id = r.id, r.id # Nil
                 PROVE  p.name = Nil
      BY DEF NamesOf
    <3>1. CASE p \in { content(i)[k] : k \in 1..(n - 1) }
      BY <2>12, <3>1
    <3>2. ASSUME NEW j \in 1..(i - 1), p \in ToSet(content(j)) PROVE p.name = Nil
      <4>1. j \in DOMAIN Turns
        BY <2>5
      <4>2. Turns[j].role = "assistant" \/ Turns[j].calls = <<>>
        BY <2>2, <4>1 DEF IsOrderly
      <4>3. PICK c \in ToSet(callsOf(Turns[j])) : c.id = p.id /\ c.name = p.name
        BY <2>2, <2>3, <3>2, <4>1, <4>2, SentOf
      <4>4. c \in ToSet(before(i))
        BY <2>6, <4>3
      <4> QED BY <2>12, <4>3, <4>4
    <3> QED BY <2>8, <3>1, <3>2
  <2>13. \/ r.name \in Given(Turns[i], r.id) \union NamesOf(r.id, SentBefore(i + 1, 1))
         \/ r.name = "unknown" /\ NamesOf(r.id, SentBefore(i, n)) = {}
    BY <2>9, <2>10, <2>11, <2>12 DEF IsNamed
  <2> QED BY <2>13 DEF r, content
<1> QED BY <1>1, RequestInvariance, ConversationInvariance, PTL

-----------------------------------------------------------------------------
(* The texts of parts, of which a call has none.                           *)
Speaks(part) == part.type # "tool-call" => part.text \in Seq(Words)

AllSpeak(parts) == IsList(parts) /\ \A part \in ToSet(parts) : Speaks(part)

TextOf(part) == IF part.type = "tool-call" THEN <<>> ELSE part.text

LEMMA TextsAsPieces ==
    ASSUME NEW S, \A part \in S : Speaks(part), NEW parts \in Seq(S)
    PROVE  /\ [part \in S |-> TextOf(part)] \in [S -> Seq(Words)]
           /\ TextsOf(parts) = FlattenSeq(Pieces([part \in S |-> TextOf(part)], parts))
<1>1. \A part \in S : TextOf(part) \in Seq(Words)
  <2>1. <<>> \in Seq(Words)
    OBVIOUS
  <2> QED BY <2>1 DEF TextOf, Speaks
<1>2. Pieces([part \in S |-> TextOf(part)], parts) = [k \in DOMAIN parts |-> TextOf(parts[k])]
  BY DEF Pieces
<1> QED BY <1>1, <1>2 DEF TextsOf, TextOf

LEMMA SpeakersOf ==
    ASSUME NEW parts, AllSpeak(parts)
    PROVE  parts \in Seq(ToSet(parts)) /\ \A part \in ToSet(parts) : Speaks(part)
<1>1. PICK S : parts \in Seq(S)
  BY DEF AllSpeak, IsList
<1> QED BY <1>1 DEF AllSpeak, ToSet

LEMMA TextsJoin ==
    ASSUME NEW u, AllSpeak(u), NEW v, AllSpeak(v)
    PROVE  TextsOf(u \o v) = TextsOf(u) \o TextsOf(v) /\ TextsOf(u) \in Seq(Words)
<1> DEFINE S == ToSet(u) \union ToSet(v)
           piece == [part \in S |-> TextOf(part)]
<1>1. u \in Seq(S) /\ v \in Seq(S) /\ \A part \in S : Speaks(part)
  <2>1. u \in Seq(ToSet(u)) /\ v \in Seq(ToSet(v)) /\ \A part \in S : Speaks(part)
    BY SpeakersOf
  <2> QED BY <2>1
<1> HIDE DEF S
<1>2. u \o v \in Seq(S)
  BY <1>1
<1>3. piece \in [S -> Seq(Words)]
      /\ \A s \in Seq(S) : TextsOf(s) = FlattenSeq(Pieces(piece, s))
  BY <1>1, TextsAsPieces
<1> HIDE DEF piece
<1>4. Distributes(piece, u, v)
  BY <1>1, <1>3, PiecesJoin
<1>5. FlattenSeq(Pieces(piece, u)) \in Seq(Words)
  BY <1>1, <1>3, PiecesTyped
<1> QED BY <1>1, <1>2, <1>3, <1>4, <1>5 DEF Distributes

LEMMA TextsOfFew ==
    /\ TextsOf(<<>>) = <<>> /\ AllSpeak(<<>>)
    /\ \A part : Speaks(part) => TextsOf(<<part>>) = TextOf(part) /\ AllSpeak(<<part>>)
<1>1. TextsOf(<<>>) = <<>> /\ AllSpeak(<<>>)
  <2>1. ToSet(<<>>) = {} /\ <<>> \in Seq({})
    BY DEF ToSet
  <2>2. [k \in DOMAIN <<>> |-> TextOf(<<>>[k])] = <<>>
    OBVIOUS
  <2>3. TextsOf(<<>>) = FlattenSeq([k \in DOMAIN <<>> |-> TextOf(<<>>[k])])
    BY DEF TextsOf, TextOf
  <2> QED BY <2>1, <2>2, <2>3, NothingJoined DEF AllSpeak, IsList
<1>2. ASSUME NEW part, Speaks(part) PROVE TextsOf(<<part>>) = TextOf(part) /\ AllSpeak(<<part>>)
  <2> DEFINE S == {part}
             piece == [p \in S |-> TextOf(p)]
  <2>1. part \in S /\ <<part>> \in Seq(S) /\ ToSet(<<part>>) = S /\ \A p \in S : Speaks(p)
    BY <1>2 DEF ToSet
  <2>2. piece[part] = TextOf(part)
    OBVIOUS
  <2> HIDE DEF S
  <2>3. piece \in [S -> Seq(Words)] /\ TextsOf(<<part>>) = FlattenSeq(Pieces(piece, <<part>>))
    BY <2>1, TextsAsPieces
  <2> HIDE DEF piece
  <2>4. FlattenSeq(Pieces(piece, <<part>>)) = piece[part]
    BY <2>1, <2>3, PieceOfOne
  <2> QED BY <2>1, <2>2, <2>3, <2>4 DEF AllSpeak, IsList
<1> QED BY <1>1, <1>2

(* A part says upstream what it says to upstream's user.                   *)
LEMMA PartSays ==
    ASSUME NEW part, part.type \in {"text", "image", "call", "result", "unknown"}, part.text \in Seq(Words), NEW calls
    PROVE  /\ AllSpeak(parsePart(part, calls))
           /\ TextsOf(parsePart(part, calls)) = IF part.type \in {"unknown", "call"} THEN <<>> ELSE part.text
<1>1. CASE part.type \in {"text", "image"} /\ part.text # <<>>
  <2>1. parsePart(part, calls) = <<textPart(part.text)>>
    BY <1>1 DEF parsePart
  <2>2. Speaks(textPart(part.text)) /\ TextOf(textPart(part.text)) = part.text
    BY DEF Speaks, TextOf, textPart
  <2> QED BY <1>1, <2>1, <2>2, TextsOfFew
<1>2. CASE part.type = "call"
  <2>1. parsePart(part, calls) = <<callPart(part.id, part.name, part.input)>>
    BY <1>2 DEF parsePart
  <2>2. /\ Speaks(callPart(part.id, part.name, part.input))
        /\ TextOf(callPart(part.id, part.name, part.input)) = <<>>
    BY DEF Speaks, TextOf, callPart
  <2> QED BY <1>2, <2>1, <2>2, TextsOfFew
<1>3. CASE part.type = "result"
  <2> DEFINE name == OrElse(part.name, nameOf(calls, part.id))
  <2>1. parsePart(part, calls) = <<resultPart(part.id, name, part.text)>>
    BY <1>3 DEF parsePart
  <2>2. /\ Speaks(resultPart(part.id, name, part.text))
        /\ TextOf(resultPart(part.id, name, part.text)) = part.text
    BY DEF Speaks, TextOf, resultPart
  <2> QED BY <1>3, <2>1, <2>2, TextsOfFew
<1>4. CASE part.type = "unknown" \/ (part.type \in {"text", "image"} /\ part.text = <<>>)
  <2>1. parsePart(part, calls) = <<>>
    BY <1>4 DEF parsePart
  <2> QED BY <1>4, <2>1, TextsOfFew
<1> QED BY <1>1, <1>2, <1>3, <1>4

(* What content says is words.                                             *)
SaidPart(role, part) ==
    IF role \in {"system", "tool"} \/ part.type \notin {"unknown", "call"} THEN part.text ELSE <<>>

LEMMA SaidTyped ==
    ASSUME NEW role, NEW content, IsContent(content)
    PROVE  /\ SaidIn(role, content) \in Seq(Words)
           /\ role \in {"system", "tool"} => SaidIn(role, content) = contentToString(content)
<1>1. CASE content.kind # "parts"
  BY <1>1 DEF IsContent, SaidIn, contentToString
<1>2. CASE content.kind = "parts"
  <2> DEFINE parts == content.parts
             said(k) == SaidPart(role, parts[k])
             pieces == [k \in DOMAIN parts |-> said(k)]
  <2>1. SaidIn(role, content) = FlattenSeq(pieces)
    BY <1>2 DEF SaidIn, SaidPart
  <2>2. parts \in Seq(ToSet(parts)) /\ \A p \in ToSet(parts) : p.text \in Seq(Words)
    BY <1>2 DEF IsContent
  <2>3. Len(parts) \in Nat /\ DOMAIN parts = 1..Len(parts)
    BY <2>2
  <2>4. \A k \in 1..Len(parts) : said(k) \in Seq(Words)
    <3>1. <<>> \in Seq(Words)
      OBVIOUS
    <3>2. \A k \in 1..Len(parts) : parts[k] \in ToSet(parts)
      BY <2>3 DEF ToSet
    <3> QED BY <2>2, <3>1, <3>2 DEF SaidPart
  <2>5. role \in {"system", "tool"} => SaidIn(role, content) = contentToString(content)
    <3> SUFFICES ASSUME role \in {"system", "tool"} PROVE FlattenSeq(pieces) = contentToString(content)
      BY <2>1
    <3>1. pieces = [k \in 1..Len(parts) |-> parts[k].text]
      BY <2>3 DEF SaidPart
    <3>2. contentToString(content) = FlattenSeq([k \in 1..Len(parts) |-> parts[k].text])
      BY <1>2 DEF contentToString
    <3> QED BY <3>1, <3>2
  <2> HIDE DEF said
  <2>6. [k \in 1..Len(parts) |-> said(k)] \in Seq(Seq(Words))
    BY <2>3, <2>4
  <2>7. pieces \in Seq(Seq(Words))
    BY <2>3, <2>6
  <2> HIDE DEF pieces
  <2> QED BY <2>1, <2>5, <2>7, Flattened
<1> QED BY <1>1, <1>2

LEMMA ContentSays ==
    ASSUME NEW role, role \notin {"system", "tool"}, NEW content, IsContent(content), NEW calls
    PROVE  AllSpeak(parseContent(content, calls)) /\ TextsOf(parseContent(content, calls)) = SaidIn(role, content)
<1>1. CASE content.kind # "parts"
  <2>1. content.text \in Seq(Words) /\ SaidIn(role, content) = content.text
    BY <1>1 DEF IsContent, SaidIn
  <2>2. Speaks(textPart(content.text)) /\ TextOf(textPart(content.text)) = content.text
    BY <2>1 DEF Speaks, TextOf, textPart
  <2>3. parseContent(content, calls) = IF content.text # <<>> THEN <<textPart(content.text)>> ELSE <<>>
    BY <1>1 DEF parseContent
  <2> QED BY <2>1, <2>2, <2>3, TextsOfFew
<1>2. CASE content.kind = "parts"
  <2> DEFINE parts == content.parts
             read(k) == parsePart(parts[k], knownTo(parts, k, calls))
             pieces == [k \in DOMAIN parts |-> read(k)]
             parsed == parseContent(content, calls)
             said(k) == SaidPart(role, parts[k])
  <2>1. parsed = FlattenSeq(pieces) /\ SaidIn(role, content) = FlattenSeq([k \in DOMAIN parts |-> said(k)])
    <3>1. parsed = FlattenSeq(pieces)
      BY <1>2 DEF parseContent, knownTo
    <3>2. SaidIn(role, content) = FlattenSeq([k \in DOMAIN parts |-> said(k)])
      BY <1>2 DEF SaidIn, SaidPart
    <3> QED BY <3>1, <3>2
  <2>2. parts \in Seq(ToSet(parts)) /\ \A p \in ToSet(parts) :
            p.type \in {"text", "image", "call", "result", "unknown"} /\ p.text \in Seq(Words)
    BY <1>2 DEF IsContent
  <2>3. Len(parts) \in Nat /\ DOMAIN parts = 1..Len(parts) /\ \A k \in 1..Len(parts) : parts[k] \in ToSet(parts)
    BY <2>2 DEF ToSet
  <2>4. \A k \in 1..Len(parts) : AllSpeak(read(k)) /\ TextsOf(read(k)) = said(k)
    BY <2>2, <2>3, PartSays DEF SaidPart
  <2> HIDE DEF parsed, read, said
  <2> DEFINE S == UNION {ToSet(read(k)) : k \in 1..Len(parts)}
             piece == [part \in S |-> TextOf(part)]
  <2>5. \A part \in S : Speaks(part)
    BY <2>4 DEF AllSpeak
  <2>6. \A k \in 1..Len(parts) : read(k) \in Seq(S)
    <3> SUFFICES ASSUME NEW k \in 1..Len(parts) PROVE read(k) \in Seq(S)
      OBVIOUS
    <3>1. read(k) \in Seq(ToSet(read(k)))
      BY <2>4, SpeakersOf
    <3>2. ToSet(read(k)) \subseteq S
      OBVIOUS
    <3> HIDE DEF S
    <3> QED BY <3>1, <3>2
  <2> HIDE DEF S
  <2>7. pieces \in Seq(Seq(S)) /\ DOMAIN pieces = 1..Len(parts) /\ \A k \in 1..Len(parts) : pieces[k] = read(k)
    <3>1. [k \in 1..Len(parts) |-> read(k)] \in Seq(Seq(S))
      BY <2>3, <2>6
    <3> QED BY <2>3, <3>1
  <2> HIDE DEF pieces
  <2>8. piece \in [S -> Seq(Words)] /\ \A s \in Seq(S) : TextsOf(s) = FlattenSeq(Pieces(piece, s))
    <3>1. ASSUME NEW s \in Seq(S) PROVE piece \in [S -> Seq(Words)] /\ TextsOf(s) = FlattenSeq(Pieces(piece, s))
      BY <2>5, TextsAsPieces
    <3>2. <<>> \in Seq(S)
      OBVIOUS
    <3> HIDE DEF piece
    <3> QED BY <3>1, <3>2
  <2> HIDE DEF piece
  <2>9. /\ FlattenSeq(Pieces(piece, FlattenSeq(pieces)))
             = FlattenSeq([k \in DOMAIN pieces |-> FlattenSeq(Pieces(piece, pieces[k]))])
        /\ FlattenSeq(pieces) \in Seq(S)
    BY <2>7, <2>8, PiecesFlatten
  <2>10. \A k \in 1..Len(parts) : FlattenSeq(Pieces(piece, pieces[k])) = said(k)
    BY <2>4, <2>6, <2>7, <2>8
  <2>11. [k \in DOMAIN pieces |-> FlattenSeq(Pieces(piece, pieces[k]))] = [k \in DOMAIN parts |-> said(k)]
    BY <2>3, <2>7, <2>10
  <2>12. TextsOf(parsed) = SaidIn(role, content)
    BY <2>1, <2>8, <2>9, <2>11
  <2>13. AllSpeak(parsed)
    BY <2>1, <2>5, <2>9 DEF AllSpeak, IsList, ToSet
  <2> QED BY <2>12, <2>13 DEF parsed
<1> QED BY <1>1, <1>2

(* A message becomes one of the same texts.                                *)
LEMMA MessageSays ==
    ASSUME NEW m, IsMessage(m), m.role # "system", NEW calls
    PROVE  /\ AllSpeak(convertMessage(m, calls).content)
           /\ TextsOf(convertMessage(m, calls).content) = SaidIn(m.role, m.content)
<1>1. ASSUME NEW parts, AllSpeak(parts)
      PROVE  AllSpeak(normalizeContent(parts)) /\ TextsOf(normalizeContent(parts)) = TextsOf(parts)
  <2>1. Speaks(textPart(<<>>)) /\ TextOf(textPart(<<>>)) = <<>>
    BY DEF Speaks, TextOf, textPart
  <2>2. TextsOf(<<textPart(<<>>)>>) = <<>> /\ AllSpeak(<<textPart(<<>>)>>)
    BY <2>1, TextsOfFew
  <2> QED BY <1>1, <2>2, TextsOfFew DEF normalizeContent
<1> DEFINE parsed == parseContent(m.content, calls \o m.calls)
<1>2. CASE m.role = "tool"
  <2> DEFINE name == OrElse(m.name, nameOf(calls \o m.calls, m.id))
             text == contentToString(m.content)
  <2>1. convertMessage(m, calls).content = <<resultPart(m.id, name, text)>>
    BY <1>2 DEF convertMessage
  <2>2. text = SaidIn(m.role, m.content) /\ text \in Seq(Words)
    BY <1>2, SaidTyped DEF IsMessage
  <2> HIDE DEF text, name
  <2>3. Speaks(resultPart(m.id, name, text)) /\ TextOf(resultPart(m.id, name, text)) = text
    BY <2>2 DEF Speaks, TextOf, resultPart
  <2> QED BY <2>1, <2>2, <2>3, TextsOfFew
<1>3. m.role # "tool" => AllSpeak(parsed) /\ TextsOf(parsed) = SaidIn(m.role, m.content)
  BY ContentSays DEF IsMessage
<1> HIDE DEF parsed
<1>4. CASE m.role = "assistant"
  <2>1. PICK extra : Adds(extra, parsed, m.calls)
    BY AddedCalls DEF IsMessage
  <2>2. \A n \in DOMAIN extra : extra[n].type = "tool-call"
    BY <2>1 DEF Adds, Called, callPart
  <2>3. AllSpeak(extra)
    BY <2>1, <2>2 DEF Adds, AllSpeak, Speaks, ToSet
  <2>4. TextsOf(extra) = <<>>
    <3> DEFINE texts == [k \in DOMAIN extra |-> TextOf(extra[k])]
    <3>1. TextsOf(extra) = FlattenSeq(texts)
      BY DEF TextsOf, TextOf
    <3>2. PICK S : extra \in Seq(S)
      BY <2>1 DEF Adds, IsList
    <3>3. Len(extra) \in Nat /\ DOMAIN extra = 1..Len(extra)
      BY <3>2
    <3>4. \A k \in DOMAIN extra : TextOf(extra[k]) = <<>>
      BY <2>2 DEF TextOf
    <3>5. texts = [k \in 1..Len(extra) |-> <<>>]
      BY <3>3, <3>4
    <3>6. texts \in Seq(Seq({})) /\ \A k \in DOMAIN texts : texts[k] = <<>>
      <4>1. <<>> \in Seq({})
        OBVIOUS
      <4>2. [k \in 1..Len(extra) |-> <<>>] \in Seq(Seq({}))
        BY <3>3, <4>1
      <4> QED BY <3>5, <4>2
    <3> HIDE DEF texts
    <3> QED BY <3>1, <3>6, FlattenNothing
  <2>5. AllSpeak(parsed) /\ TextsOf(parsed) = SaidIn(m.role, m.content)
    BY <1>3, <1>4
  <2>6. TextsOf(parsed \o extra) = TextsOf(parsed)
    <3>1. TextsOf(parsed \o extra) = TextsOf(parsed) \o <<>> /\ TextsOf(parsed) \in Seq(Words)
      BY <2>3, <2>4, <2>5, TextsJoin
    <3> QED BY <3>1
  <2>7. AllSpeak(parsed \o extra)
    <3>1. IsList(parsed) /\ IsList(extra)
      BY <2>3, <2>5 DEF AllSpeak
    <3>2. IsList(parsed \o extra) /\ \A p \in ToSet(parsed \o extra) : p \in ToSet(parsed) \/ p \in ToSet(extra)
      BY <3>1, ListsJoin, MembersOfBoth
    <3> QED BY <2>3, <2>5, <3>2 DEF AllSpeak
  <2>8. convertMessage(m, calls).content = normalizeContent(parsed \o extra)
    BY <1>4, <2>1 DEF convertMessage, Adds, parsed
  <2> QED BY <1>1, <2>5, <2>6, <2>7, <2>8
<1>5. CASE m.role \notin {"tool", "assistant"}
  <2>1. convertMessage(m, calls).content = normalizeContent(parsed)
    BY <1>5 DEF convertMessage, parsed
  <2> QED BY <1>1, <1>3, <1>5, <2>1
<1> QED BY <1>2, <1>4, <1>5

-----------------------------------------------------------------------------
(* The words of a text that may have newlines between them.                *)
Tokens == Words \union {"\n"}

WordsIn(text) == Keep(text, LAMBDA t : t # "\n")

LEMMA WordsAsPieces ==
    ASSUME NEW piece, piece = [t \in Tokens |-> IF t # "\n" THEN <<t>> ELSE <<>>], NEW text \in Seq(Tokens)
    PROVE  piece \in [Tokens -> Seq(Words)] /\ WordsIn(text) = FlattenSeq(Pieces(piece, text))
<1>1. piece \in [Tokens -> Seq(Words)]
  <2>1. \A t \in Tokens : t # "\n" => <<t>> \in Seq(Words)
    BY DEF Tokens
  <2>2. <<>> \in Seq(Words)
    OBVIOUS
  <2> QED BY <2>1, <2>2
<1>2. Pieces(piece, text) = [i \in DOMAIN text |-> IF text[i] # "\n" THEN <<text[i]>> ELSE <<>>]
  BY DEF Pieces
<1> QED BY <1>1, <1>2 DEF WordsIn, Keep

LEMMA WordsOfWords == ASSUME NEW text \in Seq(Words) PROVE WordsIn(text) = text
<1>1. \A i \in DOMAIN text : text[i] # "\n"
  BY ClientsAssumption
<1>2. [i \in DOMAIN text |-> IF text[i] # "\n" THEN <<text[i]>> ELSE <<>>] = [i \in DOMAIN text |-> <<text[i]>>]
  BY <1>1
<1>3. WordsIn(text) = FlattenSeq([i \in DOMAIN text |-> <<text[i]>>])
  BY <1>2 DEF WordsIn, Keep
<1> QED BY <1>3, FlattenSingles

LEMMA WordsOfLine == ASSUME NEW text \in Seq(Words) PROVE WordsIn(<<"\n">> \o text) = text
<1> DEFINE piece == [t \in Tokens |-> IF t # "\n" THEN <<t>> ELSE <<>>]
           line == <<"\n">>
<1>1. line \in Seq(Tokens) /\ text \in Seq(Tokens) /\ line \o text \in Seq(Tokens)
  BY DEF Tokens
<1>2. "\n" \in Tokens /\ piece["\n"] = <<>>
  BY DEF Tokens
<1>3. piece \in [Tokens -> Seq(Words)] /\ \A s \in Seq(Tokens) : WordsIn(s) = FlattenSeq(Pieces(piece, s))
  <2>1. ASSUME NEW s \in Seq(Tokens)
        PROVE  piece \in [Tokens -> Seq(Words)] /\ WordsIn(s) = FlattenSeq(Pieces(piece, s))
    BY WordsAsPieces
  <2> HIDE DEF piece
  <2> QED BY <1>1, <2>1
<1> HIDE DEF piece
<1>4. FlattenSeq(Pieces(piece, line)) = <<>>
  BY <1>2, <1>3, PieceOfOne
<1>5. Distributes(piece, line, text)
  BY <1>1, <1>3, PiecesJoin
<1>6. WordsIn(line \o text) = <<>> \o WordsIn(text)
  <2> HIDE DEF line
  <2> QED BY <1>1, <1>3, <1>4, <1>5 DEF Distributes
<1> QED BY <1>6, WordsOfWords

-----------------------------------------------------------------------------
(* What the system says and what the others say in messages.               *)
AreMessages(ms) == IsList(ms) /\ \A m \in ToSet(ms) : IsMessage(m)

SaidOf(m) == SaidIn(m.role, m.content)

SystemSaid(ms) == FlattenSeq([k \in DOMAIN ms |-> IF IsSystem(ms[k]) THEN SaidOf(ms[k]) ELSE <<>>])

OthersSaid(ms) == FlattenSeq([k \in DOMAIN ms |-> IF IsSystem(ms[k]) THEN <<>> ELSE SaidOf(ms[k])])

LEMMA MessagesOf ==
    ASSUME NEW ms, AreMessages(ms)
    PROVE  /\ ms \in Seq(ToSet(ms)) /\ DOMAIN ms = 1..Len(ms) /\ Len(ms) \in Nat
           /\ \A k \in 1..Len(ms) : IsMessage(ms[k]) /\ SaidOf(ms[k]) \in Seq(Words)
<1>1. PICK S : ms \in Seq(S)
  BY DEF AreMessages, IsList
<1>2. /\ ms \in Seq(ToSet(ms)) /\ DOMAIN ms = 1..Len(ms) /\ Len(ms) \in Nat
      /\ \A k \in 1..Len(ms) : ms[k] \in ToSet(ms)
  BY <1>1 DEF ToSet
<1>3. \A m : IsMessage(m) => SaidOf(m) \in Seq(Words)
  BY SaidTyped DEF IsMessage, SaidOf
<1> QED BY <1>2, <1>3 DEF AreMessages

(* The lines of messages have the words of their contents.                 *)
LEMMA LinesSay ==
    ASSUME NEW ms, AreMessages(ms)
    PROVE  /\ linesOf(ms) \in Seq(Tokens)
           /\ WordsIn(linesOf(ms)) = FlattenSeq([k \in DOMAIN ms |-> contentToString(ms[k].content)])
<1> DEFINE line(k) == systemLine(ms, k)
           text(k) == contentToString(ms[k].content)
           lines == [k \in DOMAIN ms |-> line(k)]
           piece == [t \in Tokens |-> IF t # "\n" THEN <<t>> ELSE <<>>]
           words(s) == FlattenSeq(Pieces(piece, s))
<1>1. DOMAIN ms = 1..Len(ms) /\ Len(ms) \in Nat /\ \A k \in 1..Len(ms) : IsMessage(ms[k])
  BY MessagesOf
<1>2. ASSUME NEW k \in 1..Len(ms) PROVE line(k) \in Seq(Tokens) /\ WordsIn(line(k)) = text(k)
  <2>1. text(k) \in Seq(Words)
    <3>1. SaidIn("tool", ms[k].content) \in Seq(Words) /\ SaidIn("tool", ms[k].content) = text(k)
      BY <1>1, SaidTyped DEF IsMessage
    <3> QED BY <3>1
  <2>2. line(k) \in {<<>> \o text(k), <<"\n">> \o text(k)}
    BY DEF systemLine
  <2> HIDE DEF line, text
  <2>3. <<>> \o text(k) = text(k) /\ text(k) \in Seq(Tokens) /\ <<"\n">> \o text(k) \in Seq(Tokens)
    BY <2>1 DEF Tokens
  <2>4. WordsIn(text(k)) = text(k) /\ WordsIn(<<"\n">> \o text(k)) = text(k)
    BY <2>1, WordsOfWords, WordsOfLine
  <2> QED BY <2>2, <2>3, <2>4
<1>3. linesOf(ms) = FlattenSeq(lines)
  BY DEF linesOf
<1> HIDE DEF line
<1>4. lines \in Seq(Seq(Tokens)) /\ DOMAIN lines = 1..Len(ms) /\ \A k \in 1..Len(ms) : lines[k] = line(k)
  <2>1. [k \in 1..Len(ms) |-> line(k)] \in Seq(Seq(Tokens))
    BY <1>1, <1>2
  <2> QED BY <1>1, <2>1
<1> HIDE DEF lines
<1>5. piece \in [Tokens -> Seq(Words)] /\ \A s \in Seq(Tokens) : WordsIn(s) = words(s)
  <2>1. ASSUME NEW s \in Seq(Tokens)
        PROVE  piece \in [Tokens -> Seq(Words)] /\ WordsIn(s) = FlattenSeq(Pieces(piece, s))
    BY WordsAsPieces
  <2>2. <<>> \in Seq(Tokens)
    OBVIOUS
  <2> HIDE DEF piece
  <2> QED BY <2>1, <2>2
<1> HIDE DEF piece
<1>6. words(FlattenSeq(lines)) = FlattenSeq([k \in DOMAIN lines |-> words(lines[k])]) /\ FlattenSeq(lines) \in Seq(Tokens)
  BY <1>4, <1>5, PiecesFlatten
<1> HIDE DEF words, text
<1>7. \A k \in 1..Len(ms) : words(lines[k]) = text(k)
  BY <1>2, <1>4, <1>5
<1>8. [k \in DOMAIN lines |-> words(lines[k])] = [k \in DOMAIN ms |-> text(k)]
  BY <1>1, <1>4, <1>7
<1>9. linesOf(ms) \in Seq(Tokens) /\ WordsIn(linesOf(ms)) = FlattenSeq([k \in DOMAIN ms |-> text(k)])
  BY <1>3, <1>5, <1>6, <1>8
<1> QED BY <1>9 DEF text

(* The text of the system has the words that it says.                      *)
LEMMA SystemArrives ==
    ASSUME NEW ms, AreMessages(ms)
    PROVE  systemText(ms) \in Seq(Tokens) /\ WordsIn(systemText(ms)) = SystemSaid(ms)
<1> DEFINE P == {m \in ToSet(ms) : IsSystem(m)}
           piece == [m \in P |-> contentToString(m.content)]
           kept == Keep(ms, IsSystem)
<1>1. /\ ms \in Seq(ToSet(ms)) /\ DOMAIN ms = 1..Len(ms) /\ Len(ms) \in Nat
      /\ \A k \in 1..Len(ms) : ms[k] \in ToSet(ms) /\ (ms[k] \in P <=> IsSystem(ms[k]))
  BY MessagesOf DEF ToSet
<1>2. \A m \in P : contentToString(m.content) = SaidOf(m) /\ contentToString(m.content) \in Seq(Words)
  BY SaidTyped DEF AreMessages, IsMessage, SaidOf, IsSystem
<1>3. piece \in [P -> Seq(Words)] /\ \A m \in P : piece[m] = SaidOf(m) /\ piece[m] = contentToString(m.content)
  BY <1>2
<1>4. P \subseteq ToSet(ms)
  OBVIOUS
<1> HIDE DEF P, piece
<1>5. KeptPieces(piece, ms, P)
  BY <1>1, <1>3, PiecesOfKept
<1>6. [k \in DOMAIN ms |-> IF ms[k] \in P THEN <<ms[k]>> ELSE <<>>]
        = [k \in DOMAIN ms |-> IF IsSystem(ms[k]) THEN <<ms[k]>> ELSE <<>>]
  BY <1>1
<1>7. kept = FlattenSeq([k \in DOMAIN ms |-> IF ms[k] \in P THEN <<ms[k]>> ELSE <<>>])
  BY <1>6 DEF Keep
<1>8. [k \in DOMAIN ms |-> IF ms[k] \in P THEN piece[ms[k]] ELSE <<>>]
        = [k \in DOMAIN ms |-> IF IsSystem(ms[k]) THEN SaidOf(ms[k]) ELSE <<>>]
  BY <1>1, <1>3
<1>9. kept \in Seq(P) /\ FlattenSeq(Pieces(piece, kept)) = SystemSaid(ms)
  BY <1>5, <1>7, <1>8 DEF KeptPieces, SystemSaid
<1> HIDE DEF kept
<1>10. AreMessages(kept)
  <2>1. \A m \in ToSet(kept) : m \in P
    BY <1>9 DEF ToSet
  <2> QED BY <1>4, <1>9, <2>1 DEF AreMessages, IsList
<1>11. Pieces(piece, kept) = [k \in DOMAIN kept |-> contentToString(kept[k].content)]
  <2>1. \A k \in DOMAIN kept : kept[k] \in P
    BY <1>9
  <2> QED BY <1>3, <2>1 DEF Pieces
<1>12. linesOf(kept) \in Seq(Tokens) /\ WordsIn(linesOf(kept)) = FlattenSeq(Pieces(piece, kept))
  BY <1>10, <1>11, LinesSay
<1>13. systemText(ms) = linesOf(kept)
  BY DEF systemText, kept
<1> QED BY <1>9, <1>12, <1>13

(* The texts of the messages of a body are what the others say.            *)
TextsSent(msgs) == FlattenSeq([i \in DOMAIN msgs |-> TextsOf(msgs[i].content)])

LEMMA OthersArrive ==
    ASSUME NEW ms, AreMessages(ms)
    PROVE  /\ IsList(ExtractSystem(ms).rest)
           /\ TextsSent(ConvertMessages(ExtractSystem(ms).rest)) = OthersSaid(ms)
<1> DEFINE P == {m \in ToSet(ms) : ~IsSystem(m)}
           piece == [m \in P |-> SaidOf(m)]
           kept == ExtractSystem(ms).rest
           sent == ConvertMessages(kept)
<1>1. /\ ms \in Seq(ToSet(ms)) /\ DOMAIN ms = 1..Len(ms) /\ Len(ms) \in Nat
      /\ \A k \in 1..Len(ms) : ms[k] \in ToSet(ms) /\ (ms[k] \in P <=> ~IsSystem(ms[k]))
  BY MessagesOf DEF ToSet
<1>2. \A m \in P : IsMessage(m) /\ SaidOf(m) \in Seq(Words) /\ m.role # "system"
  BY SaidTyped DEF AreMessages, IsMessage, SaidOf, IsSystem
<1>3. piece \in [P -> Seq(Words)] /\ \A m \in P : piece[m] = SaidOf(m)
  BY <1>2
<1> HIDE DEF P, piece
<1>4. KeptPieces(piece, ms, P)
  BY <1>1, <1>3, PiecesOfKept
<1>5. kept = FlattenSeq([k \in DOMAIN ms |-> IF ms[k] \in P THEN <<ms[k]>> ELSE <<>>])
  <2>1. [k \in DOMAIN ms |-> IF ms[k] \in P THEN <<ms[k]>> ELSE <<>>]
          = [k \in DOMAIN ms |-> IF ~IsSystem(ms[k]) THEN <<ms[k]>> ELSE <<>>]
    BY <1>1
  <2>2. kept = FlattenSeq([k \in DOMAIN ms |-> IF ~IsSystem(ms[k]) THEN <<ms[k]>> ELSE <<>>])
    BY DEF ExtractSystem, Keep
  <2> QED BY <2>1, <2>2
<1>6. [k \in DOMAIN ms |-> IF ms[k] \in P THEN piece[ms[k]] ELSE <<>>]
        = [k \in DOMAIN ms |-> IF IsSystem(ms[k]) THEN <<>> ELSE SaidOf(ms[k])]
  BY <1>1, <1>3
<1>7. kept \in Seq(P) /\ FlattenSeq(Pieces(piece, kept)) = OthersSaid(ms)
  BY <1>4, <1>5, <1>6 DEF KeptPieces, OthersSaid
<1> HIDE DEF kept
<1>8. DOMAIN sent = DOMAIN kept /\ \A i \in DOMAIN kept : sent[i] = convertMessage(kept[i], callsBefore(kept, i))
  BY <1>7, ConvertedTurns
<1> HIDE DEF sent
<1>9. \A i \in DOMAIN kept : TextsOf(sent[i].content) = piece[kept[i]]
  <2> SUFFICES ASSUME NEW i \in DOMAIN kept PROVE TextsOf(sent[i].content) = piece[kept[i]]
    OBVIOUS
  <2>1. kept[i] \in P
    BY <1>7
  <2>2. sent[i].content = convertMessage(kept[i], callsBefore(kept, i)).content
    BY <1>8
  <2>3. TextsOf(convertMessage(kept[i], callsBefore(kept, i)).content) = SaidIn(kept[i].role, kept[i].content)
    BY <1>2, <2>1, MessageSays
  <2> QED BY <1>3, <2>1, <2>2, <2>3 DEF SaidOf
<1>10. [i \in DOMAIN sent |-> TextsOf(sent[i].content)] = Pieces(piece, kept)
  BY <1>8, <1>9 DEF Pieces
<1>11. TextsSent(sent) = OthersSaid(ms)
  BY <1>7, <1>10 DEF TextsSent
<1> QED BY <1>7, <1>11 DEF IsList, kept, sent

(* What is said in messages one after the other.                           *)
LEMMA SaidAsPieces ==
    ASSUME NEW S, \A m \in S : IsMessage(m), NEW ms \in Seq(S),
           NEW system, system = [m \in S |-> IF IsSystem(m) THEN SaidOf(m) ELSE <<>>],
           NEW others, others = [m \in S |-> IF IsSystem(m) THEN <<>> ELSE SaidOf(m)]
    PROVE  /\ system \in [S -> Seq(Words)] /\ others \in [S -> Seq(Words)]
           /\ SystemSaid(ms) = FlattenSeq(Pieces(system, ms))
           /\ OthersSaid(ms) = FlattenSeq(Pieces(others, ms))
<1>1. \A m \in S : SaidOf(m) \in Seq(Words)
  BY SaidTyped DEF IsMessage, SaidOf
<1>2. <<>> \in Seq(Words)
  OBVIOUS
<1>3. system \in [S -> Seq(Words)] /\ others \in [S -> Seq(Words)]
  BY <1>1, <1>2
<1>4. \A k \in DOMAIN ms : ms[k] \in S
  OBVIOUS
<1>5. Pieces(system, ms) = [k \in DOMAIN ms |-> IF IsSystem(ms[k]) THEN SaidOf(ms[k]) ELSE <<>>]
  BY <1>4 DEF Pieces
<1>6. Pieces(others, ms) = [k \in DOMAIN ms |-> IF IsSystem(ms[k]) THEN <<>> ELSE SaidOf(ms[k])]
  BY <1>4 DEF Pieces
<1> QED BY <1>3, <1>5, <1>6 DEF SystemSaid, OthersSaid

LEMMA SaidJoined ==
    ASSUME NEW u, AreMessages(u), NEW v, AreMessages(v)
    PROVE  /\ SystemSaid(u \o v) = SystemSaid(u) \o SystemSaid(v) /\ SystemSaid(u) \in Seq(Words)
           /\ OthersSaid(u \o v) = OthersSaid(u) \o OthersSaid(v) /\ OthersSaid(u) \in Seq(Words)
<1> DEFINE S == ToSet(u) \union ToSet(v)
           system == [m \in S |-> IF IsSystem(m) THEN SaidOf(m) ELSE <<>>]
           others == [m \in S |-> IF IsSystem(m) THEN <<>> ELSE SaidOf(m)]
<1>1. u \in Seq(S) /\ v \in Seq(S) /\ \A m \in S : IsMessage(m)
  <2>1. u \in Seq(ToSet(u)) /\ v \in Seq(ToSet(v)) /\ \A m \in S : IsMessage(m)
    BY MessagesOf DEF AreMessages
  <2> QED BY <2>1
<1> HIDE DEF S
<1>2. u \o v \in Seq(S)
  BY <1>1
<1>3. ASSUME NEW ms \in Seq(S)
      PROVE  /\ system \in [S -> Seq(Words)] /\ others \in [S -> Seq(Words)]
             /\ SystemSaid(ms) = FlattenSeq(Pieces(system, ms))
             /\ OthersSaid(ms) = FlattenSeq(Pieces(others, ms))
  BY <1>1, SaidAsPieces
<1> HIDE DEF system, others
<1>4. Distributes(system, u, v) /\ FlattenSeq(Pieces(system, u)) \in Seq(Words)
  BY <1>1, <1>3, PiecesJoin, PiecesTyped
<1>5. Distributes(others, u, v) /\ FlattenSeq(Pieces(others, u)) \in Seq(Words)
  BY <1>1, <1>3, PiecesJoin, PiecesTyped
<1> QED BY <1>1, <1>2, <1>3, <1>4, <1>5 DEF Distributes

LEMMA SaidByFew ==
    /\ SystemSaid(<<>>) = <<>> /\ OthersSaid(<<>>) = <<>> /\ AreMessages(<<>>)
    /\ \A m : IsMessage(m) => /\ AreMessages(<<m>>)
                              /\ SystemSaid(<<m>>) = IF IsSystem(m) THEN SaidOf(m) ELSE <<>>
                              /\ OthersSaid(<<m>>) = IF IsSystem(m) THEN <<>> ELSE SaidOf(m)
<1>1. SystemSaid(<<>>) = <<>> /\ OthersSaid(<<>>) = <<>> /\ AreMessages(<<>>)
  <2>1. ToSet(<<>>) = {}
    BY DEF ToSet
  <2>2. [k \in DOMAIN <<>> |-> IF IsSystem(<<>>[k]) THEN SaidOf(<<>>[k]) ELSE <<>>] = <<>>
    OBVIOUS
  <2>3. [k \in DOMAIN <<>> |-> IF IsSystem(<<>>[k]) THEN <<>> ELSE SaidOf(<<>>[k])] = <<>>
    OBVIOUS
  <2> QED BY <2>1, <2>2, <2>3, NothingJoined, Lists DEF SystemSaid, OthersSaid, AreMessages
<1>2. ASSUME NEW m, IsMessage(m)
      PROVE  /\ AreMessages(<<m>>)
             /\ SystemSaid(<<m>>) = IF IsSystem(m) THEN SaidOf(m) ELSE <<>>
             /\ OthersSaid(<<m>>) = IF IsSystem(m) THEN <<>> ELSE SaidOf(m)
  <2> DEFINE S == {m}
             system == [x \in S |-> IF IsSystem(x) THEN SaidOf(x) ELSE <<>>]
             others == [x \in S |-> IF IsSystem(x) THEN <<>> ELSE SaidOf(x)]
  <2>1. m \in S /\ <<m>> \in Seq(S) /\ ToSet(<<m>>) = S /\ \A x \in S : IsMessage(x)
    BY <1>2 DEF ToSet
  <2>2. system[m] = (IF IsSystem(m) THEN SaidOf(m) ELSE <<>>) /\ others[m] = (IF IsSystem(m) THEN <<>> ELSE SaidOf(m))
    OBVIOUS
  <2> HIDE DEF S
  <2>3. /\ system \in [S -> Seq(Words)] /\ others \in [S -> Seq(Words)]
        /\ SystemSaid(<<m>>) = FlattenSeq(Pieces(system, <<m>>))
        /\ OthersSaid(<<m>>) = FlattenSeq(Pieces(others, <<m>>))
    BY <2>1, SaidAsPieces
  <2> HIDE DEF system, others
  <2>4. /\ FlattenSeq(Pieces(system, <<m>>)) = system[m]
        /\ FlattenSeq(Pieces(others, <<m>>)) = others[m]
    <3>1. ASSUME NEW piece \in [S -> Seq(Words)] PROVE FlattenSeq(Pieces(piece, <<m>>)) = piece[m]
      BY <2>1, PieceOfOne
    <3> QED BY <2>3, <3>1
  <2>5. AreMessages(<<m>>)
    BY <2>1, Lists DEF AreMessages
  <2> QED BY <2>2, <2>3, <2>4, <2>5
<1> QED BY <1>1, <1>2

-----------------------------------------------------------------------------
(* What the client says is what its chat request says.                     *)
LEMMA NothingSays == \A role : SaidIn(role, Null) = <<>> /\ SaidIn(role, NoParts) = <<>>
<1>1. ASSUME NEW role PROVE SaidIn(role, NoParts) = <<>>
  <2>1. [k \in DOMAIN <<>> |-> SaidPart(role, <<>>[k])] = <<>>
    OBVIOUS
  <2>2. SaidIn(role, NoParts) = FlattenSeq([k \in DOMAIN <<>> |-> SaidPart(role, <<>>[k])])
    BY DEF SaidIn, NoParts, SaidPart
  <2> QED BY <2>1, <2>2, NothingJoined
<1>2. \A role : SaidIn(role, Null) = <<>>
  BY DEF SaidIn, Null
<1> QED BY <1>1, <1>2

LEMMA Spoken ==
    ASSUME NEW role, NEW content, IsContent(content)
    PROVE  IsMessage(Message(role, content)) /\ SaidOf(Message(role, content)) = SaidIn(role, content)
<1>1. \A S : <<>> \in Seq(S)
  OBVIOUS
<1> QED BY <1>1 DEF IsMessage, Message, SaidOf

LEMMA OpeningSays ==
    ASSUME client \in Clients, NEW rest, AreMessages(rest)
    PROVE  /\ SystemSaid(Opening \o rest) = SaidIn("system", client.instructions) \o SystemSaid(rest)
           /\ OthersSaid(Opening \o rest) = OthersSaid(rest)
<1> DEFINE m == Message("system", client.instructions)
<1>1. IsMessage(m) /\ SaidOf(m) = SaidIn("system", client.instructions) /\ IsSystem(m)
  <2>1. IsContent(client.instructions) /\ m.role = "system"
    BY ClientsAssumption DEF Message
  <2> QED BY <2>1, Spoken DEF IsSystem
<1>2. Opening = IF client.instructions = Null THEN <<>> ELSE <<m>>
  BY DEF Opening
<1> HIDE DEF m
<1>3. /\ AreMessages(Opening) /\ OthersSaid(Opening) = <<>>
      /\ SystemSaid(Opening) = SaidIn("system", client.instructions)
  BY <1>1, <1>2, SaidByFew, NothingSays
<1>4. OthersSaid(rest) \in Seq(Words)
  BY SaidJoined
<1>5. <<>> \o OthersSaid(rest) = OthersSaid(rest)
  BY <1>4
<1>6. /\ SystemSaid(Opening \o rest) = SystemSaid(Opening) \o SystemSaid(rest)
      /\ OthersSaid(Opening \o rest) = OthersSaid(Opening) \o OthersSaid(rest)
  BY <1>3, SaidJoined
<1> QED BY <1>3, <1>5, <1>6, Zenon

(* An item says what its message says.                                     *)
LEMMA ItemSays ==
    ASSUME client.endpoint = "responses", NEW item \in Items \ {Nil}
    PROVE  /\ IsMessage(itemMessage(item)) /\ SaidOf(itemMessage(item)) = HeardBy(item)
           /\ FromSystem(item) <=> IsSystem(itemMessage(item))
<1> DEFINE role == OrElse(item.role, "user")
           read == [ role    |-> item.role,
                     content |-> item.content,
                     text    |-> IF item.content = Null THEN item.text ELSE Null,
                     input   |-> IF item.content = Null /\ item.text = Null THEN item.input ELSE Null,
                     aside   |-> <<>> ]
<1>1. /\ IsContent(item.content) /\ IsContent(item.text) /\ IsContent(item.input)
      /\ IsContent(itemContent(item))
  BY ClientsAssumption DEF itemContent
<1>2. IsMessage(itemMessage(item)) /\ SaidOf(itemMessage(item)) = SaidIn(role, itemContent(item))
  BY <1>1, Spoken DEF itemMessage
<1>3. HeardBy(item) = SaidIn(role, read.content) \o SaidIn(role, read.text) \o SaidIn(role, read.input) \o <<>>
  <2>1. ReadOf(item) = read /\ read.role = item.role /\ read.aside = <<>>
    BY DEF ReadOf
  <2> HIDE DEF read
  <2> QED BY <2>1 DEF HeardBy, SaidBy
<1>4. \A text \in Seq(Words) : text \o <<>> = text /\ <<>> \o text = text
  OBVIOUS
<1> HIDE DEF role
<1>5. /\ SaidIn(role, item.content) \in Seq(Words) /\ SaidIn(role, item.text) \in Seq(Words)
      /\ SaidIn(role, item.input) \in Seq(Words)
  BY <1>1, SaidTyped
<1>6. SaidIn(role, Null) = <<>>
  BY NothingSays
<1>7. HeardBy(item) = SaidIn(role, itemContent(item))
  <2>1. CASE item.content # Null
    BY <1>3, <1>4, <1>5, <1>6, <2>1 DEF itemContent
  <2>2. CASE item.content = Null /\ item.text # Null
    BY <1>3, <1>4, <1>5, <1>6, <2>2 DEF itemContent
  <2>3. CASE item.content = Null /\ item.text = Null
    BY <1>3, <1>4, <1>5, <1>6, <2>3 DEF itemContent
  <2> QED BY <2>1, <2>2, <2>3
<1>8. FromSystem(item) <=> IsSystem(itemMessage(item))
  BY ClientsAssumption DEF FromSystem, IsSystem, itemMessage, Message, OrElse
<1> QED BY <1>2, <1>7, <1>8

(* What the turns of a list say, the system's or the others'.              *)
SystemTurns(turns) == FlattenSeq([k \in DOMAIN turns |-> IF FromSystem(turns[k]) THEN HeardBy(turns[k]) ELSE <<>>])

OtherTurns(turns) == FlattenSeq([k \in DOMAIN turns |-> IF FromSystem(turns[k]) THEN <<>> ELSE HeardBy(turns[k])])

LEMMA MessagesSay ==
    ASSUME client.endpoint = "chat", NEW h \in Seq(Messages)
    PROVE  AreMessages(h) /\ SystemTurns(h) = SystemSaid(h) /\ OtherTurns(h) = OthersSaid(h)
<1>1. \A k \in DOMAIN h : FromSystem(h[k]) <=> IsSystem(h[k])
  BY ClientsAssumption DEF FromSystem, IsSystem
<1>2. \A m \in Messages : HeardBy(m) = SaidOf(m)
  <2> SUFFICES ASSUME NEW m \in Messages PROVE HeardBy(m) = SaidOf(m)
    OBVIOUS
  <2>1. SaidIn(m.role, m.content) \in Seq(Words)
    BY ClientsAssumption, SaidTyped
  <2>2. HeardBy(m) = SaidIn(m.role, m.content) \o <<>>
    BY DEF HeardBy, SaidBy, ReadOf
  <2> QED BY <2>1, <2>2 DEF SaidOf
<1>3. AreMessages(h)
  <2>1. \A m \in Messages : IsMessage(m)
    BY ClientsAssumption DEF IsMessage
  <2>2. \A m \in ToSet(h) : m \in Messages
    BY DEF ToSet
  <2> QED BY <2>1, <2>2 DEF AreMessages, IsList
<1>4. [k \in DOMAIN h |-> IF FromSystem(h[k]) THEN HeardBy(h[k]) ELSE <<>>]
        = [k \in DOMAIN h |-> IF IsSystem(h[k]) THEN SaidOf(h[k]) ELSE <<>>]
  BY <1>1, <1>2
<1>5. [k \in DOMAIN h |-> IF FromSystem(h[k]) THEN <<>> ELSE HeardBy(h[k])]
        = [k \in DOMAIN h |-> IF IsSystem(h[k]) THEN <<>> ELSE SaidOf(h[k])]
  BY <1>1, <1>2
<1> QED BY <1>3, <1>4, <1>5 DEF SystemTurns, OtherTurns, SystemSaid, OthersSaid

LEMMA ItemsSay ==
    ASSUME client.endpoint = "responses", NEW h \in Seq(Items),
           NEW rest, rest = IF objects(h) = <<>> THEN <<Message("user", NoParts)>>
                            ELSE [i \in 1..Len(objects(h)) |-> itemMessage(objects(h)[i])]
    PROVE  AreMessages(rest) /\ SystemTurns(h) = SystemSaid(rest) /\ OtherTurns(h) = OthersSaid(rest)
<1> DEFINE P == Items \ {Nil}
           os == objects(h)
           system == [item \in P |-> IF FromSystem(item) THEN HeardBy(item) ELSE <<>>]
           others == [item \in P |-> IF FromSystem(item) THEN <<>> ELSE HeardBy(item)]
<1>1. \A item \in P : /\ IsMessage(itemMessage(item)) /\ SaidOf(itemMessage(item)) = HeardBy(item)
                      /\ FromSystem(item) <=> IsSystem(itemMessage(item))
  BY ItemSays
<1>2. \A item \in P : HeardBy(item) \in Seq(Words)
  BY <1>1, SaidTyped DEF IsMessage, SaidOf
<1>3. /\ system \in [P -> Seq(Words)] /\ others \in [P -> Seq(Words)]
      /\ \A item \in P : /\ system[item] = IF FromSystem(item) THEN HeardBy(item) ELSE <<>>
                         /\ others[item] = IF FromSystem(item) THEN <<>> ELSE HeardBy(item)
  <2>1. <<>> \in Seq(Words)
    OBVIOUS
  <2> QED BY <1>2, <2>1
<1>4. \A k \in DOMAIN h : h[k] \in P <=> h[k] # Nil
  OBVIOUS
<1>5. ~FromSystem(Nil) /\ HeardBy(Nil) = <<>>
  BY DEF FromSystem, HeardBy
<1> HIDE DEF P, system, others
<1>6. KeptPieces(system, h, P) /\ KeptPieces(others, h, P)
  BY <1>3, PiecesOfKept
<1>7. os = FlattenSeq([k \in DOMAIN h |-> IF h[k] \in P THEN <<h[k]>> ELSE <<>>])
  <2>1. [k \in DOMAIN h |-> IF h[k] \in P THEN <<h[k]>> ELSE <<>>]
          = [k \in DOMAIN h |-> IF h[k] # Nil THEN <<h[k]>> ELSE <<>>]
    BY <1>4
  <2> QED BY <2>1 DEF objects, Keep
<1>8. [k \in DOMAIN h |-> IF h[k] \in P THEN system[h[k]] ELSE <<>>]
        = [k \in DOMAIN h |-> IF FromSystem(h[k]) THEN HeardBy(h[k]) ELSE <<>>]
  BY <1>3, <1>4, <1>5
<1>9. [k \in DOMAIN h |-> IF h[k] \in P THEN others[h[k]] ELSE <<>>]
        = [k \in DOMAIN h |-> IF FromSystem(h[k]) THEN <<>> ELSE HeardBy(h[k])]
  BY <1>3, <1>4, <1>5
<1>10. /\ os \in Seq(P) /\ SystemTurns(h) = FlattenSeq(Pieces(system, os))
       /\ OtherTurns(h) = FlattenSeq(Pieces(others, os))
  BY <1>6, <1>7, <1>8, <1>9 DEF KeptPieces, SystemTurns, OtherTurns
<1> HIDE DEF os
<1>11. CASE os = <<>>
  <2> DEFINE m == Message("user", NoParts)
  <2>1. IsMessage(m) /\ SaidOf(m) = <<>> /\ ~IsSystem(m)
    <3>1. IsMessage(m) /\ SaidOf(m) = SaidIn("user", NoParts)
      BY Spoken, NoPartsSayNothing
    <3>2. m.role = "user"
      BY DEF Message
    <3> QED BY <3>1, <3>2, NothingSays DEF IsSystem
  <2>2. rest = <<m>>
    BY <1>11 DEF os
  <2> HIDE DEF m
  <2>3. AreMessages(rest) /\ SystemSaid(rest) = <<>> /\ OthersSaid(rest) = <<>>
    BY <2>1, <2>2, SaidByFew
  <2>4. Pieces(system, <<>>) = <<>> /\ Pieces(others, <<>>) = <<>>
    BY DEF Pieces
  <2> QED BY <1>10, <1>11, <2>3, <2>4, NothingJoined
<1>12. CASE os # <<>>
  <2> DEFINE f(i) == itemMessage(os[i])
  <2>1. Len(os) \in Nat /\ DOMAIN os = 1..Len(os) /\ \A i \in 1..Len(os) : os[i] \in P
    BY <1>10
  <2>2. \A i \in 1..Len(os) : /\ IsMessage(f(i)) /\ SaidOf(f(i)) = HeardBy(os[i])
                              /\ FromSystem(os[i]) <=> IsSystem(f(i))
    BY <1>1, <2>1
  <2>3. rest = [i \in 1..Len(os) |-> f(i)]
    BY <1>12 DEF os
  <2> HIDE DEF f
  <2>4. DOMAIN rest = DOMAIN os /\ \A i \in DOMAIN os : rest[i] = f(i)
    BY <2>1, <2>3
  <2>5. AreMessages(rest)
    <3> DEFINE S == {f(i) : i \in 1..Len(os)}
    <3>1. \A m \in S : IsMessage(m)
      BY <2>2
    <3>2. rest \in Seq(S)
      <4>1. [i \in 1..Len(os) |-> f(i)] \in Seq(S)
        BY <2>1
      <4> QED BY <2>3, <4>1
    <3> HIDE DEF S
    <3>3. \A m \in ToSet(rest) : m \in S
      <4>1. \A s \in Seq(S) : \A m \in ToSet(s) : m \in S
        BY DEF ToSet
      <4> QED BY <3>2, <4>1
    <3> QED BY <3>1, <3>2, <3>3 DEF AreMessages, IsList
  <2>6. ASSUME NEW k \in DOMAIN os
        PROVE  /\ system[os[k]] = IF IsSystem(rest[k]) THEN SaidOf(rest[k]) ELSE <<>>
               /\ others[os[k]] = IF IsSystem(rest[k]) THEN <<>> ELSE SaidOf(rest[k])
    <3>1. os[k] \in P /\ rest[k] = f(k)
      BY <2>1, <2>4
    <3>2. SaidOf(rest[k]) = HeardBy(os[k]) /\ (FromSystem(os[k]) <=> IsSystem(rest[k]))
      BY <2>1, <2>2, <3>1
    <3>3. CASE IsSystem(rest[k])
      BY <1>3, <3>1, <3>2, <3>3
    <3>4. CASE ~IsSystem(rest[k])
      BY <1>3, <3>1, <3>2, <3>4
    <3> QED BY <3>3, <3>4
  <2>7. Pieces(system, os) = [k \in DOMAIN rest |-> IF IsSystem(rest[k]) THEN SaidOf(rest[k]) ELSE <<>>]
    <3>1. \A k \in DOMAIN os : system[os[k]] = IF IsSystem(rest[k]) THEN SaidOf(rest[k]) ELSE <<>>
      BY <2>6
    <3> QED BY <2>4, <3>1 DEF Pieces
  <2>8. Pieces(others, os) = [k \in DOMAIN rest |-> IF IsSystem(rest[k]) THEN <<>> ELSE SaidOf(rest[k])]
    <3>1. \A k \in DOMAIN os : others[os[k]] = IF IsSystem(rest[k]) THEN <<>> ELSE SaidOf(rest[k])
      BY <2>6
    <3> QED BY <2>4, <3>1 DEF Pieces
  <2> QED BY <1>10, <2>5, <2>7, <2>8 DEF SystemSaid, OthersSaid
<1> QED BY <1>11, <1>12

LEMMA InputSays ==
    ASSUME client.endpoint = "input", NEW input \in Inputs,
           NEW rest, rest = IF input = Null THEN <<>> ELSE <<Message("user", input)>>
    PROVE  /\ AreMessages(rest) /\ SystemTurns(<<input>>) = SystemSaid(rest)
           /\ OtherTurns(<<input>>) = OthersSaid(rest)
<1>1. IsContent(input)
  <2>1. <<>> \in Seq(Words)
    OBVIOUS
  <2>2. IsContent(Null)
    BY <2>1 DEF IsContent, Null
  <2>3. input # Null => IsContent(input)
    BY ClientsAssumption DEF IsContent
  <2> QED BY <2>2, <2>3
<1>2. SaidIn("user", input) \in Seq(Words)
  BY <1>1, SaidTyped
<1>3. ~FromSystem(input) /\ HeardBy(input) = SaidIn("user", input)
  BY DEF FromSystem, HeardBy, SaidBy, ReadOf
<1>4. SystemTurns(<<input>>) = <<>>
  <2>1. [k \in DOMAIN <<input>> |-> IF FromSystem(<<input>>[k]) THEN HeardBy(<<input>>[k]) ELSE <<>>] = <<(<<>>)>>
    BY <1>3
  <2>2. <<>> \in Seq(Words)
    OBVIOUS
  <2>3. FlattenSeq(<<(<<>>)>>) = <<>>
    BY <2>2, FlattenOne
  <2> QED BY <2>1, <2>3 DEF SystemTurns
<1>5. OtherTurns(<<input>>) = SaidIn("user", input)
  <2>1. [k \in DOMAIN <<input>> |-> IF FromSystem(<<input>>[k]) THEN <<>> ELSE HeardBy(<<input>>[k])]
          = <<SaidIn("user", input)>>
    BY <1>3
  <2>2. FlattenSeq(<<SaidIn("user", input)>>) = SaidIn("user", input)
    BY <1>2, FlattenOne
  <2> QED BY <2>1, <2>2 DEF OtherTurns
<1>6. CASE input = Null
  BY <1>4, <1>5, <1>6, NothingSays, SaidByFew
<1>7. CASE input # Null
  <2> DEFINE m == Message("user", input)
  <2>1. IsMessage(m) /\ SaidOf(m) = SaidIn("user", input)
    BY <1>1, Spoken
  <2>2. ~IsSystem(m)
    BY DEF IsSystem, Message
  <2> HIDE DEF m
  <2>3. rest = <<m>>
    BY <1>7 DEF m
  <2> QED BY <1>4, <1>5, <2>1, <2>2, <2>3, SaidByFew
<1> QED BY <1>6, <1>7

LEMMA ConversationSays ==
    ASSUME client \in Clients, history \in Seq(TurnsOf(client)), history # <<>>
    PROVE  /\ AreMessages(ChatOf(history).messages)
           /\ Heard = SystemSaid(ChatOf(history).messages) \o OthersSaid(ChatOf(history).messages)
<1> DEFINE turns == IF client.endpoint = "input" THEN <<Last(history)>> ELSE history
           instructions == SaidIn("system", client.instructions)
           ms == ChatOf(history).messages
<1>1. Heard = (IF client.endpoint = "chat" THEN <<>> ELSE instructions) \o SystemTurns(turns) \o OtherTurns(turns)
  BY DEF Heard, SystemTurns, OtherTurns
<1>2. AreMessages(ms)
  BY TurnsOfChat DEF AreMessages, IsTurn
<1>3. ASSUME NEW rest, AreMessages(rest), ms = Opening \o rest, client.endpoint # "chat",
             SystemTurns(turns) = SystemSaid(rest), OtherTurns(turns) = OthersSaid(rest)
      PROVE  Heard = SystemSaid(ms) \o OthersSaid(ms)
  <2> HIDE DEF turns, ms, instructions
  <2>1. SystemSaid(ms) = instructions \o SystemSaid(rest) /\ OthersSaid(ms) = OthersSaid(rest)
    BY <1>3, OpeningSays DEF instructions
  <2> QED BY <1>1, <1>3, <2>1
<1>4. ASSUME client.endpoint = "chat" PROVE Heard = SystemSaid(ms) \o OthersSaid(ms)
  <2>1. history \in Seq(Messages)
    BY <1>4 DEF TurnsOf
  <2>2. ms = history /\ turns = history
    BY <1>4 DEF ChatOf, chatRequest
  <2>3. AreMessages(history) /\ SystemTurns(history) = SystemSaid(history) /\ OtherTurns(history) = OthersSaid(history)
    BY <1>4, <2>1, MessagesSay
  <2>4. SystemSaid(history) \in Seq(Words)
    BY <2>3, SaidJoined
  <2>5. <<>> \o SystemSaid(history) = SystemSaid(history)
    BY <2>4
  <2> HIDE DEF turns, ms
  <2> QED BY <1>1, <1>4, <2>2, <2>3, <2>5
<1>5. ASSUME client.endpoint = "responses" PROVE Heard = SystemSaid(ms) \o OthersSaid(ms)
  <2> DEFINE rest == IF objects(history) = <<>> THEN <<Message("user", NoParts)>>
                     ELSE [i \in 1..Len(objects(history)) |-> itemMessage(objects(history)[i])]
  <2>1. history \in Seq(Items) /\ turns = history
    BY <1>5 DEF TurnsOf
  <2>2. ms = Opening \o rest
    BY <1>5, <2>1, ItemsBecome
  <2>3. AreMessages(rest) /\ SystemTurns(history) = SystemSaid(rest) /\ OtherTurns(history) = OthersSaid(rest)
    BY <1>5, <2>1, ItemsSay
  <2> HIDE DEF rest, turns, ms
  <2> QED BY <1>3, <1>5, <2>1, <2>2, <2>3
<1>6. ASSUME client.endpoint = "input" PROVE Heard = SystemSaid(ms) \o OthersSaid(ms)
  <2> DEFINE rest == IF Last(history) = Null THEN <<>> ELSE <<Message("user", Last(history))>>
  <2>1. history \in Seq(Inputs) /\ turns = <<Last(history)>>
    BY <1>6 DEF TurnsOf
  <2>2. Last(history) \in Inputs /\ ms = Opening \o rest
    BY <1>6, <2>1, InputBecomes
  <2>3. /\ AreMessages(rest) /\ SystemTurns(<<Last(history)>>) = SystemSaid(rest)
        /\ OtherTurns(<<Last(history)>>) = OthersSaid(rest)
    BY <1>6, <2>2, InputSays
  <2> HIDE DEF rest, turns, ms
  <2> QED BY <1>3, <1>6, <2>1, <2>2, <2>3
<1> HIDE DEF ms
<1>7. AreMessages(ms) /\ Heard = SystemSaid(ms) \o OthersSaid(ms)
  BY <1>2, <1>4, <1>5, <1>6, ClientsAssumption
<1> QED BY <1>7 DEF ms

(* What the proxy reads of what the client says is what is sent, a message *)
(* for each turn.                                                          *)
THEOREM TurnsKept == Spec => []EveryTurnIsKept
<1>1. RequestInv /\ ConversationInv => EveryTurnIsKept
  <2> SUFFICES ASSUME RequestInv, ConversationInv, Built
               PROVE  Sent = Heard /\ [i \in DOMAIN body.messages |-> body.messages[i].role]
                                     = [i \in DOMAIN Turns |-> Turns[i].role]
    BY DEF EveryTurnIsKept
  <2> DEFINE ms == chat.messages
             text == systemText(ms)
  <2>1. client \in Clients /\ history \in Seq(TurnsOf(client)) /\ history # <<>> /\ ms = ChatOf(history).messages
    BY DEF RequestInv, ConversationInv
  <2>2. AreMessages(ms) /\ Heard = SystemSaid(ms) \o OthersSaid(ms)
    BY <2>1, ConversationSays
  <2>3. IsList(Turns) /\ body.messages = ConvertMessages(Turns) /\ Turns = ExtractSystem(ms).rest
    BY BuiltFromTurns
  <2>4. body.system = IF text = <<>> THEN <<>> ELSE <<text>>
    BY DEF ConversationInv
  <2> HIDE DEF ms
  <2>5. text \in Seq(Tokens) /\ WordsIn(text) = SystemSaid(ms)
    BY <2>2, SystemArrives
  <2> HIDE DEF text
  <2>6. FlattenSeq(body.system) = text
    BY <2>4, <2>5, FlattenOne, NothingJoined
  <2>7. TextsSent(body.messages) = OthersSaid(ms)
    BY <2>2, <2>3, OthersArrive
  <2>8. Sent = WordsIn(FlattenSeq(body.system)) \o TextsSent(body.messages)
    BY DEF Sent, WordsIn, TextsSent
  <2>9. Sent = Heard
    BY <2>2, <2>5, <2>6, <2>7, <2>8
  <2>10. DOMAIN body.messages = DOMAIN Turns /\ \A i \in DOMAIN Turns : body.messages[i].role = Turns[i].role
    BY <2>3, ConvertedTurns DEF IsList
  <2>11. [i \in DOMAIN body.messages |-> body.messages[i].role] = [i \in DOMAIN Turns |-> Turns[i].role]
    BY <2>10
  <2> QED BY <2>9, <2>11
<1> QED BY <1>1, RequestInvariance, ConversationInvariance, PTL
=============================================================================
