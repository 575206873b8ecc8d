------------------------------- MODULE Catalog -------------------------------
(***************************************************************************)
(* catalog.go and model.go: the list of models a background goroutine      *)
(* copies from the vendor's page, and the mapping of a client's model name *)
(* to a model of that list, to a built-in alias or to itself.              *)
(*                                                                         *)
(* A name is a sequence of words (runs of letters and digits), slashes and *)
(* other punctuation.  Lookups ignore case, so names that differ only in   *)
(* case are one name here; the page lists no two such ids.  staticMapModel *)
(* compares a lower-cased name with some labels that are not lower case,   *)
(* such as "Qwen/Qwen3.7-Max", and these never match; such a name then     *)
(* leads to itself, which is the label's model but for the case.           *)
(***************************************************************************)
EXTENDS SequencesExt

CONSTANTS
    Alphabet,       \* every id a page may list, in sort.Strings order
    Names,          \* every name a client may send, the ids among them
    Slash, Marks,   \* "/" and the other punctuation a name may contain
    StaticAlias,    \* staticMapModel's table: a function from some names to ids
    StaticIds,      \* the ids of staticModels
    Pages,          \* what the page may list: sequences of ids
    Down            \* the page cannot be fetched

ASSUME CatalogAssumption ==
    /\ Alphabet \in Seq(Names \ {<<>>})
    /\ \A p \in Pages : p \in Seq(ToSet(Alphabet))
    /\ Down \notin Pages
    /\ DOMAIN StaticAlias \subseteq Names /\ StaticIds \subseteq Names
    /\ \A n \in DOMAIN StaticAlias \cap StaticIds : StaticAlias[n] = n

VARIABLES
    page,        \* what the vendor serves at the moment
    refresher,   \* "fetch", "sleep", or "gone" when the loop is left
    ids, loaded  \* the catalog; the indexes are rebuilt from ids with it

catalogVars == <<page, refresher, ids, loaded>>

InitCatalog ==
    /\ page \in Pages \union {Down}
    /\ refresher = "fetch"
    /\ ids = <<>>
    /\ loaded = FALSE

-----------------------------------------------------------------------------
(* The catalog *)

\* The ids in the order of the page, each once.
parseModelIDs(p) ==
    FlattenSeq([i \in DOMAIN p |-> IF \E j \in 1..(i - 1) : p[j] = p[i] THEN <<>> ELSE <<p[i]>>])

PageOrder(list) == list

sorted(list) ==
    FlattenSeq([i \in DOMAIN Alphabet |-> IF Alphabet[i] \in ToSet(list) THEN <<Alphabet[i]>> ELSE <<>>])

update(list) ==
    /\ ids' = sorted(list)
    /\ loaded' = TRUE

Letters(name) == SelectSeq(name, LAMBDA t : t \notin Marks \union {Slash})
normalizeModelID(name) == Letters(name)

\* What follows the last "/".
Short(name) == LET i == SelectLastInSeq(name, LAMBDA t : t = Slash)
               IN  SubSeq(name, i + 1, Len(name))

WholeID(id, name) == normalizeModelID(id) = normalizeModelID(name)

SameNorm(id, name) == normalizeModelID(Short(id)) = normalizeModelID(name)

ShortBeforeID(id, name) ==
    CASE Short(id) = name -> 1
      [] id = name /\ Short(id) # name -> 2
      [] SameNorm(id, name) /\ Short(id) # name /\ id # name -> 3
      [] OTHER -> 4

\* Which of byID, byShort and byNorm, in the order they are asked, leads from a
\* name to an id; 4 is none.
index(id, name) ==
    IF id = name THEN 1 ELSE
    IF Short(id) = name THEN 2 ELSE
    IF SameNorm(id, name) THEN 3 ELSE 4

\* Of the ids with a common short or normal form the first is in the index.
\* <<>>, as "" in the code, is no id.
resolve(name) ==
    LET via  == [i \in DOMAIN ids |-> index(ids[i], name)]
        best == Min(ToSet(via) \union {4})
    IN  IF ~loaded \/ name = <<>> \/ best = 4 THEN <<>>
        ELSE ids[SelectInSeq(via, LAMBDA k : k = best)]

staticMapModel(name) ==
    IF name \in DOMAIN StaticAlias THEN StaticAlias[name] ELSE name

MapModel(name) == LET id == resolve(name) IN IF id # <<>> THEN id ELSE staticMapModel(name)

-----------------------------------------------------------------------------
(* StartModelRefresher's goroutine *)

\* What a fetch returns: a page out of reach and one without ids are errors.
fetchModelIDs == IF page = Down THEN {} ELSE {parseModelIDs(page)} \ {<<>>}

RefreshSucceeds ==
    /\ refresher = "fetch"
    /\ \E list \in fetchModelIDs : update(list)
    /\ refresher' = "sleep"
    /\ UNCHANGED page

LeaveLoop == refresher' = "gone"

RetryLater == refresher' = "sleep"

RefreshFails ==
    /\ refresher = "fetch"
    /\ fetchModelIDs = {}
    /\ RetryLater
    /\ UNCHANGED <<page, ids, loaded>>

\* Five minutes after a failure, six hours after a success.
RefresherWakes ==
    /\ refresher = "sleep"
    /\ refresher' = "fetch"
    /\ UNCHANGED <<page, ids, loaded>>

Refresher == RefreshSucceeds \/ RefreshFails \/ RefresherWakes

\* The vendor edits its list, or the page is out of reach for a while.
PageChanges ==
    /\ page' \in (Pages \union {Down}) \ {page}
    /\ UNCHANGED <<refresher, ids, loaded>>

-----------------------------------------------------------------------------
(* Properties *)

\* README: names are resolved "exact id, short name, and punctuation-insensitive
\* match", in this order.  A listed id is served as itself, a listed short name as
\* a model of that short name, whatever spells the letters of a listed short name
\* as a model spelt like that, and only what spells none is left to the aliases.
\* No name asks for nothing.
ResolveIsFaithful ==
    loaded => \A n \in Names :
        LET to    == MapModel(n)
            asked == IF n = <<>> THEN {} ELSE ToSet(ids)
            short == { id \in asked : Short(id) = n }
            like  == { id \in asked : Letters(Short(id)) = Letters(n) }
        IN  /\ n \in ToSet(ids) => to = n
            /\ n \notin ToSet(ids) /\ short # {} => to \in short
            /\ n \notin ToSet(ids) /\ short = {} /\ like # {} => to \in like
            /\ n \notin ToSet(ids) /\ like = {} => to = staticMapModel(n)

\* A refresh beside running requests: a failed one keeps the last list, a list is
\* never replaced by nothing, and a page that lists the same ids again, in
\* whatever order and however often, moves no name to another model.
RefreshIsSafe ==
    [][/\ loaded => loaded' /\ ids' # <<>>
       /\ ids' # ids => page # Down
       /\ loaded /\ ids' # ids /\ ToSet(ids') = ToSet(ids) =>
             \A n \in Names : MapModel(n)' = MapModel(n)]_catalogVars

\* "/v1/models always reflects the latest available models" (README), failures
\* in between or not: once the page stays as it is the catalog becomes its list.
CatchesUp ==
    \A p \in Pages \ {<<>>} :
        <>[](page = p) => <>[](loaded /\ ToSet(ids) = ToSet(p))
=============================================================================
