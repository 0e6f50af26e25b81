------------------------------ MODULE Streets -------------------------------
(***************************************************************************)
(* The import of towns and streets from the national register              *)
(* (geo-importer.service.ts, geo.service.ts), which an administrator       *)
(* starts, sees break off, and starts again.                               *)
(*                                                                         *)
(* The register is a table that is fetched page by page and stays the same *)
(* while it is; names and coordinates are left out.                        *)
(***************************************************************************)
EXTENDS Integers, Sequences, FiniteSets

CONSTANTS
    Towns,      \* settlement codes in the register
    Register,   \* the street table: records with fields town and street
    Page,       \* rows of a page, 1000 in the code
    Imports,    \* concurrent imports of streets
    NoImport    \* an import that is not running

ASSUME StreetsAssumption ==
    /\ IsFiniteSet(Towns)
    /\ Register \in Seq({Register[i] : i \in DOMAIN Register})
    /\ \A i \in DOMAIN Register : Register[i].town \in Towns
    /\ Page \in Nat \ {0}

VARIABLES
    towns,      \* settlements stored
    streets,    \* streets stored
    imports,    \* the imports of streets
    promised    \* towns that a full import reported on as done (history)

streetVars == <<towns, streets, imports, promised>>

Rows == {Register[i] : i \in DOMAIN Register}
RowsOf(town) == {r \in Rows : r.town = town}
Lesser(a, b) == IF a < b THEN a ELSE b

\* fetchPage: the rows from offset on.
PageRows(offset) == {Register[i] : i \in (offset + 1)..Lesser(offset + Page, Len(Register))}

\* known: settlements read at the start; skip: those passed over; page: the
\* buckets of the current page that are still to be stored.
Import == [full: BOOLEAN, known: SUBSET Towns, skip: SUBSET Towns,
           offset: 0..Len(Register), page: SUBSET Rows]

StreetsInit ==
    /\ towns = {}
    /\ streets = {}
    /\ imports = [i \in Imports |-> NoImport]
    /\ promised = {}

-----------------------------------------------------------------------------

\* One upsert of importSettlements or of seedFromCurated; both go on from
\* nothing when they broke off.
AddTown(t) ==
    /\ t \notin towns
    /\ towns' = towns \cup {t}
    /\ UNCHANGED <<streets, imports, promised>>

\* Faulty variant: towns that have streets are passed over in every mode.
StartSkipping(i, full) ==
    /\ imports[i] = NoImport
    /\ imports' = [imports EXCEPT ![i] =
          [full |-> full, known |-> towns, skip |-> {r.town : r \in streets},
           offset |-> 0, page |-> {}]]
    /\ UNCHANGED <<towns, streets, promised>>

\* importStreets reads the settlements and, with onlyMissing, which have streets.
Start(i, full) ==
    /\ imports[i] = NoImport
    /\ imports' = [imports EXCEPT ![i] =
          [full |-> full, known |-> towns,
           skip |-> IF full THEN {} ELSE {r.town : r \in streets},
           offset |-> 0, page |-> {}]]
    /\ UNCHANGED <<towns, streets, promised>>

\* The next page, without rows of unknown and passed-over towns.
Fetch(i) ==
    /\ imports[i] # NoImport
    /\ imports[i].page = {}
    /\ imports[i].offset < Len(Register)
    /\ LET m == imports[i]
       IN  imports' = [imports EXCEPT ![i] =
              [m EXCEPT !.offset = Lesser(m.offset + Page, Len(Register)),
                        !.page = {r \in PageRows(m.offset) : r.town \in m.known \ m.skip}]]
    /\ UNCHANGED <<towns, streets, promised>>

\* One bucket: a createMany that skips what is there.
StoreBucket(i, t) ==
    /\ imports[i] # NoImport
    /\ \E r \in imports[i].page : r.town = t
    /\ streets' = streets \cup (imports[i].page \cap RowsOf(t))
    /\ imports' = [imports EXCEPT ![i].page = @ \ RowsOf(t)]
    /\ UNCHANGED <<towns, promised>>

\* A fetch or a store throws: what is stored stays.
Break(i) ==
    /\ imports[i] # NoImport
    /\ imports' = [imports EXCEPT ![i] = NoImport]
    /\ UNCHANGED <<towns, streets, promised>>

\* The counts are reported.
Report(i) ==
    /\ imports[i] # NoImport
    /\ imports[i].page = {}
    /\ imports[i].offset = Len(Register)
    /\ imports' = [imports EXCEPT ![i] = NoImport]
    /\ promised' = promised \cup (IF imports[i].full THEN imports[i].known ELSE {})
    /\ UNCHANGED <<towns, streets>>

StreetsNext ==
    \/ \E t \in Towns : AddTown(t) \/ \E i \in Imports : StoreBucket(i, t)
    \/ \E i \in Imports :
          \/ \E full \in BOOLEAN : Start(i, full)
          \/ Fetch(i) \/ Break(i) \/ Report(i)

StreetsSpec == StreetsInit /\ [][StreetsNext]_streetVars

-----------------------------------------------------------------------------

\* Rows and imports are of towns and pages of the register.
StreetsTypeOK ==
    /\ towns \in SUBSET Towns
    /\ streets \in SUBSET Rows
    /\ imports \in [Imports -> Import \cup {NoImport}]
    /\ promised \in SUBSET Towns

\* Once a full import has reported, every street the register has for a town that
\* was stored when the import began is stored too, whatever broke off before or
\* ran beside it.
StreetsComplete == \A t \in promised : RowsOf(t) \subseteq streets
=============================================================================
