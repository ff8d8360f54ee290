--------------------------------- MODULE Listing --------------------------------
(***************************************************************************)
(* The page 23.file_server makes of a directory: MakeHTML in response.cpp  *)
(* with GetEntry, MakeEntryItem and SortFileEntry, and the rows of         *)
(* page.cpp.  The directory is read twice, once for the folders and once   *)
(* for the files, while other processes create and remove entries: between *)
(* the passes, and also between readdir() and stat() of one entry.         *)
(*                                                                         *)
(* A row is a name and its type; link, size and time are text.             *)
(***************************************************************************)
EXTENDS Integers, Sequences, FiniteSets, Functions

CONSTANTS
  Names,          \* names of entries, numbered in the order of strcmp()
  Dots,           \* "." and ".."
  STEP,           \* STEP, by which the list of entries grows
  SubDir,         \* whether req is another path than "/"
  AllocOutcomes,  \* results malloc, calloc and realloc may have
  OpenOutcomes,   \* results opendir, open, stat and read, with the memory they
                  \* need, may have for what is there
  MaxChanges      \* bound: changes to the directory during the request

ASSUME ListingAssumption ==
  /\ IsFiniteSet(Names)
  /\ Names \subseteq Nat
  /\ Dots \subseteq Names
  /\ STEP \in Nat \ {0}
  /\ SubDir \in BOOLEAN
  /\ AllocOutcomes \subseteq BOOLEAN
  /\ OpenOutcomes \subseteq BOOLEAN
  /\ MaxChanges \in Nat

\* What readdir() says of an entry (d_type).  "other" is a link, a device, or
\* DT_UNKNOWN of a file system that does not say.
Kinds == {"dir", "file", "other"}
Absent == "none"

\* The row "./.." to the parent folder.
Back == [type |-> "back"]
Row(kind, name) == [type |-> kind, name |-> name]

VARIABLES
  disk,     \* what each name is, or Absent
  changes,  \* changes made to it
  steady,   \* names not changed since the request (history)
  failed,   \* an allocation, opendir(), open(), stat() or read() has failed (history)
  had,      \* what each name has been since opendir()
  seen,     \* names readdir() has returned
  type,     \* type: the pass
  fe,       \* ret of GetEntry is not null
  max,      \* max
  data,     \* data of the list, as far as length; later what has no row yet
  item,     \* dp->d_name
  rows,     \* the table
  page,     \* the page
  pc        \* "table", "back", "open", "read", "stat", "sort", "rows", "string",
            \* and "done", or "null" without a page

directory == <<disk, changes, steady>>
list == <<type, fe, max, data, item>>
vars == <<directory, failed, had, seen, list, rows, page, pc>>

Init ==
  /\ disk \in {d \in [Names -> Kinds \cup {Absent}] : \A n \in Dots : d[n] = "dir"}
  /\ changes = 0
  /\ steady = Names
  /\ failed = FALSE
  /\ had = [n \in Names |-> {}]
  /\ seen = {}
  /\ type = "dir"
  /\ fe = FALSE
  /\ max = 0
  /\ data = <<>>
  /\ item = 0
  /\ rows = <<>>
  /\ page = <<>>
  /\ pc = "table"

--------------------------------------------------------------------------------
(* Other processes, and readdir(). *)

Change(name, kind) ==
  /\ pc \notin {"done", "null"}
  /\ changes < MaxChanges
  /\ name \notin Dots
  /\ kind # disk[name]
  /\ disk' = [disk EXCEPT ![name] = kind]
  /\ changes' = changes + 1
  /\ steady' = steady \ {name}
  /\ had' = [had EXCEPT ![name] = @ \cup {kind}]
  /\ UNCHANGED <<failed, seen, list, rows, page, pc>>

\* An entry that comes or goes while the directory is open is returned or not, as
\* what it was at some time since, and no name is returned twice: of one that is
\* removed and created again meanwhile POSIX leaves that open.
Returned(name, kind) == name \notin seen /\ kind \in had[name] \ {Absent}
AllReturned == \A n \in Names : Absent \in had[n] \/ n \in seen

--------------------------------------------------------------------------------
(* MakeHTML. *)

CreatTable(ok) ==
  /\ pc = "table"
  /\ pc' = IF ok THEN "back" ELSE "null"
  /\ failed' = (failed \/ ~ok)
  /\ UNCHANGED <<directory, had, seen, list, rows, page>>

InsertBack(ok) ==
  /\ pc = "back"
  /\ rows' = IF SubDir /\ ok THEN <<Back>> ELSE <<>>
  /\ failed' = (failed \/ (SubDir /\ ~ok))
  /\ pc' = "open"
  /\ UNCHANGED <<directory, had, seen, list, page>>

\* One row; without memory the table stays as it is.
InsertRow(ok) ==
  /\ pc = "rows"
  /\ data # <<>>
  /\ data' = Tail(data)
  /\ rows' = IF ok THEN Append(rows, Row(type, Head(data))) ELSE rows
  /\ failed' = (failed \/ ~ok)
  /\ UNCHANGED <<directory, had, seen, type, fe, max, item, page, pc>>

\* free(fe): the files come after the folders.
FreeEntries ==
  /\ pc = "rows"
  /\ data = <<>>
  /\ fe' = FALSE
  /\ type' = "file"
  /\ pc' = IF type = "dir" THEN "open" ELSE "string"
  /\ UNCHANGED <<directory, failed, had, seen, max, data, item, rows, page>>

\* ToTableString and ToPageString
ToPageString(ok) ==
  /\ pc = "string"
  /\ page' = IF ok THEN rows ELSE <<>>
  /\ failed' = (failed \/ ~ok)
  /\ pc' = IF ok THEN "done" ELSE "null"
  /\ UNCHANGED <<directory, had, seen, list, rows>>

--------------------------------------------------------------------------------
(* GetEntry. *)

OpenDir(ok) ==
  /\ pc = "open"
  /\ had' = [n \in Names |-> {disk[n]}]
  /\ seen' = {}
  /\ fe' = ok
  /\ max' = 0
  /\ failed' = (failed \/ ~ok)
  /\ pc' = IF ok THEN "read" ELSE "rows"
  /\ UNCHANGED <<directory, type, data, item, rows, page>>

\* The list grows at every entry.
FullAlways == TRUE

\* The list grows one entry late.
FullLate == Len(data) > max

\* The list is at its limit.
Full == Len(data) = max

\* An entry of the type of this pass is looked at; the others are passed over.
ReadDir(name, kind) ==
  /\ pc = "read"
  /\ Returned(name, kind)
  /\ seen' = seen \cup {name}
  /\ max' = IF Full THEN max + STEP ELSE max
  /\ item' = name
  /\ pc' = IF kind = type /\ name \notin Dots THEN "stat" ELSE "read"
  /\ UNCHANGED <<directory, failed, had, type, fe, data, rows, page>>

\* No memory to grow: the list is lost, and pLen null ends the loop.
ReallocFails(name, kind) ==
  /\ pc = "read"
  /\ Returned(name, kind)
  /\ Full
  /\ seen' = seen \cup {name}
  /\ max' = max + STEP
  /\ item' = name
  /\ fe' = FALSE
  /\ data' = <<>>
  /\ failed' = TRUE
  /\ pc' = "sort"
  /\ UNCHANGED <<directory, had, type, rows, page>>

\* stat(): an entry that has gone since, or has no memory for its path, is
\* left out.
MakeEntryItem(ok) ==
  /\ pc = "stat"
  /\ data' = IF ok /\ disk[item] # Absent THEN Append(data, item) ELSE data
  /\ failed' = (failed \/ ~ok)
  /\ pc' = "read"
  /\ UNCHANGED <<directory, had, seen, type, fe, max, item, rows, page>>

EndOfDir ==
  /\ pc = "read"
  /\ AllReturned
  /\ pc' = "sort"
  /\ UNCHANGED <<directory, failed, had, seen, list, rows, page>>

--------------------------------------------------------------------------------
(* SortFileEntry. *)

\* The comparison the other way round.
MaxFrom(s, i) == CHOOSE k \in i .. Len(s) : \A j \in i .. Len(s) : s[k] >= s[j]

\* min after the inner loop
MinFrom(s, i) == CHOOSE k \in i .. Len(s) : \A j \in i .. Len(s) : s[k] <= s[j]

\* The exchange without temp.
Overwrite(s, i, k) == [s EXCEPT ![i] = s[k]]

Swap(s, i, k) == [s EXCEPT ![i] = s[k], ![k] = s[i]]

\* s after all rounds of the outer loop.
Sorted(s) ==
  LET after[i \in 0 .. Len(s)] ==
        IF i = 0 THEN s ELSE Swap(after[i - 1], i, MinFrom(after[i - 1], i))
  IN after[Len(s)]

\* Without memory for temp the entries stay in the order of readdir().
SortFileEntry(ok) ==
  /\ pc = "sort"
  /\ data' = IF fe /\ ok THEN Sorted(data) ELSE data
  /\ failed' = (failed \/ ~ok)
  /\ pc' = "rows"
  /\ UNCHANGED <<directory, had, seen, type, fe, max, item, rows, page>>

--------------------------------------------------------------------------------
MakeHTML ==
  \/ \E ok \in AllocOutcomes :
       \/ CreatTable(ok) \/ InsertBack(ok) \/ InsertRow(ok) \/ ToPageString(ok)
       \/ SortFileEntry(ok)
  \/ \E ok \in OpenOutcomes : OpenDir(ok) \/ MakeEntryItem(ok)
  \/ \E name \in Names, kind \in Kinds :
       \/ ReadDir(name, kind)
       \/ FALSE \in AllocOutcomes /\ ReallocFails(name, kind)
  \/ FreeEntries
  \/ EndOfDir

Others == \E name \in Names, kind \in Kinds \cup {Absent} : Change(name, kind)

--------------------------------------------------------------------------------
(* Properties. *)

\* Types of the variables; the list has no entry twice, and while it is made its
\* limit is at most one STEP beyond what it holds.
ListingTypeOK ==
  /\ disk \in [Names -> Kinds \cup {Absent}]
  /\ changes \in 0 .. MaxChanges
  /\ steady \subseteq Names
  /\ failed \in BOOLEAN
  /\ had \in [Names -> SUBSET (Kinds \cup {Absent})]
  /\ seen \subseteq Names
  /\ type \in {"dir", "file"}
  /\ fe \in BOOLEAN
  /\ max \in 0 .. Cardinality(Names) + STEP
  /\ data \in Seq(Names) /\ IsInjective(data)
  /\ pc \in {"read", "stat"} => max <= Len(data) + STEP
  /\ item \in Names \cup {0}
  /\ pc \in {"table", "back", "open", "read", "stat", "sort", "rows", "string", "done", "null"}

\* MakeEntryItem writes behind the entries there are, where the list has room,
\* however many entries were passed over or left out before.
WithinCapacity == pc = "stat" => fe /\ Len(data) < max

\* The order of two rows: the way back, the folders, the files, and the entries of
\* one type by their names.
Before(r, q) ==
  \/ r.type = "back" /\ q.type # "back"
  \/ r.type = "dir" /\ q.type = "file"
  \/ r.type = q.type /\ r.type # "back" /\ r.name < q.name

\* When nothing failed, the page is in order, with no row twice, and has a way back
\* where there is one; and it names each folder and each file that was there all the
\* time, whatever else came and went, and nothing that was not there all the time or
\* was another kind of entry.
PageTrue ==
  pc = "done" /\ ~failed =>
    /\ \A i, j \in DOMAIN page : i < j => Before(page[i], page[j])
    /\ Back \in Range(page) <=> SubDir
    /\ \A n \in steady \ Dots, kind \in {"dir", "file"} :
         Row(kind, n) \in Range(page) <=> disk[n] = kind
================================================================================
