-------------------------------- MODULE Response --------------------------------
(***************************************************************************)
(* RequestHandler of 23.file_server/response.cpp: the answer to one        *)
(* request.  It looks at the path three times, with access(), opendir() in *)
(* GetEntryCount and opendir() or open() in the handler, while other       *)
(* processes rename what the path names, and write to a file that is being *)
(* sent.  The page of a directory is made by Listing.tla.                  *)
(*                                                                         *)
(* A file is counted in blocks of BUF_SIZE bytes.  Sends succeed: those    *)
(* that fail are in FileServer.tla.                                        *)
(***************************************************************************)
EXTENDS Listing

CONSTANTS
  MaxSize,     \* bound: blocks in a file
  IntLimit,    \* 2^(w - 1) for an int of w bits, in which blocks are counted
  MaxEdits     \* bound: changes to what the path names during the request

ASSUME ResponseAssumption ==
  /\ MaxSize \in Nat
  /\ IntLimit \in Nat /\ IntLimit > 1
  /\ MaxEdits \in Nat

VARIABLES
  root,     \* what the path names: "dir", "file" or Absent
  size,     \* blocks of the file
  edits,    \* changes made to the two
  was,      \* what the path has named since the request (history)
  at,       \* "access", "count", "open", "length", "head", "copy", "dir", "bad", "end"
  fd,       \* what FileReqHandler has opened, or Absent
  length,   \* max of FileReqHandler
  written,  \* the file was written to after its length was taken (history)
  pos,      \* file position, in blocks
  body,     \* blocks sent
  answer    \* what was sent: "none", "error", "page" or "file"

path == <<root, size, edits, was>>
copying == <<fd, length, written, pos, body>>
rvars == <<path, at, copying, answer>>
allVars == <<vars, rvars>>

AllKinds == {"dir", "file", Absent}

RInit ==
  /\ Init
  /\ root \in AllKinds
  /\ root # "dir" => \A n \in Names \ Dots : disk[n] = Absent
  /\ size \in IF root = "file" THEN 0 .. MaxSize ELSE {0}
  /\ edits = 0
  /\ was = {root}
  /\ at = "access"
  /\ fd = Absent
  /\ length = 0
  /\ written = FALSE
  /\ pos = 0
  /\ body = 0
  /\ answer = "none"

--------------------------------------------------------------------------------
(* Other processes. *)

Rename(kind) ==
  /\ at # "end"
  /\ edits < MaxEdits
  /\ kind # root
  /\ root' = kind
  /\ edits' = edits + 1
  /\ was' = was \cup {kind}
  /\ UNCHANGED <<vars, size, at, copying, answer>>

Rewrite(blocks) ==
  /\ at # "end"
  /\ edits < MaxEdits
  /\ root = "file" \/ fd = "file"
  /\ blocks # size
  /\ size' = blocks
  /\ edits' = edits + 1
  /\ written' = (at \in {"head", "copy"})
  /\ UNCHANGED <<vars, root, was, at, fd, length, pos, body, answer>>

--------------------------------------------------------------------------------
(* RequestHandler. *)

Goto(step) == at' = step /\ UNCHANGED <<path, copying, answer>>
Fails == failed' = TRUE /\ UNCHANGED <<directory, had, seen, list, rows, page, pc>>

\* access(ap, F_OK), where no memory for ap is no such path either.
Access ==
  /\ at = "access"
  /\ \/ Goto(IF root # Absent THEN "count" ELSE "bad") /\ UNCHANGED vars
     \/ FALSE \in AllocOutcomes /\ Goto("bad") /\ Fails

EntryCount == Cardinality({n \in Names \ Dots : disk[n] # Absent})

ChooseBy(isFile) ==
  /\ at = "count"
  /\ \/ Goto(IF root # "dir" \/ isFile THEN "open" ELSE "dir") /\ UNCHANGED vars
     \/ FALSE \in OpenOutcomes /\ root = "dir" /\ Goto("open") /\ Fails

EmptyIsFile == ChooseBy(EntryCount <= 0)                     \* <= for <
\* GetEntryCount: what cannot be opened as a directory is taken for a file.
Count == ChooseBy(EntryCount < 0)

Sent(kind) ==
  /\ at' = "end"
  /\ answer' = kind
  /\ UNCHANGED <<path, copying>>

\* ToErrString and Response
BadReqHandler ==
  /\ at = "bad"
  /\ \/ Sent("error") /\ UNCHANGED vars
     \/ FALSE \in AllocOutcomes /\ Goto("end") /\ Fails

\* MakeHTML.  What is no directory any more cannot be opened, nor its entries
\* found, by its path.
MakePage ==
  /\ at = "dir"
  /\ MakeHTML
  /\ root # "dir" => (pc = "open" => ~fe') /\ (pc = "stat" => data' = data)
  /\ UNCHANGED rvars

\* Response, with the page if there is one.
DirReqHandler ==
  /\ at = "dir"
  /\ \/ pc = "done" /\ Sent("page") /\ UNCHANGED vars
     \/ pc = "done" /\ FALSE \in AllocOutcomes /\ Goto("end") /\ Fails
     \/ pc = "null" /\ Goto("end") /\ UNCHANGED vars

--------------------------------------------------------------------------------
(* FileReqHandler. *)

\* open(), which opens a directory too; without it, or without memory, nothing
\* is sent.
Open ==
  /\ at = "open"
  /\ \/ /\ at' = IF root = Absent THEN "end" ELSE "length"
        /\ fd' = root
        /\ UNCHANGED <<vars, path, length, written, pos, body, answer>>
     \/ FALSE \in OpenOutcomes /\ Goto("end") /\ Fails

\* The value an int takes.
ToInt(n) == ((n + IntLimit) % (2 * IntLimit)) - IntLimit

\* max {lseek(fd, 0, SEEK_END)}; a directory has any length.
Length ==
  /\ at = "length"
  /\ IF fd = "file" THEN length' = ToInt(size) /\ pos' = size
                    ELSE length' \in {-1, 1} /\ UNCHANGED pos
  /\ at' = "head"
  /\ UNCHANGED <<vars, path, fd, written, body, answer>>

HeadThen(position) ==
  /\ at = "head"
  /\ answer' = "file"
  /\ pos' = position
  /\ at' = "copy"
  /\ UNCHANGED <<vars, path, fd, length, written, body>>

HeadOnly == HeadThen(pos)                                    \* without lseek
\* The head is sent, and lseek(fd, 0, SEEK_SET).
SendHead == HeadThen(0)

\* read() and TcpClient_SendRaw
Copy ==
  /\ at = "copy"
  /\ fd = "file"
  /\ pos < size
  /\ pos' = pos + 1
  /\ body' = body + 1
  /\ UNCHANGED <<vars, path, at, fd, length, written, answer>>

\* read() = 0, or -1: of a directory always
EndOfFile ==
  /\ at = "copy"
  /\ Goto("end")
  /\ \/ (fd = "dir" \/ pos >= size) /\ UNCHANGED vars
     \/ FALSE \in OpenOutcomes /\ Fails

RequestHandler ==
  \/ Access \/ Count \/ BadReqHandler
  \/ MakePage \/ DirReqHandler
  \/ Open \/ Length \/ SendHead \/ Copy \/ EndOfFile

Next ==
  \/ RequestHandler
  \/ Others /\ UNCHANGED rvars
  \/ \E kind \in AllKinds : Rename(kind)
  \/ \E blocks \in 0 .. MaxSize : Rewrite(blocks)

Spec == RInit /\ [][Next]_allVars

--------------------------------------------------------------------------------
(* Properties. *)

\* Types of the variables, with what ListingTypeOK says of the list; a list that is
\* being made has nothing to do with a file.
TypeOK ==
  /\ ListingTypeOK
  /\ root \in AllKinds
  /\ size \in 0 .. MaxSize
  /\ edits \in 0 .. MaxEdits
  /\ was \subseteq AllKinds /\ root \in was
  /\ at \in {"access", "count", "open", "length", "head", "copy", "dir", "bad", "end"}
  /\ fd \in AllKinds
  /\ length \in -IntLimit .. IntLimit - 1
  /\ written \in BOOLEAN
  /\ pos \in 0 .. MaxSize
  /\ body \in Nat
  /\ answer \in {"none", "error", "page", "file"}
  /\ pc # "table" => fd = Absent

AnswerTo(kind) ==
  CASE kind = "dir" -> "page" [] kind = "file" -> "file" [] kind = Absent -> "error"

\* When nothing fails the answer is the right one for something the path named
\* during the request, and there is one unless that changed.  Only a directory that
\* was away while its entries were counted is answered as a file.
AnswerFits ==
  at = "end" /\ ~failed =>
    \/ \E kind \in was : answer = AnswerTo(kind)
    \/ answer = "none" /\ Cardinality(was) > 1
    \/ answer = "file" /\ fd = "dir" /\ Absent \in was

\* A file that nobody writes to is sent with its length, as long as an int can hold
\* it, and whole unless a read fails, whatever became of its path; and what is sent
\* without a length that is true is a directory taken for a file.
LengthTrue ==
  at = "end" /\ answer = "file" /\ ~written =>
    \/ /\ fd = "file"
       /\ size < IntLimit => length = size /\ (body = size \/ (failed /\ body < size))
    \/ fd = "dir" /\ body = 0 /\ (failed \/ Cardinality(was) > 1)
================================================================================
