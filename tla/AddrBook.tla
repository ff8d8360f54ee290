-------------------------------- MODULE AddrBook --------------------------------
(***************************************************************************)
(* What the address manager promises for commands that fit in its field: a *)
(* book of the address last entered for each.  Of a command that nothing   *)
(* longer is cut to there is at most one entry, so that striking it leaves *)
(* none; of the others an older one may come to light.  AddrMgr.tla is     *)
(* shown to implement this specification.                                  *)
(***************************************************************************)
EXTENDS FiniteSets

CONSTANTS
  Cmds,      \* the commands
  Own,       \* those that nothing longer is cut to
  Addrs,     \* the addresses
  NoAddr     \* a command that has none

VARIABLES
  book,      \* the address of each command
  entries,   \* how many entries are kept of those in Own
  found      \* what the last look into the book returned

vars == <<book, entries, found>>

Write(new) ==
  /\ book' = new
  /\ entries' = Cardinality({c \in Own : new[c] # NoAddr})
  /\ UNCHANGED found

Init == book = [c \in Cmds |-> NoAddr] /\ entries = 0 /\ found = NoAddr

Enter(c, addr) == Write([book EXCEPT ![c] = addr])
Strike(c) ==
  \E older \in Addrs \cup {NoAddr} :
    /\ c \in Own => older = NoAddr
    /\ Write([book EXCEPT ![c] = older])
StrikeAll == Write([c \in Cmds |-> NoAddr])
Look(c) == found' = book[c] /\ UNCHANGED <<book, entries>>
LookElsewhere == found' = NoAddr /\ UNCHANGED <<book, entries>>

Next ==
  \/ \E c \in Cmds : Look(c) \/ Strike(c) \/ \E addr \in Addrs : Enter(c, addr)
  \/ LookElsewhere
  \/ StrikeAll

Spec == Init /\ [][Next]_vars
================================================================================
