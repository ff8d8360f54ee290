--------------------------------- MODULE AddrMgr --------------------------------
(***************************************************************************)
(* 19.client_base/addr_mgr.cpp: the address of a server for each command,  *)
(* in a doubly linked list (list.h) with the newest entry first.           *)
(*                                                                         *)
(* A command is stored in a field of CMD_SIZE bytes and cut to fit, but is *)
(* compared with the field whole.                                          *)
(***************************************************************************)
EXTENDS Integers, FiniteSets

CONSTANTS
  Nodes,          \* places malloc() may return for a SvrAddr
  List,           \* g_svrList
  Poison,         \* LIST_POISON1 and LIST_POISON2
  Cmds,           \* commands callers use
  Cut,            \* what is stored of each
  Addrs,          \* addresses
  NoAddr,         \* a null pointer in the place of an address
  AllocOutcomes   \* results malloc may have

\* The commands that fit, and those of them that nothing longer is cut to.
Fitting == {c \in Cmds : Cut[c] = c}
Own == {c \in Fitting : \A d \in Cmds \ Fitting : Cut[d] # c}

ASSUME AddrAssumption ==
  /\ IsFiniteSet(Nodes)
  /\ List \notin Nodes
  /\ Poison \notin Nodes \cup {List}
  /\ DOMAIN Cut = Cmds
  /\ \A c \in Cmds : Cut[c] \in Cmds => Cut[c] \in Fitting
  /\ NoAddr \notin Addrs
  /\ AllocOutcomes \subseteq BOOLEAN

Places == Nodes \cup {List}

VARIABLES
  live,    \* nodes that are allocated
  next,    \* next
  prev,    \* prev
  cmd,     \* cmd of each node that is allocated
  ip,      \* ip of each node that is allocated
  found    \* what the last call of AddrMgr_Find returned

links == <<next, prev>>
addrVars == <<live, links, cmd, ip, found>>

AddrInit ==
  /\ live = {}
  /\ next = [n \in Places |-> IF n = List THEN List ELSE Poison]
  /\ prev = next
  /\ cmd = [n \in {} |-> NoAddr]
  /\ ip = [n \in {} |-> NoAddr]
  /\ found = NoAddr

--------------------------------------------------------------------------------
(* list.h *)

\* __list_add(new, &g_svrList, its next)
ListAdd(new) ==
  /\ next' = [next EXCEPT ![new] = next[List], ![List] = new]
  /\ prev' = [prev EXCEPT ![next[List]] = new, ![new] = List]

\* Only one of the two pointers around the entry is set.
ListDelOneWay(entry) ==
  /\ prev' = [prev EXCEPT ![entry] = Poison]
  /\ next' = [next EXCEPT ![prev[entry]] = next[entry], ![entry] = Poison]

\* The entry keeps its pointers.
ListDelUnpoisoned(entry) ==
  /\ prev' = [prev EXCEPT ![next[entry]] = prev[entry]]
  /\ next' = [next EXCEPT ![prev[entry]] = next[entry]]

ListDel(entry) ==
  /\ prev' = [prev EXCEPT ![next[entry]] = prev[entry], ![entry] = Poison]
  /\ next' = [next EXCEPT ![prev[entry]] = next[entry], ![entry] = Poison]

\* The place that list_for_each comes to after k steps.
Steps == 0 .. Cardinality(Nodes) + 1
At == LET at[k \in Steps] == IF k = 0 THEN List ELSE next[at[k - 1]] IN at

--------------------------------------------------------------------------------
(* addr_mgr.cpp *)

\* The first entry with this command, or List if there is none.
Entry(c) ==
  LET stop == CHOOSE k \in Steps \ {0} :
                /\ At[k] = List \/ cmd[At[k]] = c
                /\ \A j \in 1 .. k - 1 : At[j] # List /\ cmd[At[j]] # c
  IN At[stop]

AddrMgr_Find(c) ==
  /\ found' = IF Entry(c) = List THEN NoAddr ELSE ip[Entry(c)]
  /\ UNCHANGED <<live, links, cmd, ip>>

With(f, n, value) == [m \in DOMAIN f \cup {n} |-> IF m = n THEN value ELSE f[m]]
Without(f, n) == [m \in DOMAIN f \ {n} |-> f[m]]

AddNew(c, addr) ==
  \E new \in Nodes \ live :
    /\ live' = live \cup {new}
    /\ ListAdd(new)
    /\ cmd' = With(cmd, new, Cut[c])
    /\ ip' = With(ip, new, addr)
    /\ UNCHANGED found

\* An entry is added whether or not there is one.
AddAgain(c, addr) == AddNew(c, addr)

\* An entry with the command is changed in place.
AddrMgr_Add(c, addr) ==
  IF Entry(c) # List
    THEN ip' = [ip EXCEPT ![Entry(c)] = addr] /\ UNCHANGED <<live, links, cmd, found>>
    ELSE AddNew(c, addr)

\* AddrMgr_Add without memory.
AddFails(c) == Entry(c) = List /\ UNCHANGED addrVars

AddrMgr_Remove(c) ==
  /\ Entry(c) # List
  /\ live' = live \ {Entry(c)}
  /\ ListDel(Entry(c))
  /\ cmd' = Without(cmd, Entry(c))
  /\ ip' = Without(ip, Entry(c))
  /\ UNCHANGED found

\* The loop to its end: every entry is unlinked and freed.
AddrMgr_Clear ==
  /\ live' = {}
  /\ next' = [n \in Places |-> IF n = List THEN List ELSE Poison]
  /\ prev' = next'
  /\ cmd' = [n \in {} |-> NoAddr]
  /\ ip' = [n \in {} |-> NoAddr]
  /\ UNCHANGED found

AddrNext ==
  \/ \E c \in Cmds :
       \/ AddrMgr_Find(c)
       \/ \E addr \in Addrs : TRUE \in AllocOutcomes /\ AddrMgr_Add(c, addr)
       \/ FALSE \in AllocOutcomes /\ AddFails(c)
       \/ AddrMgr_Remove(c)
  \/ AddrMgr_Clear

AddrSpec == AddrInit /\ [][AddrNext]_addrVars

--------------------------------------------------------------------------------
(* Properties. *)

\* Types, as a part of Linked; a node that is not allocated hangs in no list.
TypeOK ==
  /\ live \subseteq Nodes
  /\ next \in [Places -> Places \cup {Poison}]
  /\ prev \in [Places -> Places \cup {Poison}]
  /\ \A n \in Nodes \ live : next[n] = Poison /\ prev[n] = Poison
  /\ cmd \in [live -> {Cut[c] : c \in Cmds}]
  /\ ip \in [live -> Addrs]
  /\ found \in Addrs \cup {NoAddr}

\* However entries are added, removed and their memory used again, the list is
\* one ring through the head and every allocated entry, the same in both
\* directions, so that a walk ends and nothing allocated is out of reach, and a
\* node that is not allocated hangs in no list.
Linked ==
  /\ TypeOK
  /\ \A n \in live \cup {List} :
       /\ next[n] \in live \cup {List} /\ prev[next[n]] = n
       /\ prev[n] \in live \cup {List} /\ next[prev[n]] = n
  /\ {At[k] : k \in 1 .. Cardinality(live)} = IF live = {} THEN {} ELSE live
  /\ At[Cardinality(live) + 1] = List

Book == INSTANCE AddrBook WITH
  Cmds <- Fitting,
  entries <- Cardinality({n \in live : cmd[n] \in Own}),
  book <- [c \in Fitting |-> IF Entry(c) = List THEN NoAddr ELSE ip[Entry(c)]]

\* For commands that fit the manager is a book, in which a look finds what was
\* entered last.  A command that does not fit is never found and is stored again
\* at each call: it overlays the command that it is cut to, if that is used,
\* and disturbs no other.  A command that nothing is cut to has at most one
\* entry, so that none comes back after it was removed.
ImplementsBook == Book!Spec
================================================================================
