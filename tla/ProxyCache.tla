------------------------------ MODULE ProxyCache ------------------------------
(***************************************************************************)
(* What the three caching proxies of src/proxy (main.c, main1.c, main2.c)  *)
(* have in common: a thread per client, a fetcher thread per cache entry,  *)
(* and a list of entries of bounded total capacity.  How a fetcher fills   *)
(* its entry and how a client is served from it is in StreamProxy and      *)
(* HeaderProxy.  Lines are those of main.c; the text is the same in all.   *)
(*                                                                         *)
(* Data is counted in chunks; what the chunks hold is not modelled.        *)
(* cache_table_lock and cache_mem_lock guard short sections that are       *)
(* single steps, except where refcount, which clients change under two     *)
(* different locks, is read in one step and written in another.            *)
(* An entry's block keeps its contents after it has been freed.            *)
(***************************************************************************)
EXTENDS Integers, Sequences, FiniteSets, Functions, FiniteSetsExt

CONSTANTS Clients,          \* client threads; each makes one request
          Urls,
          Entry,            \* the blocks calloc can return
          CACHE_MAX_BYTES,  \* in chunks
          None

(* Each request makes at most one entry, and calloc never fails.             *)
ASSUME CacheAssumption ==
  /\ IsFiniteSet(Clients) /\ IsFiniteSet(Entry) /\ Cardinality(Clients) <= Cardinality(Entry)
  /\ CACHE_MAX_BYTES \in Nat \ {0}
  /\ None \notin Clients \cup Urls \cup Entry
  /\ Clients \cap Entry = {}

VARIABLES
  cache_table,      \* the entries in list order
  cache_used_bytes,
  tablelock,        \* the client that holds cache_table_lock between two steps
  entry,            \* the fields of each entry
  freed,            \* the entries that have been evicted
  elock,            \* who holds e->lock between two steps: a client or e's fetcher, named e
  waiting,          \* the clients in pthread_cond_wait
  fetcher,          \* where the fetcher of each entry is
  received,         \* chunks the fetcher has received
  pc, url, mine,    \* the client, the url of its request and its local e
  offset,           \* bytes of e the client has sent on
  reg,              \* refcount as read by refcount++ and refcount--, or what is to be sent;
                    \* 0 when it has been used
  outcome           \* how the request ended

cache == <<cache_table, cache_used_bytes, tablelock, entry, freed>>
fetch == <<fetcher, received>>
locals == <<url, mine, offset, reg, outcome>>
cacheVars == <<cache, elock, waiting, fetch, pc, locals>>

Unused == [url |-> None, size |-> 0, capacity |-> 0, complete |-> FALSE,
           cacheable |-> FALSE, refcount |-> 0]

CacheInit ==
  /\ cache_table = <<>> /\ cache_used_bytes = 0 /\ tablelock = None
  /\ entry = [e \in Entry |-> Unused] /\ freed = {}
  /\ elock = [e \in Entry |-> None]
  /\ waiting = {}
  /\ fetcher = [e \in Entry |-> "none"]
  /\ received = [e \in Entry |-> 0]
  /\ pc = [c \in Clients |-> "request"]
  /\ url \in [Clients -> Urls]
  /\ mine = [c \in Clients |-> None]
  /\ offset = [c \in Clients |-> 0]
  /\ reg = [c \in Clients |-> 0]
  /\ outcome = [c \in Clients |-> "none"]

Go(c, l) == pc' = [pc EXCEPT ![c] = l]
GoFetch(e, l) == fetcher' = [fetcher EXCEPT ![e] = l]
IsFree(e) == elock[e] = None
Lock(e, who) == IsFree(e) /\ elock' = [elock EXCEPT ![e] = who]
Unlock(e) == elock' = [elock EXCEPT ![e] = None]
Broadcast(e) == waiting' = {c \in waiting : mine[c] # e}
-----------------------------------------------------------------------------
(* The part of fetcher_thread that makes room and the one that ends it *)

(* cache_evict_if_needed(needed): the test of its loop *)
EvictTest(e, needed) ==
  /\ fetcher[e] = "evict"
  /\ GoFetch(e, IF CACHE_MAX_BYTES - cache_used_bytes >= needed THEN "grow" ELSE "scan")
  /\ UNCHANGED <<cache, elock, waiting, received, pc, locals>>

(* Nobody's e->lock is held while complete and refcount are read. *)
Victims == {k \in 1 .. Len(cache_table) :
              entry[cache_table[k]].complete /\ entry[cache_table[k]].refcount = 0}

(* Mutant: the capacity of an evicted entry is subtracted twice. *)
RemoveCountsTwice(k) ==
  /\ cache_table' = SubSeq(cache_table, 1, k - 1) \o SubSeq(cache_table, k + 1, Len(cache_table))
  /\ cache_used_bytes' = cache_used_bytes - 2 * entry[cache_table[k]].capacity
  /\ freed' = freed \cup {cache_table[k]}
  /\ UNCHANGED <<tablelock, entry>>

(* The k-th entry of the list is unlinked, its room given back, and freed.   *)
cache_remove_entry(k) ==
  /\ cache_table' = SubSeq(cache_table, 1, k - 1) \o SubSeq(cache_table, k + 1, Len(cache_table))
  /\ cache_used_bytes' = cache_used_bytes - entry[cache_table[k]].capacity
  /\ freed' = freed \cup {cache_table[k]}
  /\ UNCHANGED <<tablelock, entry>>

(* The rest of the loop *)
EvictOne(e) ==
  /\ fetcher[e] = "scan" /\ tablelock = None
  /\ IF Victims = {} THEN GoFetch(e, "grow") /\ UNCHANGED cache
                     ELSE GoFetch(e, "evict") /\ cache_remove_entry(Min(Victims))
  /\ UNCHANGED <<elock, waiting, received, pc, locals>>

(* Mutant: the fetcher ends without a broadcast. *)
FinishSilently(e) ==
  /\ fetcher[e] = "signal"
  /\ Unlock(e)
  /\ GoFetch(e, "exit")
  /\ UNCHANGED <<cache, waiting, received, pc, locals>>

(* complete has been set; e->lock is still held. *)
Finish(e) ==
  /\ fetcher[e] = "signal"
  /\ Broadcast(e)
  /\ Unlock(e)
  /\ GoFetch(e, "exit")
  /\ UNCHANGED <<cache, received, pc, locals>>
-----------------------------------------------------------------------------
(* The parts of client_thread that find, make and leave an entry *)

Hits(u) == {k \in 1 .. Len(cache_table) : entry[cache_table[k]].url = u}

(* cache_lookup finds the first entry for the url and reads its refcount. *)
Lookup(c) ==
  /\ pc[c] = "request" /\ tablelock = None
  /\ IF Hits(url[c]) = {}
       THEN Go(c, "miss") /\ UNCHANGED <<tablelock, mine, reg>>
       ELSE LET e == cache_table[Min(Hits(url[c]))]
            IN /\ tablelock' = c
               /\ mine' = [mine EXCEPT ![c] = e]
               /\ reg' = [reg EXCEPT ![c] = entry[e].refcount]
               /\ Go(c, "hit")
  /\ UNCHANGED <<cache_table, cache_used_bytes, entry, freed, elock, waiting, fetch, url, offset,
                 outcome>>

CountReference(c) ==
  /\ pc[c] = "hit"
  /\ entry' = [entry EXCEPT ![mine[c]].refcount = reg[c] + 1]
  /\ tablelock' = None
  /\ reg' = [reg EXCEPT ![c] = 0]
  /\ Go(c, "loop")
  /\ UNCHANGED <<cache_table, cache_used_bytes, freed, elock, waiting, fetch, url, mine, offset,
                 outcome>>

(* Which unused block calloc returns makes no difference. *)
NewEntry == CHOOSE e \in Entry : entry[e].url = None

(* Mutant: the new entry is made without a reference. *)
InsertUncounted(c, from) ==
  /\ pc[c] = from /\ tablelock = None
  /\ entry' = [entry EXCEPT ![NewEntry] = [Unused EXCEPT !.url = url[c], !.cacheable = TRUE]]
  /\ cache_table' = <<NewEntry>> \o cache_table
  /\ mine' = [mine EXCEPT ![c] = NewEntry]
  /\ GoFetch(NewEntry, "recv")
  /\ Go(c, "loop")
  /\ UNCHANGED <<cache_used_bytes, tablelock, freed, elock, waiting, received, url, offset, reg, outcome>>

(* A new entry at the head of the list, and a fetcher for it *)
Insert(c, from) ==
  /\ pc[c] = from /\ tablelock = None
  /\ entry' = [entry EXCEPT ![NewEntry] = [Unused EXCEPT !.url = url[c], !.cacheable = TRUE,
                                                         !.refcount = 1]]
  /\ cache_table' = <<NewEntry>> \o cache_table
  /\ mine' = [mine EXCEPT ![c] = NewEntry]
  /\ GoFetch(NewEntry, "recv")
  /\ Go(c, "loop")
  /\ UNCHANGED <<cache_used_bytes, tablelock, freed, elock, waiting, received, url, offset, reg, outcome>>

DropLoad(c) ==
  /\ pc[c] = "leave"
  /\ Lock(mine[c], c)
  /\ reg' = [reg EXCEPT ![c] = entry[mine[c]].refcount]
  /\ Go(c, "drop")
  /\ UNCHANGED <<cache, waiting, fetch, url, mine, offset, outcome>>

DropReference(c, next) ==
  /\ pc[c] = "drop"
  /\ entry' = [entry EXCEPT ![mine[c]].refcount = reg[c] - 1]
  /\ reg' = [reg EXCEPT ![c] = 0]
  /\ Unlock(mine[c])
  /\ outcome' = [outcome EXCEPT ![c] = IF @ = "none" THEN "cached" ELSE @]
  /\ Go(c, next)
  /\ UNCHANGED <<cache_table, cache_used_bytes, tablelock, freed, waiting, fetch, url, mine, offset>>
-----------------------------------------------------------------------------
TypeOK ==
  /\ cache_table \in Seq(Entry)
  /\ cache_used_bytes \in Nat
  /\ tablelock \in Clients \cup {None}
  /\ entry \in [Entry -> [url : Urls \cup {None}, size : Nat, capacity : Nat,
                          complete : BOOLEAN, cacheable : BOOLEAN, refcount : Int]]
  /\ freed \subseteq Entry /\ waiting \subseteq Clients
  /\ \A e \in Entry : elock[e] \in Clients \cup {e, None}
  /\ fetcher \in [Entry -> {"none", "recv", "refuse", "lock", "evict", "scan", "grow", "store",
                            "body", "more", "done", "signal", "exit"}]
  /\ received \in [Entry -> Nat]
  /\ pc \in [Clients -> {"request", "hit", "miss", "insert", "loop", "block", "waiting", "send",
                         "sent", "stream", "leave", "drop", "direct", "closed"}]
  /\ url \in [Clients -> Urls]
  /\ mine \in [Clients -> Entry \cup {None}]
  /\ offset \in [Clients -> Nat] /\ reg \in [Clients -> Int]
  /\ outcome \in [Clients -> {"none", "cached", "direct", "broken"}]

(* The cache never holds more than its limit, although fetchers take room and *)
(* evict entries at the same time.                                           *)
UsedWithinLimit == cache_used_bytes \in 0 .. CACHE_MAX_BYTES

(* cache_used_bytes is the sum of the capacities of the entries in the table, *)
(* which are exactly those inserted and not yet evicted.                     *)
UsedIsAccounted ==
  /\ cache_used_bytes = SumFunctionOnSet([e \in Entry |-> entry[e].capacity], Range(cache_table))
  /\ Range(cache_table) = {e \in Entry : entry[e].url # None} \ freed

(* A client served from an entry that stayed cacheable has been sent all that *)
(* was received, however its waits and sends interleave with the fetcher; a   *)
(* server that sends more than it promised is cut off.                        *)
ServedWhole ==
  \A c \in Clients : LET e == mine[c] IN
    outcome[c] = "cached" /\ entry[e].cacheable /\ received[e] <= entry[e].capacity =>
      entry[e].complete /\ offset[c] = received[e]

(* An entry that only one client has ever used is not evicted while that     *)
(* client uses it (two clients may lose an update of refcount).              *)
OwnEntryStays ==
  \A c \in Clients : mine[c] \in freed /\ (\A d \in Clients \ {c} : mine[d] # mine[c]) =>
    pc[c] \in {"direct", "closed"}
=============================================================================
