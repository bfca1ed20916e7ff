----------------------------- MODULE StreamProxy -----------------------------
(***************************************************************************)
(* The caching proxy of src/proxy/main.c: an entry grows while its answer  *)
(* arrives, and its clients are sent each part of it as it is stored.      *)
(* Who reads a buffer that realloc has moved is not modelled.              *)
(***************************************************************************)
EXTENDS ProxyCache

CONSTANTS Length,           \* bound: chunks in the longest answer of the server
          FirstCapacity     \* the capacity an entry starts with (16384 bytes), in chunks

Init == CacheInit
-----------------------------------------------------------------------------
(* fetcher_thread *)

(* The server sends a chunk, or the connection fails, ends or never came up. *)
Recv(e) ==
  /\ fetcher[e] = "recv"
  /\ \/ /\ received[e] < Length
        /\ received' = [received EXCEPT ![e] = @ + 1]
        /\ GoFetch(e, "lock")
     \/ GoFetch(e, "done") /\ UNCHANGED received
  /\ UNCHANGED <<cache, elock, waiting, pc, locals>>

LockEntry(e) ==
  /\ fetcher[e] = "lock"
  /\ Lock(e, e)
  /\ GoFetch(e, IF entry[e].cacheable /\ entry[e].size + 1 > entry[e].capacity
                  THEN "evict" ELSE "store")
  /\ UNCHANGED <<cache, waiting, received, pc, locals>>

NewCapacity(e) == IF entry[e].capacity = 0 THEN FirstCapacity ELSE 2 * entry[e].capacity
Growth(e) == NewCapacity(e) - entry[e].capacity

(* Mutant: the fetcher relies on the eviction and does not test the limit again. *)
GrowUnchecked(e) ==
  /\ fetcher[e] = "grow"
  /\ cache_used_bytes' = cache_used_bytes + Growth(e)
  /\ entry' = [entry EXCEPT ![e].capacity = NewCapacity(e)]
  /\ GoFetch(e, "store")
  /\ UNCHANGED <<cache_table, tablelock, freed, elock, waiting, received, pc, locals>>

(* Under cache_mem_lock: take the room, or give up caching this entry. *)
Grow(e) ==
  /\ fetcher[e] = "grow"
  /\ IF cache_used_bytes + Growth(e) <= CACHE_MAX_BYTES
       THEN /\ cache_used_bytes' = cache_used_bytes + Growth(e)
            /\ entry' = [entry EXCEPT ![e].capacity = NewCapacity(e)]
       ELSE /\ cache_used_bytes' = cache_used_bytes - entry[e].capacity
            /\ entry' = [entry EXCEPT ![e].cacheable = FALSE, ![e].size = 0, ![e].capacity = 0]
  /\ GoFetch(e, "store")
  /\ UNCHANGED <<cache_table, tablelock, freed, elock, waiting, received, pc, locals>>

Store(e) ==
  /\ fetcher[e] = "store"
  /\ entry' = IF entry[e].cacheable THEN [entry EXCEPT ![e].size = @ + 1] ELSE entry
  /\ Broadcast(e)
  /\ Unlock(e)
  /\ GoFetch(e, "recv")
  /\ UNCHANGED <<cache_table, cache_used_bytes, tablelock, freed, received, pc, locals>>

Complete(e) ==
  /\ fetcher[e] = "done"
  /\ Lock(e, e)
  /\ entry' = [entry EXCEPT ![e].complete = TRUE]
  /\ GoFetch(e, "signal")
  /\ UNCHANGED <<cache_table, cache_used_bytes, tablelock, freed, waiting, received, pc, locals>>

Fetcher(e) ==
  \/ Recv(e) \/ LockEntry(e) \/ EvictTest(e, Growth(e)) \/ EvictOne(e) \/ Grow(e) \/ Store(e)
  \/ Complete(e) \/ Finish(e)
-----------------------------------------------------------------------------
(* client_thread *)

(* Is there any room left in the cache? *)
TestSpace(c) ==
  /\ pc[c] = "miss"
  /\ Go(c, IF cache_used_bytes < CACHE_MAX_BYTES THEN "insert" ELSE "direct")
  /\ UNCHANGED <<cache, elock, waiting, fetch, locals>>

(* Mutant: a client that has sent all there is does not wait for more. *)
MustWaitOffByOne(c) == ~entry[mine[c]].complete /\ offset[c] > entry[mine[c]].size

MustWait(c) == ~entry[mine[c]].complete /\ offset[c] >= entry[mine[c]].size

(* The inner while, the test of avail and that of done.  avail wraps round    *)
(* when size has been reset behind offset, and is then not 0 either.         *)
WaitOrSend(c) ==
  /\ IF MustWait(c)
       THEN waiting' = waiting \cup {c} /\ Go(c, "waiting") /\ UNCHANGED reg
       ELSE /\ reg' = [reg EXCEPT ![c] = entry[mine[c]].size - offset[c]]
            /\ Go(c, IF reg'[c] # 0 THEN "send" ELSE "leave")
            /\ UNCHANGED waiting
  /\ UNCHANGED <<cache, elock, fetch, url, mine, offset, outcome>>

(* The top of the loop, where a client without data may give up on the cache. *)
LoopTop(c) ==
  /\ pc[c] = "loop" /\ IsFree(mine[c])
  /\ \/ /\ ~entry[mine[c]].cacheable /\ ~entry[mine[c]].complete /\ offset[c] = 0
        /\ outcome' = [outcome EXCEPT ![c] = "direct"]
        /\ Go(c, "leave")
        /\ UNCHANGED <<cache, elock, waiting, fetch, url, mine, offset, reg>>
     \/ /\ entry[mine[c]].cacheable \/ entry[mine[c]].complete \/ offset[c] > 0
        /\ WaitOrSend(c)

Woken(c) ==
  /\ pc[c] = "waiting" /\ c \notin waiting /\ IsFree(mine[c])
  /\ WaitOrSend(c)

(* send_all reads e->data with no lock held: NULL or a gone client make it fail. *)
Send(c) ==
  /\ pc[c] = "send"
  /\ \/ /\ reg[c] > 0 /\ entry[mine[c]].capacity > 0
        /\ offset' = [offset EXCEPT ![c] = @ + reg[c]]
        /\ Go(c, "loop")
        /\ UNCHANGED outcome
     \/ /\ outcome' = [outcome EXCEPT ![c] = "broken"]
        /\ Go(c, "leave")
        /\ UNCHANGED offset
  /\ reg' = [reg EXCEPT ![c] = 0]
  /\ UNCHANGED <<cache, elock, waiting, fetch, url, mine>>

DirectFetch(c) ==
  /\ pc[c] = "direct"
  /\ outcome' = [outcome EXCEPT ![c] = "direct"]
  /\ Go(c, "closed")
  /\ UNCHANGED <<cache, elock, waiting, fetch, url, mine, offset, reg>>

Client(c) ==
  \/ Lookup(c) \/ CountReference(c) \/ TestSpace(c) \/ Insert(c, "insert") \/ LoopTop(c)
  \/ Woken(c) \/ Send(c) \/ DropLoad(c) \/ DirectFetch(c)
  \/ DropReference(c, IF outcome[c] = "direct" THEN "direct" ELSE "closed")

Next == (\E c \in Clients : Client(c)) \/ (\E e \in Entry : Fetcher(e))

Spec == Init /\ [][Next]_cacheVars
-----------------------------------------------------------------------------
(* A client that finds caching disabled and has no data goes over to the     *)
(* direct fetch (main.c:469).                                                *)
DirectWhenDisabled ==
  \A c \in Clients : outcome[c] = "cached" /\ offset[c] = 0 => entry[mine[c]].cacheable
=============================================================================
