----------------------------- MODULE HeaderProxy -----------------------------
(***************************************************************************)
(* The caching proxies of src/proxy/main1.c and main2.c, which read the    *)
(* length of the answer in its headers, take room for all of it at once    *)
(* and cache no other answers.  main1.c handles the headers without        *)
(* e->lock and sends an answer on while it arrives; main2.c holds e->lock  *)
(* over the headers and sends an answer when it is complete.               *)
(* The headers are one chunk.  A recv and the lock its handling takes are  *)
(* one step: what recv changes is the fetcher's own.  Lines are main1.c's. *)
(***************************************************************************)
EXTENDS ProxyCache

CONSTANT Program            \* "main1" or "main2"

VARIABLE total_size         \* of each fetcher: headers and Content-Length, in chunks

vars == <<cacheVars, total_size>>

Init == CacheInit /\ total_size = [e \in Entry |-> 0]

HoldsLock == Program = "main2"  \* while it handles the headers
-----------------------------------------------------------------------------
(* fetcher_thread *)

(* The url or the connection is bad, or the headers give no length, are too  *)
(* long for the buffer or promise more than the cache could ever hold.       *)
GiveUp(e) ==
  /\ fetcher[e] = "recv"
  /\ GoFetch(e, "refuse")
  /\ UNCHANGED <<cache, elock, waiting, received, pc, locals, total_size>>

(* The connection ends before the headers do, or malloc fails for their copy: *)
(* the entry stays cacheable, without data.                                  *)
NoHeaders(e) ==
  /\ fetcher[e] = "recv"
  /\ GoFetch(e, "done")
  /\ UNCHANGED <<cache, elock, waiting, received, pc, locals, total_size>>

(* recv has returned the headers and perhaps some chunks of the body; one    *)
(* chunk too many stands for any number of them.                             *)
Headers(e) ==
  /\ fetcher[e] = "recv"
  /\ \E t \in 2 .. CACHE_MAX_BYTES : \E r \in 1 .. t + 1 :
       /\ total_size' = [total_size EXCEPT ![e] = t]
       /\ received' = [received EXCEPT ![e] = r]
  /\ GoFetch(e, "evict")
  /\ IF HoldsLock THEN Lock(e, e) ELSE UNCHANGED elock
  /\ UNCHANGED <<cache, waiting, pc, locals>>

(* total_size is not used any more. *)
LeaveHeaders(e) ==
  /\ total_size' = [total_size EXCEPT ![e] = 0]
  /\ IF HoldsLock THEN Unlock(e) ELSE UNCHANGED elock

(* Under cache_mem_lock: take the room and store the headers. *)
TakeRoom(e) ==
  /\ fetcher[e] = "grow" /\ cache_used_bytes + total_size[e] <= CACHE_MAX_BYTES
  /\ cache_used_bytes' = cache_used_bytes + total_size[e]
  /\ entry' = [entry EXCEPT ![e].capacity = total_size[e], ![e].size = 1]
  /\ GoFetch(e, "body")
  /\ LeaveHeaders(e)
  /\ UNCHANGED <<cache_table, tablelock, freed, waiting, received, pc, locals>>

(* There is no room, or malloc fails. *)
NoRoom(e) ==
  /\ fetcher[e] = "grow"
  /\ entry' = [entry EXCEPT ![e].cacheable = FALSE]
  /\ GoFetch(e, "refuse")
  /\ LeaveHeaders(e)
  /\ UNCHANGED <<cache_table, cache_used_bytes, tablelock, freed, waiting, received, pc, locals>>

(* The entry will not be cached.  Nobody looks at cacheable before complete  *)
(* is set, so the two are assigned in one step.                              *)
Refuse(e) ==
  /\ fetcher[e] = "refuse"
  /\ Lock(e, e)
  /\ entry' = [entry EXCEPT ![e].cacheable = FALSE, ![e].complete = TRUE]
  /\ GoFetch(e, "signal")
  /\ UNCHANGED <<cache_table, cache_used_bytes, tablelock, freed, waiting, received, pc, locals,
                 total_size>>

(* The part of the body that came with the headers is stored, or dropped     *)
(* when it is longer than the answer should be.                              *)
BodyPart(e) ==
  /\ fetcher[e] = "body"
  /\ HoldsLock => IsFree(e)
  /\ IF received[e] \in entry[e].size + 1 .. entry[e].capacity
       THEN entry' = [entry EXCEPT ![e].size = received[e]] /\ Broadcast(e)
       ELSE UNCHANGED <<entry, waiting>>
  /\ GoFetch(e, "more")
  /\ UNCHANGED <<cache_table, cache_used_bytes, tablelock, freed, elock, received, pc, locals,
                 total_size>>

Room(e) == entry[e].capacity - entry[e].size

(* Some chunks are stored. *)
StoreChunk(e) ==
  /\ fetcher[e] = "more" /\ IsFree(e)
  /\ \E r \in 1 .. Room(e) :
       /\ received' = [received EXCEPT ![e] = @ + r]
       /\ entry' = [entry EXCEPT ![e].size = @ + r]
  /\ Broadcast(e)
  /\ UNCHANGED <<cache_table, cache_used_bytes, tablelock, freed, elock, fetcher, pc, locals,
                 total_size>>

(* More has come than there is room for. *)
TooMuch(e) ==
  /\ fetcher[e] = "more" /\ IsFree(e) /\ Room(e) > 0
  /\ entry' = [entry EXCEPT ![e].cacheable = FALSE]
  /\ Broadcast(e)
  /\ GoFetch(e, "done")
  /\ UNCHANGED <<cache_table, cache_used_bytes, tablelock, freed, elock, received, pc, locals,
                 total_size>>

(* The answer is all there, or the connection has ended or failed. *)
EndReceive(e) ==
  /\ fetcher[e] = "more"
  /\ GoFetch(e, "done")
  /\ UNCHANGED <<cache, elock, waiting, received, pc, locals, total_size>>

IsShort(e) == entry[e].cacheable /\ Room(e) > 0

(* Mutant: a short answer loses its data and keeps its room. *)
CloseKeepsRoom(e) ==
  /\ fetcher[e] = "done"
  /\ Lock(e, e)
  /\ IF IsShort(e)
       THEN entry' = [entry EXCEPT ![e].cacheable = FALSE, ![e].complete = TRUE,
                                   ![e].size = 0, ![e].capacity = 0]
       ELSE entry' = [entry EXCEPT ![e].complete = TRUE]
  /\ GoFetch(e, "signal")
  /\ UNCHANGED <<cache_table, cache_used_bytes, tablelock, freed, waiting, received, pc, locals,
                 total_size>>

(* A short answer loses its data and its room. *)
Close(e) ==
  /\ fetcher[e] = "done"
  /\ Lock(e, e)
  /\ IF IsShort(e)
       THEN /\ cache_used_bytes' = cache_used_bytes - entry[e].capacity
            /\ entry' = [entry EXCEPT ![e].cacheable = FALSE, ![e].complete = TRUE,
                                      ![e].size = 0, ![e].capacity = 0]
       ELSE /\ entry' = [entry EXCEPT ![e].complete = TRUE]
            /\ UNCHANGED cache_used_bytes
  /\ GoFetch(e, "signal")
  /\ UNCHANGED <<cache_table, tablelock, freed, waiting, received, pc, locals, total_size>>

Fetcher(e) ==
  \/ GiveUp(e) \/ NoHeaders(e) \/ Headers(e) \/ TakeRoom(e) \/ NoRoom(e) \/ Refuse(e)
  \/ BodyPart(e) \/ StoreChunk(e) \/ TooMuch(e) \/ EndReceive(e) \/ Close(e)
  \/ UNCHANGED total_size /\ (EvictTest(e, total_size[e]) \/ EvictOne(e) \/ Finish(e))
-----------------------------------------------------------------------------
(* client_thread *)

(* Mutant: main2.c waits as main1.c does. *)
MustWaitForData(c) == ~entry[mine[c]].complete /\ entry[mine[c]].size <= offset[c]

MustWait(c) ==
  /\ ~entry[mine[c]].complete
  /\ Program = "main1" => entry[mine[c]].size <= offset[c]

(* Mutant: a client does not look whether the entry was refused. *)
LoopIgnoresRefusal(c) ==
  /\ IF MustWait(c)
       THEN Lock(mine[c], c) /\ Go(c, "block") /\ UNCHANGED reg
       ELSE /\ Go(c, IF offset[c] < entry[mine[c]].size THEN "send" ELSE "leave")
            /\ reg' = [reg EXCEPT ![c] = entry[mine[c]].size - offset[c]]
            /\ UNCHANGED elock
  /\ UNCHANGED <<cache, waiting, fetch, url, mine, offset, outcome>>

(* The body of the loop with e->lock held.  The fetcher of main1.c may store *)
(* data without the lock between the test and pthread_cond_wait.             *)
Loop(c) ==
  /\ IF MustWait(c)
       THEN Lock(mine[c], c) /\ Go(c, "block") /\ UNCHANGED <<reg, outcome>>
       ELSE LET e == entry[mine[c]]
                refused == e.complete /\ ~e.cacheable
            IN /\ Go(c, IF refused THEN "stream" ELSE IF offset[c] < e.size THEN "send" ELSE "leave")
               /\ outcome' = IF refused THEN [outcome EXCEPT ![c] = "direct"] ELSE outcome
               /\ reg' = [reg EXCEPT ![c] = IF refused THEN @ ELSE e.size - offset[c]]
               /\ UNCHANGED elock
  /\ UNCHANGED <<cache, waiting, fetch, url, mine, offset>>

LoopTop(c) == pc[c] = "loop" /\ IsFree(mine[c]) /\ Loop(c)

Block(c) ==
  /\ pc[c] = "block"
  /\ waiting' = waiting \cup {c}
  /\ Unlock(mine[c])
  /\ Go(c, "waiting")
  /\ UNCHANGED <<cache, fetch, locals>>

Woken(c) == pc[c] = "waiting" /\ c \notin waiting /\ IsFree(mine[c]) /\ Loop(c)

(* send_all with no lock held, from a pointer taken under it; it fails when  *)
(* the client is gone or the data has been freed meanwhile.                  *)
Send(c) ==
  /\ pc[c] = "send"
  /\ \/ /\ offset' = [offset EXCEPT ![c] = @ + reg[c]]
        /\ Go(c, "sent")
        /\ UNCHANGED outcome
     \/ /\ outcome' = [outcome EXCEPT ![c] = "broken"]
        /\ Go(c, "leave")
        /\ UNCHANGED offset
  /\ reg' = [reg EXCEPT ![c] = 0]
  /\ UNCHANGED <<cache, elock, waiting, fetch, url, mine>>

(* The lock is taken again: is the download complete and all of it sent? *)
AfterSend(c) ==
  /\ pc[c] = "sent" /\ IsFree(mine[c])
  /\ IF entry[mine[c]].complete /\ offset[c] >= entry[mine[c]].size
       THEN Go(c, "leave") /\ UNCHANGED <<cache, elock, waiting, fetch, locals>>
       ELSE Loop(c)

StreamDirectly(c) ==
  /\ pc[c] = "stream"
  /\ Go(c, "leave")
  /\ UNCHANGED <<cache, elock, waiting, fetch, locals>>

Client(c) ==
  /\ UNCHANGED total_size
  /\ \/ Lookup(c) \/ CountReference(c) \/ Insert(c, "miss") \/ LoopTop(c) \/ Block(c) \/ Woken(c)
     \/ Send(c) \/ AfterSend(c) \/ StreamDirectly(c) \/ DropLoad(c) \/ DropReference(c, "closed")

Next == (\E c \in Clients : Client(c)) \/ (\E e \in Entry : Fetcher(e))

Spec == Init /\ [][Next]_vars
=============================================================================
