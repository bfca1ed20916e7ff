----------------------------- MODULE ProxyProofs -----------------------------
(***************************************************************************)
(* What the three proxies promise for any number of clients, urls and      *)
(* blocks for entries, any size of the cache and any length of an answer:  *)
(* Inv of ProxyInvariant holds in every reachable state.                   *)
(*                                                                         *)
(* A step of a fetcher changes its own entry and perhaps the list; a step  *)
(* of a client changes its own locals, the reference count of its entry    *)
(* and locks it takes or gives back, but for the insertion of an entry.    *)
(* FetchEffect and ServeEffect say so, so that what is kept for all the    *)
(* others is shown once and not for each action.  The room in use is a sum *)
(* over the list; ListTheorems says how a sum changes with its set.        *)
(***************************************************************************)
EXTENDS ProxyInvariant, ListTheorems

(* main1.c and main2.c are instances of the same module; what they share is  *)
(* shown for both at once.                                                   *)
Header(p) == INSTANCE HeaderProxy WITH Program <- p

(* Where control goes, the locks and the groups of variables; all steps use  *)
(* them.                                                                     *)
USE DEF Go, GoFetch, IsFree, Lock, Unlock, Broadcast, cache, fetch, locals, cacheVars, Main!Go,
        Main!GoFetch, Main!IsFree, Main!Lock, Main!Unlock, Main!Broadcast, Main!cache, Main!fetch,
        Main!locals, Main!cacheVars, Main1!cacheVars, Main2!cacheVars, Main1!cache, Main1!fetch,
        Main1!locals, Main2!cache, Main2!fetch, Main2!locals, Main1!Go, Main1!GoFetch,
        Main1!IsFree, Main1!Lock, Main1!Unlock, Main1!Broadcast, Main2!Go, Main2!GoFetch,
        Main2!IsFree, Main2!Lock, Main2!Unlock, Main2!Broadcast, Header!Go, Header!GoFetch,
        Header!IsFree, Header!Lock, Header!Unlock, Header!Broadcast, Header!cache, Header!fetch,
        Header!locals, Header!cacheVars
-----------------------------------------------------------------------------
(* The steps of a client and of a fetcher that the programs share ...        *)
ClientStep(c) ==
  \/ Lookup(c) \/ CountReference(c) \/ DropLoad(c)
  \/ Insert(c, IF program = "main" THEN "insert" ELSE "miss")
  \/ DropReference(c, IF program = "main" /\ outcome[c] = "direct" THEN "direct" ELSE "closed")

FetcherStep(e) == (\E needed : EvictTest(e, needed)) \/ EvictOne(e) \/ Finish(e)

(* ... those that are main.c's own ...                                       *)
MainClient(c) ==
  \/ Main!TestSpace(c) \/ Main!LoopTop(c) \/ Main!Woken(c) \/ Main!Send(c)
  \/ Main!DirectFetch(c)

MainFetcher(e) ==
  \/ Main!Recv(e) \/ Main!LockEntry(e) \/ Main!Grow(e) \/ Main!Store(e)
  \/ Main!Complete(e)

(* ... and those of the other two.                                           *)
HeaderClient(p, c) ==
  \/ Header(p)!LoopTop(c) \/ Header(p)!Block(c) \/ Header(p)!Woken(c)
  \/ Header(p)!Send(c) \/ Header(p)!AfterSend(c) \/ Header(p)!StreamDirectly(c)

HeaderFetcher(p, e) ==
  \/ Header(p)!GiveUp(e) \/ Header(p)!NoHeaders(e) \/ Header(p)!Headers(e)
  \/ Header(p)!TakeRoom(e) \/ Header(p)!NoRoom(e) \/ Header(p)!Refuse(e)
  \/ Header(p)!BodyPart(e) \/ Header(p)!StoreChunk(e) \/ Header(p)!TooMuch(e)
  \/ Header(p)!EndReceive(e) \/ Header(p)!Close(e)

(* The shared steps of main.c are those of ProxyCache.                       *)
LEMMA SharedMain ==
  ASSUME NEW c, NEW e, NEW l, NEW n
  PROVE  /\ Main!Lookup(c) => Lookup(c)
         /\ Main!CountReference(c) => CountReference(c)
         /\ Main!DropLoad(c) => DropLoad(c)
         /\ Main!Insert(c, l) => Insert(c, l)
         /\ Main!DropReference(c, l) => DropReference(c, l)
         /\ Main!EvictTest(e, n) => EvictTest(e, n)
         /\ Main!EvictOne(e) => EvictOne(e)
         /\ Main!Finish(e) => Finish(e)
<1>1. ASSUME NEW S PROVE Main!Min(S) = Min(S)
  BY DEF Main!Min, Min
<1>2. Main!Victims = Victims /\ \A u : Main!Hits(u) = Hits(u)
  BY DEF Main!Victims, Victims, Main!Hits, Hits
<1>3. Main!NewEntry = NewEntry /\ Main!Unused = Unused
  BY DEF Main!NewEntry, NewEntry, Main!Unused, Unused
<1>4. Main!Lookup(c) => Lookup(c)
  BY <1>1, <1>2 DEF Main!Lookup, Lookup
<1>5. Main!Insert(c, l) => Insert(c, l)
  BY <1>3 DEF Main!Insert, Insert
<1>6. Main!EvictOne(e) => EvictOne(e)
  BY <1>1, <1>2 DEF Main!EvictOne, EvictOne, Main!cache_remove_entry, cache_remove_entry
<1>7. /\ Main!CountReference(c) => CountReference(c)
      /\ Main!DropLoad(c) => DropLoad(c)
      /\ Main!DropReference(c, l) => DropReference(c, l)
  BY DEF Main!CountReference, CountReference, Main!DropLoad, DropLoad, Main!DropReference,
         DropReference
<1>8. /\ Main!EvictTest(e, n) => EvictTest(e, n)
      /\ Main!Finish(e) => Finish(e)
  BY DEF Main!EvictTest, EvictTest, Main!Finish, Finish
<1> QED
  BY <1>4, <1>5, <1>6, <1>7, <1>8

(* So are those of main1.c ...                                               *)
LEMMA SharedMain1 ==
  ASSUME NEW c, NEW e, NEW l, NEW n
  PROVE  /\ Main1!Lookup(c) => Lookup(c)
         /\ Main1!CountReference(c) => CountReference(c)
         /\ Main1!DropLoad(c) => DropLoad(c)
         /\ Main1!Insert(c, l) => Insert(c, l)
         /\ Main1!DropReference(c, l) => DropReference(c, l)
         /\ Main1!EvictTest(e, n) => EvictTest(e, n)
         /\ Main1!EvictOne(e) => EvictOne(e)
         /\ Main1!Finish(e) => Finish(e)
<1>1. ASSUME NEW S PROVE Main1!Min(S) = Min(S)
  BY DEF Main1!Min, Min
<1>2. Main1!Victims = Victims /\ \A u : Main1!Hits(u) = Hits(u)
  BY DEF Main1!Victims, Victims, Main1!Hits, Hits
<1>3. Main1!NewEntry = NewEntry /\ Main1!Unused = Unused
  BY DEF Main1!NewEntry, NewEntry, Main1!Unused, Unused
<1>4. Main1!Lookup(c) => Lookup(c)
  BY <1>1, <1>2 DEF Main1!Lookup, Lookup
<1>5. Main1!Insert(c, l) => Insert(c, l)
  BY <1>3 DEF Main1!Insert, Insert
<1>6. Main1!EvictOne(e) => EvictOne(e)
  BY <1>1, <1>2 DEF Main1!EvictOne, EvictOne, Main1!cache_remove_entry, cache_remove_entry
<1>7. /\ Main1!CountReference(c) => CountReference(c)
      /\ Main1!DropLoad(c) => DropLoad(c)
      /\ Main1!DropReference(c, l) => DropReference(c, l)
  BY DEF Main1!CountReference, CountReference, Main1!DropLoad, DropLoad, Main1!DropReference,
         DropReference
<1>8. /\ Main1!EvictTest(e, n) => EvictTest(e, n)
      /\ Main1!Finish(e) => Finish(e)
  BY DEF Main1!EvictTest, EvictTest, Main1!Finish, Finish
<1> QED
  BY <1>4, <1>5, <1>6, <1>7, <1>8

(* ... and of main2.c.                                                       *)
LEMMA SharedMain2 ==
  ASSUME NEW c, NEW e, NEW l, NEW n
  PROVE  /\ Main2!Lookup(c) => Lookup(c)
         /\ Main2!CountReference(c) => CountReference(c)
         /\ Main2!DropLoad(c) => DropLoad(c)
         /\ Main2!Insert(c, l) => Insert(c, l)
         /\ Main2!DropReference(c, l) => DropReference(c, l)
         /\ Main2!EvictTest(e, n) => EvictTest(e, n)
         /\ Main2!EvictOne(e) => EvictOne(e)
         /\ Main2!Finish(e) => Finish(e)
<1>1. ASSUME NEW S PROVE Main2!Min(S) = Min(S)
  BY DEF Main2!Min, Min
<1>2. Main2!Victims = Victims /\ \A u : Main2!Hits(u) = Hits(u)
  BY DEF Main2!Victims, Victims, Main2!Hits, Hits
<1>3. Main2!NewEntry = NewEntry /\ Main2!Unused = Unused
  BY DEF Main2!NewEntry, NewEntry, Main2!Unused, Unused
<1>4. Main2!Lookup(c) => Lookup(c)
  BY <1>1, <1>2 DEF Main2!Lookup, Lookup
<1>5. Main2!Insert(c, l) => Insert(c, l)
  BY <1>3 DEF Main2!Insert, Insert
<1>6. Main2!EvictOne(e) => EvictOne(e)
  BY <1>1, <1>2 DEF Main2!EvictOne, EvictOne, Main2!cache_remove_entry, cache_remove_entry
<1>7. /\ Main2!CountReference(c) => CountReference(c)
      /\ Main2!DropLoad(c) => DropLoad(c)
      /\ Main2!DropReference(c, l) => DropReference(c, l)
  BY DEF Main2!CountReference, CountReference, Main2!DropLoad, DropLoad, Main2!DropReference,
         DropReference
<1>8. /\ Main2!EvictTest(e, n) => EvictTest(e, n)
      /\ Main2!Finish(e) => Finish(e)
  BY DEF Main2!EvictTest, EvictTest, Main2!Finish, Finish
<1> QED
  BY <1>4, <1>5, <1>6, <1>7, <1>8

(* The steps of main1.c's own are those of Header ...                        *)
LEMMA OwnMain1 ==
  ASSUME NEW c, NEW e
  PROVE  /\ Main1!GiveUp(e) => Header("main1")!GiveUp(e)
         /\ Main1!NoHeaders(e) => Header("main1")!NoHeaders(e)
         /\ Main1!Headers(e) => Header("main1")!Headers(e)
         /\ Main1!TakeRoom(e) => Header("main1")!TakeRoom(e)
         /\ Main1!NoRoom(e) => Header("main1")!NoRoom(e)
         /\ Main1!Refuse(e) => Header("main1")!Refuse(e)
         /\ Main1!BodyPart(e) => Header("main1")!BodyPart(e)
         /\ Main1!StoreChunk(e) => Header("main1")!StoreChunk(e)
         /\ Main1!TooMuch(e) => Header("main1")!TooMuch(e)
         /\ Main1!EndReceive(e) => Header("main1")!EndReceive(e)
         /\ Main1!Close(e) => Header("main1")!Close(e)
         /\ Main1!LoopTop(c) => Header("main1")!LoopTop(c)
         /\ Main1!Block(c) => Header("main1")!Block(c)
         /\ Main1!Woken(c) => Header("main1")!Woken(c)
         /\ Main1!Send(c) => Header("main1")!Send(c)
         /\ Main1!AfterSend(c) => Header("main1")!AfterSend(c)
         /\ Main1!StreamDirectly(c) => Header("main1")!StreamDirectly(c)
BY DEF Main1!GiveUp, Header!GiveUp, Main1!NoHeaders, Header!NoHeaders, Main1!Headers,
       Header!Headers, Main1!TakeRoom, Header!TakeRoom, Main1!NoRoom, Header!NoRoom, Main1!Refuse,
       Header!Refuse, Main1!BodyPart, Header!BodyPart, Main1!StoreChunk, Header!StoreChunk,
       Main1!TooMuch, Header!TooMuch, Main1!EndReceive, Header!EndReceive, Main1!Close,
       Header!Close, Main1!LoopTop, Header!LoopTop, Main1!Block, Header!Block, Main1!Woken,
       Header!Woken, Main1!Send, Header!Send, Main1!AfterSend, Header!AfterSend,
       Main1!StreamDirectly, Header!StreamDirectly, Main1!LeaveHeaders, Header!LeaveHeaders,
       Main1!HoldsLock, Header!HoldsLock, Main1!Room, Header!Room, Main1!IsShort, Header!IsShort,
       Main1!Loop, Header!Loop, Main1!MustWait, Header!MustWait

(* ... and so are main2.c's.                                                 *)
LEMMA OwnMain2 ==
  ASSUME NEW c, NEW e
  PROVE  /\ Main2!GiveUp(e) => Header("main2")!GiveUp(e)
         /\ Main2!NoHeaders(e) => Header("main2")!NoHeaders(e)
         /\ Main2!Headers(e) => Header("main2")!Headers(e)
         /\ Main2!TakeRoom(e) => Header("main2")!TakeRoom(e)
         /\ Main2!NoRoom(e) => Header("main2")!NoRoom(e)
         /\ Main2!Refuse(e) => Header("main2")!Refuse(e)
         /\ Main2!BodyPart(e) => Header("main2")!BodyPart(e)
         /\ Main2!StoreChunk(e) => Header("main2")!StoreChunk(e)
         /\ Main2!TooMuch(e) => Header("main2")!TooMuch(e)
         /\ Main2!EndReceive(e) => Header("main2")!EndReceive(e)
         /\ Main2!Close(e) => Header("main2")!Close(e)
         /\ Main2!LoopTop(c) => Header("main2")!LoopTop(c)
         /\ Main2!Block(c) => Header("main2")!Block(c)
         /\ Main2!Woken(c) => Header("main2")!Woken(c)
         /\ Main2!Send(c) => Header("main2")!Send(c)
         /\ Main2!AfterSend(c) => Header("main2")!AfterSend(c)
         /\ Main2!StreamDirectly(c) => Header("main2")!StreamDirectly(c)
BY DEF Main2!GiveUp, Header!GiveUp, Main2!NoHeaders, Header!NoHeaders, Main2!Headers,
       Header!Headers, Main2!TakeRoom, Header!TakeRoom, Main2!NoRoom, Header!NoRoom, Main2!Refuse,
       Header!Refuse, Main2!BodyPart, Header!BodyPart, Main2!StoreChunk, Header!StoreChunk,
       Main2!TooMuch, Header!TooMuch, Main2!EndReceive, Header!EndReceive, Main2!Close,
       Header!Close, Main2!LoopTop, Header!LoopTop, Main2!Block, Header!Block, Main2!Woken,
       Header!Woken, Main2!Send, Header!Send, Main2!AfterSend, Header!AfterSend,
       Main2!StreamDirectly, Header!StreamDirectly, Main2!LeaveHeaders, Header!LeaveHeaders,
       Main2!HoldsLock, Header!HoldsLock, Main2!Room, Header!Room, Main2!IsShort, Header!IsShort,
       Main2!Loop, Header!Loop, Main2!MustWait, Header!MustWait

(* A step of the system *)
Step ==
  /\ UNCHANGED program
  /\ \/ UNCHANGED total_size /\ \E c \in Clients : ClientStep(c)
     \/ UNCHANGED total_size /\ \E e \in Entry : FetcherStep(e)
     \/ program = "main" /\ UNCHANGED total_size /\ \E c \in Clients : MainClient(c)
     \/ program = "main" /\ UNCHANGED total_size /\ \E e \in Entry : MainFetcher(e)
     \/ \E p \in {"main1", "main2"} :
          program = p /\ UNCHANGED total_size /\ \E c \in Clients : HeaderClient(p, c)
     \/ \E p \in {"main1", "main2"} : program = p /\ \E e \in Entry : HeaderFetcher(p, e)

(* Every step of the system is one of these.                                 *)
LEMMA NextIsStep == Next => Step
<1> SUFFICES ASSUME Next PROVE Step
  OBVIOUS
<1>1. ASSUME NEW c \in Clients, Client(c) PROVE Step
  <2>1. CASE program = "main" /\ Main!Client(c) /\ UNCHANGED total_size
    BY <1>1, <2>1, SharedMain DEF Client, Main!Client, Step, ClientStep, MainClient
  <2>2. CASE program = "main1" /\ Main1!Client(c)
    BY <1>1, <2>2, SharedMain1, OwnMain1 DEF Client, Main1!Client, Step, ClientStep, HeaderClient
  <2>3. CASE program = "main2" /\ Main2!Client(c)
    BY <1>1, <2>3, SharedMain2, OwnMain2 DEF Client, Main2!Client, Step, ClientStep, HeaderClient
  <2> QED
    BY <1>1, <2>1, <2>2, <2>3 DEF Client
<1>2. ASSUME NEW e \in Entry, Fetcher(e) PROVE Step
  <2>1. CASE program = "main" /\ Main!Fetcher(e) /\ UNCHANGED total_size
    BY <1>2, <2>1, SharedMain DEF Fetcher, Main!Fetcher, Step, FetcherStep, MainFetcher
  <2>2. CASE program = "main1" /\ Main1!Fetcher(e)
    BY <1>2, <2>2, SharedMain1, OwnMain1
       DEF Fetcher, Main1!Fetcher, Step, FetcherStep, HeaderFetcher
  <2>3. CASE program = "main2" /\ Main2!Fetcher(e)
    BY <1>2, <2>3, SharedMain2, OwnMain2
       DEF Fetcher, Main2!Fetcher, Step, FetcherStep, HeaderFetcher
  <2> QED
    BY <1>2, <2>1, <2>2, <2>3 DEF Fetcher
<1> QED
  BY <1>1, <1>2 DEF Next
-----------------------------------------------------------------------------
(* What any step of the fetcher of e may change *)
FetchEffect(e) ==
  /\ UNCHANGED <<program, tablelock, pc, locals>>
  /\ \A x \in Entry : x # e =>
       /\ entry'[x] = entry[x] /\ fetcher'[x] = fetcher[x] /\ received'[x] = received[x]
       /\ total_size'[x] = total_size[x] /\ elock'[x] = elock[x]
  /\ entry'[e].url = entry[e].url /\ entry'[e].refcount = entry[e].refcount
  /\ entry'[e].cacheable => entry[e].cacheable /\ entry[e].size <= entry'[e].size
  /\ entry[e].complete => entry'[e] = entry[e]
  /\ fetcher[e] \notin {"none", "exit"} /\ fetcher'[e] # "none"
  /\ \/ elock'[e] = elock[e]
     \/ elock[e] = None /\ elock'[e] = e
     \/ elock[e] = e /\ elock'[e] = None
  /\ entry' \in [Entry -> EntryRecord]

(* The labels of all the fetchers *)
FetcherPlaces ==
  {"none", "recv", "refuse", "lock", "evict", "scan", "grow", "store", "body", "more", "done",
   "signal", "exit"}

(* The entries, and what their fetchers know of them, have their types.      *)
LEMMA EntryTyped ==
  ASSUME TypesOK
  PROVE  /\ entry \in [Entry -> EntryRecord]
         /\ \A e \in Entry : /\ entry[e] \in EntryRecord
                             /\ entry[e].size \in Nat /\ entry[e].capacity \in Nat
                             /\ entry[e].refcount \in Int
                             /\ received[e] \in Nat /\ total_size[e] \in Nat
         /\ fetcher \in [Entry -> FetcherPlaces] /\ received \in [Entry -> Nat]
         /\ total_size \in [Entry -> Nat]
         /\ elock \in [Entry -> Clients \cup Entry \cup {None}]
BY DEF TypesOK, TypeOK, EntryRecord, SizeType, FetcherPlaces

(* The shared steps of a fetcher change no more than that; ...               *)
LEMMA FetcherEffect ==
  ASSUME StateOK, NEW e \in Entry, UNCHANGED <<program, total_size>>, FetcherStep(e)
  PROVE  FetchEffect(e)
<1>0. TypesOK
  BY DEF StateOK
<1> USE DEF FetchEffect
<1>1. ASSUME NEW n, EvictTest(e, n) PROVE FetchEffect(e)
  BY <1>0, <1>1, EntryTyped DEF EvictTest, StateOK
<1>2. CASE EvictOne(e)
  BY <1>0, <1>2, EntryTyped DEF EvictOne, StateOK, cache_remove_entry
<1>3. CASE Finish(e)
  BY <1>0, <1>3, EntryTyped DEF Finish, StateOK, EntriesOK, EntryOK, LockLabels
<1> QED
  BY <1>1, <1>2, <1>3 DEF FetcherStep

(* ... nor do main.c's own ...                                               *)
LEMMA MainEffect ==
  ASSUME StateOK, NEW e \in Entry, UNCHANGED <<program, total_size>>, program = "main",
         MainFetcher(e)
  PROVE  FetchEffect(e)
<1>0. TypesOK
  BY DEF StateOK
<1> USE DEF FetchEffect
<1>1. CASE Main!Recv(e)
  BY <1>0, <1>1, EntryTyped DEF Main!Recv, StateOK
<1>2. CASE Main!LockEntry(e)
  BY <1>0, <1>2, EntryTyped DEF Main!LockEntry, StateOK
<1>3. CASE Main!Grow(e)
  <2>1. CASE cache_used_bytes + Main!Growth(e) <= CACHE_MAX_BYTES
    <3>1. entry' = [entry EXCEPT ![e] = [entry[e] EXCEPT !.capacity = Main!NewCapacity(e)]]
      BY <1>3, <2>1 DEF Main!Grow, Main!NewCapacity
    <3>2. [entry[e] EXCEPT !.capacity = Main!NewCapacity(e)] \in EntryRecord
      <4>1. Main!NewCapacity(e) \in Nat
        BY <1>0, EntryTyped, StreamAssumption DEF Main!NewCapacity, StreamAssumption
      <4> QED
        BY <1>0, <4>1, EntryTyped DEF EntryRecord
    <3>3. entry' \in [Entry -> EntryRecord]
      BY <1>0, EntryTyped, <3>1, <3>2
    <3> QED
      BY <1>0, <1>3, <2>1, <3>1, <3>3, EntryTyped
         DEF Main!Grow, StateOK, EntriesOK, EntryOK, LockLabels, Ended, MainOK, MainEntry,
             Main!NewCapacity
  <2>2. CASE ~(cache_used_bytes + Main!Growth(e) <= CACHE_MAX_BYTES)
    <3>1. entry' = [entry EXCEPT ![e] = [entry[e] EXCEPT !.cacheable = FALSE, !.size = 0,
                                                         !.capacity = 0]]
      BY <1>3, <2>2 DEF Main!Grow
    <3>2. [entry[e] EXCEPT !.cacheable = FALSE, !.size = 0, !.capacity = 0] \in EntryRecord
      BY <1>0, EntryTyped DEF EntryRecord
    <3>3. entry' \in [Entry -> EntryRecord]
      BY <1>0, EntryTyped, <3>1, <3>2
    <3> QED
      BY <1>0, <1>3, <2>2, <3>1, <3>3, EntryTyped
         DEF Main!Grow, StateOK, EntriesOK, EntryOK, LockLabels, Ended, MainOK, MainEntry
  <2> QED
    BY <2>1, <2>2
<1>4. CASE Main!Store(e)
  <2>1. CASE entry[e].cacheable
    <3>1. entry' = [entry EXCEPT ![e] = [entry[e] EXCEPT !.size = entry[e].size + 1]]
      BY <1>4, <2>1 DEF Main!Store
    <3>2. [entry[e] EXCEPT !.size = entry[e].size + 1] \in EntryRecord
      BY <1>0, EntryTyped DEF EntryRecord
    <3>3. entry' \in [Entry -> EntryRecord]
      BY <1>0, EntryTyped, <3>1, <3>2
    <3> QED
      BY <1>0, <1>4, <2>1, <3>1, <3>3, EntryTyped
         DEF Main!Store, StateOK, EntriesOK, EntryOK, LockLabels, Ended, MainOK, MainEntry
  <2>2. CASE ~entry[e].cacheable
    BY <1>0, <1>4, <2>2, EntryTyped DEF Main!Store, StateOK, EntriesOK, EntryOK, LockLabels, Ended
  <2> QED
    BY <2>1, <2>2
<1>5. CASE Main!Complete(e)
  <2>1. entry' = [entry EXCEPT ![e] = [entry[e] EXCEPT !.complete = TRUE]]
    BY <1>5 DEF Main!Complete
  <2>2. [entry[e] EXCEPT !.complete = TRUE] \in EntryRecord
    BY <1>0, EntryTyped DEF EntryRecord
  <2>3. entry' \in [Entry -> EntryRecord]
    BY <1>0, EntryTyped, <2>1, <2>2
  <2> QED
    BY <1>0, <1>5, <2>1, <2>3, EntryTyped
       DEF Main!Complete, StateOK, EntriesOK, EntryOK, LockLabels, Ended, MainOK, MainEntry
<1> QED
  BY <1>1, <1>2, <1>3, <1>4, <1>5 DEF MainFetcher

(* ... nor those of main1.c and main2.c.                                     *)
LEMMA HeaderEffect ==
  ASSUME StateOK, NEW p \in {"main1", "main2"}, program = p, UNCHANGED program, NEW e \in Entry,
    HeaderFetcher(p, e)
  PROVE  FetchEffect(e)
<1>0. TypesOK
  BY DEF StateOK
<1> USE DEF FetchEffect, Header!HoldsLock
<1>1. CASE Header(p)!GiveUp(e)
  BY <1>0, <1>1, EntryTyped DEF Header!GiveUp, StateOK
<1>2. CASE Header(p)!NoHeaders(e)
  BY <1>0, <1>2, EntryTyped DEF Header!NoHeaders, StateOK
<1>3. CASE Header(p)!Headers(e)
  BY <1>0, <1>3, EntryTyped DEF Header!Headers, StateOK
<1>4. CASE Header(p)!TakeRoom(e)
  <2>1. entry' = [entry EXCEPT ![e] = [entry[e] EXCEPT !.capacity = total_size[e], !.size = 1]]
    BY <1>4 DEF Header!TakeRoom, Header!LeaveHeaders
  <2>2. [entry[e] EXCEPT !.capacity = total_size[e], !.size = 1] \in EntryRecord
    BY <1>0, EntryTyped DEF EntryRecord
  <2>3. entry' \in [Entry -> EntryRecord]
    BY <1>0, EntryTyped, <2>1, <2>2
  <2> QED
    BY <1>0, <1>4, <2>1, <2>3, EntryTyped
       DEF Header!TakeRoom, StateOK, EntriesOK, EntryOK, LockLabels, Ended, HeaderOK, HeaderEntry,
           Header!LeaveHeaders
<1>5. CASE Header(p)!NoRoom(e)
  <2>1. entry' = [entry EXCEPT ![e] = [entry[e] EXCEPT !.cacheable = FALSE]]
    BY <1>5 DEF Header!NoRoom, Header!LeaveHeaders
  <2>2. [entry[e] EXCEPT !.cacheable = FALSE] \in EntryRecord
    BY <1>0, EntryTyped DEF EntryRecord
  <2>3. entry' \in [Entry -> EntryRecord]
    BY <1>0, EntryTyped, <2>1, <2>2
  <2> QED
    BY <1>0, <1>5, <2>1, <2>3, EntryTyped
       DEF Header!NoRoom, StateOK, EntriesOK, EntryOK, LockLabels, Ended, HeaderOK, HeaderEntry,
           Header!LeaveHeaders
<1>6. CASE Header(p)!Refuse(e)
  <2>1. entry' = [entry EXCEPT ![e] = [entry[e] EXCEPT !.cacheable = FALSE, !.complete = TRUE]]
    BY <1>6 DEF Header!Refuse
  <2>2. [entry[e] EXCEPT !.cacheable = FALSE, !.complete = TRUE] \in EntryRecord
    BY <1>0, EntryTyped DEF EntryRecord
  <2>3. entry' \in [Entry -> EntryRecord]
    BY <1>0, EntryTyped, <2>1, <2>2
  <2> QED
    BY <1>0, <1>6, <2>1, <2>3, EntryTyped
       DEF Header!Refuse, StateOK, EntriesOK, EntryOK, LockLabels, Ended, HeaderOK, HeaderEntry
<1>7. CASE Header(p)!BodyPart(e)
  <2>1. CASE received[e] \in entry[e].size + 1 .. entry[e].capacity
    <3>1. entry' = [entry EXCEPT ![e] = [entry[e] EXCEPT !.size = received[e]]]
      BY <1>7, <2>1 DEF Header!BodyPart
    <3>2. [entry[e] EXCEPT !.size = received[e]] \in EntryRecord
      BY <1>0, EntryTyped DEF EntryRecord
    <3>3. entry' \in [Entry -> EntryRecord]
      BY <1>0, EntryTyped, <3>1, <3>2
    <3> QED
      BY <1>0, <1>7, <2>1, <3>1, <3>3, EntryTyped
         DEF Header!BodyPart, StateOK, EntriesOK, EntryOK, LockLabels, Ended, HeaderOK,
             HeaderEntry
  <2>2. CASE received[e] \notin entry[e].size + 1 .. entry[e].capacity
    BY <1>0, <1>7, <2>2, EntryTyped
       DEF Header!BodyPart, StateOK, EntriesOK, EntryOK, LockLabels, Ended
  <2> QED
    BY <2>1, <2>2
<1>8. CASE Header(p)!StoreChunk(e)
  <2>1. PICK r \in 1 .. Header(p)!Room(e) :
          /\ received' = [received EXCEPT ![e] = @ + r]
          /\ entry' = [entry EXCEPT ![e] = [entry[e] EXCEPT !.size = entry[e].size + r]]
    BY <1>8 DEF Header!StoreChunk
  <2>2. [entry[e] EXCEPT !.size = entry[e].size + r] \in EntryRecord
    BY <1>0, EntryTyped DEF EntryRecord, Header!Room
  <2>3. entry' \in [Entry -> EntryRecord]
    BY <1>0, EntryTyped, <2>1, <2>2
  <2> QED
    BY <1>0, <1>8, <2>1, <2>3, EntryTyped
       DEF Header!StoreChunk, StateOK, EntriesOK, EntryOK, Ended
<1>9. CASE Header(p)!TooMuch(e)
  <2>1. entry' = [entry EXCEPT ![e] = [entry[e] EXCEPT !.cacheable = FALSE]]
    BY <1>9 DEF Header!TooMuch
  <2>2. [entry[e] EXCEPT !.cacheable = FALSE] \in EntryRecord
    BY <1>0, EntryTyped DEF EntryRecord
  <2>3. entry' \in [Entry -> EntryRecord]
    BY <1>0, EntryTyped, <2>1, <2>2
  <2> QED
    BY <1>0, <1>9, <2>1, <2>3, EntryTyped
       DEF Header!TooMuch, StateOK, EntriesOK, EntryOK, LockLabels, Ended, HeaderOK, HeaderEntry
<1>10. CASE Header(p)!EndReceive(e)
  BY <1>0, <1>10, EntryTyped DEF Header!EndReceive, StateOK
<1>11. CASE Header(p)!Close(e)
  <2>1. CASE Header(p)!IsShort(e)
    <3>1. entry' = [entry EXCEPT ![e] = [entry[e] EXCEPT !.cacheable = FALSE, !.complete = TRUE,
                                                         !.size = 0, !.capacity = 0]]
      BY <1>11, <2>1 DEF Header!Close
    <3>2. [entry[e] EXCEPT !.cacheable = FALSE, !.complete = TRUE, !.size = 0, !.capacity = 0]
            \in EntryRecord
      BY <1>0, EntryTyped DEF EntryRecord
    <3>3. entry' \in [Entry -> EntryRecord]
      BY <1>0, EntryTyped, <3>1, <3>2
    <3> QED
      BY <1>0, <1>11, <2>1, <3>1, <3>3, EntryTyped
         DEF Header!Close, StateOK, EntriesOK, EntryOK, LockLabels, Ended, HeaderOK, HeaderEntry
  <2>2. CASE ~Header(p)!IsShort(e)
    <3>1. entry' = [entry EXCEPT ![e] = [entry[e] EXCEPT !.complete = TRUE]]
      BY <1>11, <2>2 DEF Header!Close
    <3>2. [entry[e] EXCEPT !.complete = TRUE] \in EntryRecord
      BY <1>0, EntryTyped DEF EntryRecord
    <3>3. entry' \in [Entry -> EntryRecord]
      BY <1>0, EntryTyped, <3>1, <3>2
    <3> QED
      BY <1>0, <1>11, <2>2, <3>1, <3>3, EntryTyped
         DEF Header!Close, StateOK, EntriesOK, EntryOK, LockLabels, Ended, HeaderOK, HeaderEntry
  <2> QED
    BY <2>1, <2>2
<1> QED
  BY <1>1, <1>2, <1>3, <1>4, <1>5, <1>6, <1>7, <1>8, <1>9, <1>10, <1>11 DEF HeaderFetcher

(* The room of each entry *)
Capacities == [e \in Entry |-> entry[e].capacity]

(* The list is one of blocks, and their capacities are numbers.              *)
LEMMA TableFacts ==
  ASSUME TypesOK
  PROVE  /\ cache_table \in Seq(Entry) /\ Range(cache_table) \subseteq Entry
         /\ IsFiniteSet(Range(cache_table)) /\ cache_used_bytes \in Nat
         /\ \A e \in Entry : Capacities[e] = entry[e].capacity /\ Capacities[e] \in Nat
<1>1. cache_table \in Seq(Entry) /\ cache_used_bytes \in Nat
  BY DEF TypesOK, TypeOK
<1>2. Range(cache_table) \subseteq Entry
  BY <1>1 DEF Range
<1>3. IsFiniteSet(Range(cache_table))
  BY <1>2, FS_Subset, CacheAssumption
<1> QED
  BY <1>1, <1>2, <1>3, EntryTyped DEF Capacities

(* No entry of the list has more room than is in use. *)
LEMMA RoomInUse ==
  ASSUME TypesOK, UsedIsAccounted, NEW e \in Range(cache_table)
  PROVE  entry[e].capacity <= cache_used_bytes
<1>1. \A x \in Range(cache_table) : Capacities[x] \in Nat
  BY TableFacts
<1>2. cache_used_bytes = SumFunctionOnSet(Capacities, Range(cache_table))
  BY DEF UsedIsAccounted, Capacities
<1>3. Capacities[e] <= cache_used_bytes
  BY <1>1, <1>2, TableFacts, SumMember
<1> QED
  BY <1>3, TableFacts

(* Nothing of it changes. *)
LEMMA AccountFrame ==
  ASSUME UsedIsAccounted, UNCHANGED <<cache_table, cache_used_bytes, freed>>,
         \A e \in Entry : /\ entry'[e].capacity = entry[e].capacity
                          /\ entry'[e].url = entry[e].url
  PROVE  UsedIsAccounted'
<1>1. Capacities' = Capacities
  BY DEF Capacities
<1>2. {e \in Entry : entry[e].url # None}' = {e \in Entry : entry[e].url # None}
  OBVIOUS
<1> QED
  BY <1>1, <1>2 DEF UsedIsAccounted, Capacities

(* An entry of the list gets more room or less. *)
LEMMA AccountChange ==
  ASSUME TypesOK, UsedIsAccounted, UNCHANGED <<cache_table, freed>>,
         NEW e \in Range(cache_table), NEW n \in Nat,
         \A x \in Entry : /\ entry'[x].capacity = IF x = e THEN n ELSE entry[x].capacity
                          /\ entry'[x].url = entry[x].url,
         cache_used_bytes' = (cache_used_bytes - entry[e].capacity) + n
  PROVE  UsedIsAccounted'
<1>0. IsFiniteSet(Range(cache_table))
  BY TableFacts
<1>1. /\ \A x \in Range(cache_table) : Capacities[x] \in Int /\ Capacities'[x] \in Int
      /\ \A x \in Range(cache_table) \ {e} : Capacities[x] = Capacities'[x]
      /\ Capacities'[e] = n /\ Capacities[e] = entry[e].capacity
  BY TableFacts DEF Capacities
<1>2. SumFunctionOnSet(Capacities', Range(cache_table))
        = (SumFunctionOnSet(Capacities, Range(cache_table)) - Capacities[e]) + Capacities'[e]
  <2>1. PICK f, h : f = Capacities /\ h = Capacities'
    OBVIOUS
  <2>2. SumFunctionOnSet(h, Range(cache_table))
          = (SumFunctionOnSet(f, Range(cache_table)) - f[e]) + h[e]
    <3>1. /\ \A y \in Range(cache_table) : f[y] \in Int /\ h[y] \in Int
          /\ \A y \in Range(cache_table) \ {e} : f[y] = h[y]
      BY <1>1, <2>1
    <3>2. PICK R : R = Range(cache_table)
      OBVIOUS
    <3>3. /\ IsFiniteSet(R) /\ e \in R
          /\ \A y \in R : f[y] \in Int /\ h[y] \in Int
          /\ \A y \in R \ {e} : f[y] = h[y]
      BY <1>0, <3>1, <3>2
    <3>4. SumFunctionOnSet(h, R) = (SumFunctionOnSet(f, R) - f[e]) + h[e]
      BY <3>3, SumChanged
    <3> QED
      BY <3>2, <3>4
  <2> QED
    BY <2>1, <2>2
<1>3. cache_used_bytes' = SumFunctionOnSet(Capacities', Range(cache_table'))
  BY <1>1, <1>2 DEF UsedIsAccounted, Capacities
<1>4. {x \in Entry : entry[x].url # None}' = {x \in Entry : entry[x].url # None}
  OBVIOUS
<1> QED
  BY <1>3, <1>4 DEF UsedIsAccounted, Capacities

(* An entry is evicted. *)
LEMMA AccountEvict ==
  ASSUME TypesOK, TableOK, UsedIsAccounted, NEW k \in 1 .. Len(cache_table),
         cache_remove_entry(k)
  PROVE  /\ UsedIsAccounted' /\ TableOK' /\ cache_table' \in Seq(Entry)
         /\ cache_used_bytes' \in Nat /\ cache_used_bytes' <= cache_used_bytes
<1> DEFINE v == cache_table[k]
           R == Range(cache_table)
<1>1. cache_table' = Without(cache_table, k)
  BY DEF cache_remove_entry, Without
<1>2. cache_table' \in Seq(Entry) /\ TableOK' /\ Range(cache_table') = R \ {v}
  BY <1>1, TableFacts, Shortened DEF TableOK, Distinct
<1>3. v \in R /\ IsFiniteSet(R) /\ \A x \in R : Capacities[x] \in Nat
  BY TableFacts DEF Range
<1>4. SumFunctionOnSet(Capacities, R) = Capacities[v] + SumFunctionOnSet(Capacities, R \ {v})
  <2>1. \A x \in R : Capacities[x] \in Int
    BY <1>3
  <2> HIDE DEF R, v
  <2> QED
    BY <1>3, <2>1, SumRemoves
<1>5. SumFunctionOnSet(Capacities, R \ {v}) \in Nat
  <2>1. IsFiniteSet(R \ {v}) /\ \A x \in R \ {v} : Capacities[x] \in Nat
    BY <1>3, TableFacts, FS_Subset
  <2> QED
    BY <2>1, SumType
<1>6. /\ cache_used_bytes = SumFunctionOnSet(Capacities, R)
      /\ R = {e \in Entry : entry[e].url # None} \ freed
  BY DEF UsedIsAccounted, Capacities
<1>7. Capacities[v] = entry[v].capacity /\ Capacities[v] \in Nat
  BY <1>3, TableFacts
<1>8. /\ entry' = entry /\ freed' = freed \cup {v}
      /\ cache_used_bytes' = cache_used_bytes - entry[v].capacity
  BY DEF cache_remove_entry
<1> HIDE DEF v, R
<1>9. cache_used_bytes' = SumFunctionOnSet(Capacities, R \ {v})
  <2>1. \A n, m \in Nat : (n + m) - n = m
    OBVIOUS
  <2>2. cache_used_bytes' = (Capacities[v] + SumFunctionOnSet(Capacities, R \ {v})) - Capacities[v]
    BY <1>4, <1>6, <1>7, <1>8
  <2> QED
    BY <1>5, <1>7, <2>1, <2>2
<1>10. UsedIsAccounted'
  <2>1. Capacities' = Capacities
    BY <1>8 DEF Capacities
  <2>2. R \ {v} = {e \in Entry : entry'[e].url # None} \ freed'
    BY <1>6, <1>8
  <2> QED
    BY <1>2, <1>9, <2>1, <2>2 DEF UsedIsAccounted, Capacities
<1>11. cache_used_bytes' <= cache_used_bytes
  <2>1. \A n, m \in Nat : m <= n + m
    OBVIOUS
  <2> QED
    BY <1>4, <1>5, <1>6, <1>7, <1>9, <2>1
<1> QED
  BY <1>2, <1>5, <1>9, <1>10, <1>11

(* A new entry is put at the head of the list. *)
LEMMA AccountInsert ==
  ASSUME TypesOK, TableOK, UsedIsAccounted,
         NEW n \in Entry, entry[n] = Unused, n \notin freed,
         UNCHANGED <<freed, cache_used_bytes>>,
         cache_table' = Pushed(n, cache_table),
         NEW u, u # None,
         \A x \in Entry : /\ entry'[x].capacity = entry[x].capacity
                          /\ entry'[x].url = IF x = n THEN u ELSE entry[x].url
  PROVE  UsedIsAccounted' /\ TableOK' /\ cache_table' \in Seq(Entry)
<1> DEFINE R == Range(cache_table)
<1>1. /\ cache_used_bytes = SumFunctionOnSet(Capacities, R)
      /\ R = {e \in Entry : entry[e].url # None} \ freed
  BY DEF UsedIsAccounted, Capacities
<1>2. n \notin R
  BY <1>1 DEF Unused
<1>3. cache_table' \in Seq(Entry) /\ TableOK' /\ Range(cache_table') = R \cup {n}
  <2>1. cache_table \in Seq(Entry) /\ Distinct(cache_table)
    BY TableFacts DEF TableOK, Distinct
  <2>2. PICK t : t = cache_table' /\ t = Pushed(n, cache_table)
    OBVIOUS
  <2>3. t \in Seq(Entry) /\ Distinct(t) /\ Range(t) = R \cup {n}
    <3>1. n \in Entry /\ n \notin Range(cache_table)
      BY <1>2
    <3> QED
      BY <2>1, <2>2, <3>1, Prefixed
  <2> QED
    BY <2>2, <2>3 DEF TableOK, Distinct
<1>4. \A x \in R \cup {n} : Capacities[x] \in Int
  BY TableFacts
<1>5. SumFunctionOnSet(Capacities, R \cup {n}) = Capacities[n] + SumFunctionOnSet(Capacities, R)
  BY <1>2, <1>4, TableFacts, SumAdded
<1>6. Capacities[n] = 0 /\ Capacities' = Capacities
  BY DEF Capacities, Unused
<1>7. R \cup {n} = {e \in Entry : entry'[e].url # None} \ freed'
  BY <1>1
<1>8. cache_used_bytes' = SumFunctionOnSet(Capacities', Range(cache_table'))
  <2>1. cache_used_bytes \in Nat
    BY TableFacts
  <2>2. \A m \in Nat : 0 + m = m
    OBVIOUS
  <2> HIDE DEF R
  <2>3. SumFunctionOnSet(Capacities, R \cup {n}) = cache_used_bytes
    BY <1>1, <1>5, <1>6, <2>1, <2>2
  <2> QED
    BY <1>3, <1>6, <2>3
<1> HIDE DEF R
<1> QED
  BY <1>3, <1>6, <1>7, <1>8 DEF UsedIsAccounted, Capacities

(* What the invariant says of one entry *)
EntryPart(e) ==
  /\ EntryOK(e)
  /\ program = "main" => MainEntry(e)
  /\ program # "main" => HeaderEntry(e)

(* What is said of another entry than the fetcher's is kept.                 *)
LEMMA OtherEntry ==
  ASSUME StateOK, NEW e \in Entry, FetchEffect(e), NEW x \in Entry, x # e,
         x \in freed' => x \in freed \/ entry[x].complete
  PROVE  EntryPart(x)'
<1>1. EntryPart(x)
  BY DEF StateOK, EntriesOK, MainOK, HeaderOK, EntryPart
<1>2. UNCHANGED <<program, entry[x], fetcher[x], received[x], total_size[x], elock[x]>>
  BY DEF FetchEffect
<1>3. x \in freed' => Ended(x)
  BY <1>1 DEF EntryPart, EntryOK
<1> QED
  BY <1>1, <1>2, <1>3
     DEF EntryPart, EntryOK, MainEntry, HeaderEntry, FetcherLabels, LockLabels, Ended, Used

(* A fetcher at work on an entry finds it in the list. *)
LEMMA WorkedOnIsListed ==
  ASSUME StateOK, NEW e \in Entry, fetcher[e] \notin {"none", "signal", "exit"}
  PROVE  /\ e \in Range(cache_table) /\ e \notin freed
         /\ entry[e].capacity <= cache_used_bytes
<1>1. Used(e) /\ e \notin freed
  BY DEF StateOK, EntriesOK, EntryOK, Ended
<1>2. e \in Range(cache_table)
  BY <1>1 DEF StateOK, UsedIsAccounted, Used
<1> QED
  BY <1>1, <1>2, RoomInUse, CacheAssumption DEF StateOK

(* Min picks a member of a set of list positions. *)
LEMMA LeastPicked ==
  ASSUME NEW n \in Nat, NEW T, T \subseteq 1 .. n, T # {}
  PROVE  Min(T) \in T
<1>1. \E m \in T : \A k \in T : m <= k
  <2> DEFINE U == {n + 1 - k : k \in T}
  <2>1. U \subseteq 1 .. n /\ U # {}
    <3>1. \A k \in T : n + 1 - k \in 1 .. n
      OBVIOUS
    <3> QED
      BY <3>1
  <2> HIDE DEF U
  <2>2. PICK u \in U : \A k \in U : k <= u
    BY <2>1, Greatest
  <2>3. PICK m \in T : u = n + 1 - m
    BY <2>2 DEF U
  <2>4. ASSUME NEW k \in T PROVE m <= k
    <3>1. n + 1 - k \in U
      BY DEF U
    <3>2. n + 1 - k <= n + 1 - m
      BY <2>2, <2>3, <3>1
    <3> QED
      BY <3>2
  <2> QED
    BY <2>4
<1> QED
  BY <1>1 DEF Min

(* The entry that is evicted is complete and has no references. *)
LEMMA MinVictim ==
  ASSUME TypesOK, Victims # {}
  PROVE  /\ Min(Victims) \in 1 .. Len(cache_table)
         /\ cache_table[Min(Victims)] \in Entry
         /\ entry[cache_table[Min(Victims)]].complete
         /\ entry[cache_table[Min(Victims)]].refcount = 0
<1>1. Victims \subseteq 1 .. Len(cache_table) /\ cache_table \in Seq(Entry)
  BY DEF Victims, TypesOK, TypeOK
<1>2. Len(cache_table) \in Nat
  BY <1>1
<1>3. Min(Victims) \in Victims
  BY <1>1, <1>2, Victims # {}, LeastPicked
<1> QED
  BY <1>1, <1>3 DEF Victims

(* A block is neither NULL nor a thread. *)
LEMMA EntryNames ==
  ASSUME NEW e \in Entry
  PROVE  e # None /\ e \notin Clients
BY CacheAssumption DEF CacheAssumption

(* What is evicted is complete and has no references. *)
EvictedOnly ==
  \A x \in Entry : x \in freed' => x \in freed \/ (entry[x].complete /\ entry[x].refcount = 0)

(* What is said of its own entry is kept by the shared steps, ...            *)
LEMMA FetcherEntry ==
  ASSUME StateOK, NEW e \in Entry, UNCHANGED <<program, total_size>>, FetcherStep(e)
  PROVE  EntryPart(e)' /\ EvictedOnly
<1>0. EntryPart(e) /\ TypesOK
  BY DEF StateOK, EntriesOK, MainOK, HeaderOK, EntryPart
<1> USE DEF EntryPart, EntryOK, MainEntry, HeaderEntry, FetcherLabels, LockLabels, Ended, Used
<1>1. ASSUME NEW n, EvictTest(e, n)
      PROVE  EntryPart(e)' /\ EvictedOnly
  BY <1>0, <1>1, EntryTyped DEF EvictTest, EvictedOnly
<1>2. CASE EvictOne(e)
  <2>1. CASE Victims = {}
    BY <1>0, <1>2, <2>1, EntryTyped DEF EvictOne, EvictedOnly
  <2>2. CASE Victims # {}
    BY <1>0, <1>2, <2>2, EntryTyped, MinVictim DEF EvictOne, cache_remove_entry, EvictedOnly
  <2> QED
    BY <2>1, <2>2
<1>3. CASE Finish(e)
  <2>1. /\ entry' = entry /\ received' = received /\ freed' = freed
        /\ fetcher[e] = "signal" /\ fetcher'[e] = "exit" /\ elock'[e] = None
    BY <1>0, <1>3, EntryTyped DEF Finish
  <2> QED
    BY <1>0, <2>1, EntryNames DEF EvictedOnly
<1> QED
  BY <1>1, <1>2, <1>3 DEF FetcherStep

(* ... by main.c's own ...                                                   *)
LEMMA MainFetcherEntry ==
  ASSUME StateOK, NEW e \in Entry, UNCHANGED <<program, total_size>>, program = "main",
         MainFetcher(e)
  PROVE  EntryPart(e)' /\ freed' = freed
<1>0. EntryPart(e) /\ TypesOK /\ UsedWithinLimit
  BY DEF StateOK, EntriesOK, MainOK, HeaderOK, EntryPart
<1> USE DEF EntryPart, EntryOK, MainEntry, FetcherLabels, LockLabels, Ended, Used
<1>1. CASE Main!Recv(e)
  BY <1>0, <1>1, EntryTyped DEF Main!Recv
<1>2. CASE Main!LockEntry(e)
  BY <1>0, <1>2, EntryTyped DEF Main!LockEntry
<1>3. CASE Main!Grow(e)
  <2>1. /\ entry[e].capacity <= cache_used_bytes /\ cache_used_bytes \in Nat
        /\ entry[e].capacity \in Nat /\ entry[e].size \in Nat /\ CACHE_MAX_BYTES \in Nat
    BY <1>0, <1>3, EntryTyped, WorkedOnIsListed, CacheAssumption
       DEF Main!Grow, TypesOK, TypeOK, CacheAssumption
  <2>2. /\ fetcher[e] = "grow" /\ fetcher'[e] = "store"
        /\ received' = received /\ freed' = freed /\ elock' = elock
    BY <1>0, <1>3, EntryTyped DEF Main!Grow
  <2>3. CASE cache_used_bytes + Main!Growth(e) <= CACHE_MAX_BYTES
    <3>1. entry' = [entry EXCEPT ![e] = [entry[e] EXCEPT !.capacity = Main!NewCapacity(e)]]
      BY <1>3, <2>3 DEF Main!Grow
    <3>2. /\ entry'[e].capacity = Main!NewCapacity(e) /\ entry'[e].size = entry[e].size
          /\ entry'[e].cacheable = entry[e].cacheable /\ entry'[e].complete = entry[e].complete
          /\ entry'[e].url = entry[e].url
      BY <1>0, <3>1, EntryTyped DEF EntryRecord
    <3>3. /\ Main!NewCapacity(e) \in Nat /\ entry[e].capacity < Main!NewCapacity(e)
          /\ Main!NewCapacity(e) <= CACHE_MAX_BYTES
      BY <2>1, <2>3, StreamAssumption DEF Main!Growth, Main!NewCapacity, StreamAssumption
    <3> HIDE DEF Main!NewCapacity
    <3> QED
      BY <1>0, <2>1, <2>2, <3>2, <3>3
  <2>4. CASE ~(cache_used_bytes + Main!Growth(e) <= CACHE_MAX_BYTES)
    <3>1. entry' = [entry EXCEPT ![e] = [entry[e] EXCEPT !.cacheable = FALSE, !.size = 0,
                                                         !.capacity = 0]]
      BY <1>3, <2>4 DEF Main!Grow
    <3>2. /\ entry'[e].capacity = 0 /\ entry'[e].size = 0
          /\ entry'[e].cacheable = FALSE /\ entry'[e].complete = entry[e].complete
          /\ entry'[e].url = entry[e].url
      BY <1>0, <3>1, EntryTyped DEF EntryRecord
    <3> QED
      BY <1>0, <2>1, <2>2, <3>2
  <2> QED
    BY <2>3, <2>4
<1>4. CASE Main!Store(e)
  <2>1. /\ fetcher[e] = "store" /\ fetcher'[e] = "recv" /\ elock'[e] = None
        /\ received' = received /\ freed' = freed
    BY <1>0, <1>4, EntryTyped DEF Main!Store
  <2>2. CASE entry[e].cacheable
    <3>1. entry' = [entry EXCEPT ![e] = [entry[e] EXCEPT !.size = entry[e].size + 1]]
      BY <1>4, <2>2 DEF Main!Store
    <3>2. /\ entry'[e].capacity = entry[e].capacity /\ entry'[e].size = entry[e].size + 1
          /\ entry'[e].cacheable = TRUE /\ entry'[e].complete = entry[e].complete
          /\ entry'[e].url = entry[e].url
      BY <1>0, <2>2, <3>1, EntryTyped DEF EntryRecord
    <3>3. entry[e].capacity \in Nat /\ entry[e].size \in Nat
      BY <1>0, EntryTyped
    <3> QED
      BY <1>0, <2>1, <2>2, <3>2, <3>3, EntryNames
  <2>3. CASE ~entry[e].cacheable
    <3>1. entry' = entry
      BY <1>4, <2>3 DEF Main!Store
    <3> QED
      BY <1>0, <2>1, <2>3, <3>1, EntryNames
  <2> QED
    BY <2>2, <2>3
<1>5. CASE Main!Complete(e)
  BY <1>0, <1>5, EntryTyped DEF Main!Complete
<1> QED
  BY <1>1, <1>2, <1>3, <1>4, <1>5 DEF MainFetcher

(* ... and by those of main1.c and main2.c.                                  *)
LEMMA HeaderFetcherEntry ==
  ASSUME StateOK, NEW p \in {"main1", "main2"}, program = p, UNCHANGED program, NEW e \in Entry,
         HeaderFetcher(p, e)
  PROVE  EntryPart(e)' /\ freed' = freed
<1>0. EntryPart(e) /\ TypesOK /\ UsedWithinLimit
  BY DEF StateOK, EntriesOK, MainOK, HeaderOK, EntryPart
<1> USE DEF EntryPart, EntryOK, HeaderEntry, FetcherLabels, LockLabels, Ended, Used,
            Header!HoldsLock
<1>1. CASE Header(p)!GiveUp(e)
  BY <1>0, <1>1, EntryTyped, CacheAssumption DEF Header!GiveUp
<1>2. CASE Header(p)!NoHeaders(e)
  BY <1>0, <1>2, EntryTyped, CacheAssumption DEF Header!NoHeaders
<1>3. CASE Header(p)!Headers(e)
  BY <1>0, <1>3, EntryTyped, CacheAssumption DEF Header!Headers
<1>4. CASE Header(p)!TakeRoom(e)
  <2>1. /\ fetcher[e] = "grow" /\ fetcher'[e] = "body"
        /\ received' = received /\ freed' = freed
        /\ elock'[e] = IF p = "main2" THEN None ELSE elock[e]
        /\ cache_used_bytes + total_size[e] <= CACHE_MAX_BYTES
    BY <1>0, <1>4, EntryTyped DEF Header!TakeRoom, Header!LeaveHeaders
  <2>2. entry' = [entry EXCEPT ![e] = [entry[e] EXCEPT !.capacity = total_size[e], !.size = 1]]
    BY <1>4 DEF Header!TakeRoom
  <2>3. /\ entry'[e].capacity = total_size[e] /\ entry'[e].size = 1
        /\ entry'[e].cacheable = entry[e].cacheable /\ entry'[e].complete = entry[e].complete
        /\ entry'[e].url = entry[e].url
    BY <1>0, <2>2, EntryTyped DEF EntryRecord
  <2>4. /\ cache_used_bytes \in Nat /\ total_size[e] \in Nat /\ received[e] \in Nat
        /\ CACHE_MAX_BYTES \in Nat
    BY <1>0, EntryTyped, CacheAssumption DEF TypesOK, TypeOK, CacheAssumption
  <2> QED
    BY <1>0, <2>1, <2>3, <2>4, EntryNames
<1>5. CASE Header(p)!NoRoom(e)
  BY <1>0, <1>5, EntryTyped, CacheAssumption DEF Header!NoRoom, Header!LeaveHeaders
<1>6. CASE Header(p)!Refuse(e)
  BY <1>0, <1>6, EntryTyped, CacheAssumption DEF Header!Refuse
<1>7. CASE Header(p)!BodyPart(e)
  <2>1. /\ fetcher[e] = "body" /\ fetcher'[e] = "more"
        /\ received' = received /\ freed' = freed /\ elock' = elock
    BY <1>0, <1>7, EntryTyped DEF Header!BodyPart
  <2>2. entry[e].capacity \in Nat /\ entry[e].size \in Nat /\ received[e] \in Nat
    BY <1>0, EntryTyped
  <2>3. CASE received[e] \in entry[e].size + 1 .. entry[e].capacity
    <3>1. entry' = [entry EXCEPT ![e] = [entry[e] EXCEPT !.size = received[e]]]
      BY <1>7, <2>3 DEF Header!BodyPart
    <3>2. /\ entry'[e].capacity = entry[e].capacity /\ entry'[e].size = received[e]
          /\ entry'[e].cacheable = entry[e].cacheable /\ entry'[e].complete = entry[e].complete
          /\ entry'[e].url = entry[e].url
      BY <1>0, <3>1, EntryTyped DEF EntryRecord
    <3> QED
      BY <1>0, <2>1, <2>2, <2>3, <3>2
  <2>4. CASE received[e] \notin entry[e].size + 1 .. entry[e].capacity
    <3>1. entry' = entry
      BY <1>7, <2>4 DEF Header!BodyPart
    <3> QED
      BY <1>0, <2>1, <2>2, <2>4, <3>1
  <2> QED
    BY <2>3, <2>4
<1>8. CASE Header(p)!StoreChunk(e)
  BY <1>0, <1>8, EntryTyped, CacheAssumption DEF Header!StoreChunk, Header!Room
<1>9. CASE Header(p)!TooMuch(e)
  BY <1>0, <1>9, EntryTyped, CacheAssumption DEF Header!TooMuch, Header!Room
<1>10. CASE Header(p)!EndReceive(e)
  BY <1>0, <1>10, EntryTyped, CacheAssumption DEF Header!EndReceive
<1>11. CASE Header(p)!Close(e)
  <2>1. /\ fetcher[e] = "done" /\ fetcher'[e] = "signal"
        /\ received' = received /\ freed' = freed /\ elock'[e] = e
    BY <1>0, <1>11, EntryTyped DEF Header!Close
  <2>2. /\ entry[e].capacity \in Nat /\ entry[e].size \in Nat /\ received[e] \in Nat
        /\ CACHE_MAX_BYTES \in Nat
    BY <1>0, EntryTyped, CacheAssumption DEF CacheAssumption
  <2>3. CASE Header(p)!IsShort(e)
    <3>1. entry' = [entry EXCEPT ![e] = [entry[e] EXCEPT !.cacheable = FALSE, !.complete = TRUE,
                                                         !.size = 0, !.capacity = 0]]
      BY <1>11, <2>3 DEF Header!Close
    <3>2. /\ entry'[e].capacity = 0 /\ entry'[e].size = 0
          /\ entry'[e].cacheable = FALSE /\ entry'[e].complete = TRUE
          /\ entry'[e].url = entry[e].url
      BY <1>0, <3>1, EntryTyped DEF EntryRecord
    <3> QED
      BY <1>0, <2>1, <2>2, <3>2
  <2>4. CASE ~Header(p)!IsShort(e)
    <3>1. entry' = [entry EXCEPT ![e] = [entry[e] EXCEPT !.complete = TRUE]]
      BY <1>11, <2>4 DEF Header!Close
    <3>2. /\ entry'[e].capacity = entry[e].capacity /\ entry'[e].size = entry[e].size
          /\ entry'[e].cacheable = entry[e].cacheable /\ entry'[e].complete = TRUE
          /\ entry'[e].url = entry[e].url
      BY <1>0, <3>1, EntryTyped DEF EntryRecord
    <3> QED
      BY <1>0, <2>1, <2>2, <3>2
  <2> QED
    BY <2>3, <2>4
<1> QED
  BY <1>1, <1>2, <1>3, <1>4, <1>5, <1>6, <1>7, <1>8, <1>9, <1>10, <1>11 DEF HeaderFetcher

(* What is said of the room in use and of the list of entries *)
AccountOK ==
  /\ cache_table \in Seq(Entry) /\ cache_used_bytes \in Nat
  /\ UsedWithinLimit /\ UsedIsAccounted /\ TableOK

(* The other variables that a fetcher changes *)
FetchTypes ==
  /\ fetcher \in [Entry -> FetcherPlaces] /\ received \in [Entry -> Nat]
  /\ total_size \in [Entry -> Nat]
  /\ elock \in [Entry -> Clients \cup Entry \cup {None}]
  /\ waiting \subseteq Clients /\ freed \subseteq Entry

(* A step that leaves the list and the capacity alone keeps the account.     *)
LEMMA AccountKept ==
  ASSUME StateOK, NEW e \in Entry, FetchEffect(e),
         UNCHANGED <<cache_table, cache_used_bytes, freed>>,
         entry'[e].capacity = entry[e].capacity
  PROVE  AccountOK'
<1>1. /\ UsedIsAccounted /\ UsedWithinLimit /\ TableOK
      /\ cache_table \in Seq(Entry) /\ cache_used_bytes \in Nat
  BY DEF StateOK, TypesOK, TypeOK
<1>2. \A x \in Entry : /\ entry'[x].capacity = entry[x].capacity
                       /\ entry'[x].url = entry[x].url
  BY DEF FetchEffect
<1>3. UsedIsAccounted'
  BY <1>1, <1>2, AccountFrame
<1> QED
  BY <1>1, <1>3 DEF AccountOK, UsedWithinLimit, TableOK

(* So does one that books what it adds to the capacity or takes from it.     *)
LEMMA AccountMoved ==
  ASSUME StateOK, NEW e \in Entry, FetchEffect(e),
         UNCHANGED <<cache_table, freed>>,
         fetcher[e] \notin {"none", "signal", "exit"},
         NEW n \in Nat, entry'[e].capacity = n,
         cache_used_bytes' = (cache_used_bytes - entry[e].capacity) + n,
         cache_used_bytes' <= CACHE_MAX_BYTES
  PROVE  AccountOK'
<1>1. /\ UsedIsAccounted /\ UsedWithinLimit /\ TableOK /\ TypesOK
      /\ cache_table \in Seq(Entry) /\ cache_used_bytes \in Nat
  BY DEF StateOK, TypesOK, TypeOK
<1>2. \A x \in Entry : /\ entry'[x].capacity = IF x = e THEN n ELSE entry[x].capacity
                       /\ entry'[x].url = entry[x].url
  BY DEF FetchEffect
<1>3. e \in Range(cache_table) /\ entry[e].capacity <= cache_used_bytes
  BY WorkedOnIsListed
<1>4. UsedIsAccounted'
  BY <1>1, <1>2, <1>3, AccountChange, CacheAssumption
<1>5. cache_used_bytes' \in 0 .. CACHE_MAX_BYTES
  <2>1. entry[e].capacity \in Nat /\ CACHE_MAX_BYTES \in Nat
    BY <1>1, EntryTyped, CacheAssumption
  <2>2. (cache_used_bytes - entry[e].capacity) + n \in Nat
    BY <1>1, <1>3, <2>1
  <2>3. cache_used_bytes' \in Nat
    BY <2>2
  <2> QED
    BY <2>1, <2>3
<1> QED
  BY <1>1, <1>4, <1>5 DEF AccountOK, UsedWithinLimit, TableOK

(* The shared steps of a fetcher keep the account and the types, ...         *)
LEMMA FetcherAccount ==
  ASSUME StateOK, NEW e \in Entry, UNCHANGED <<program, total_size>>, FetcherStep(e)
  PROVE  AccountOK' /\ FetchTypes'
<1>0. FetchEffect(e) /\ TypesOK /\ waiting \subseteq Clients /\ freed \subseteq Entry
  BY FetcherEffect DEF StateOK, TypesOK, TypeOK
<1>1. ASSUME NEW n, EvictTest(e, n) PROVE AccountOK' /\ FetchTypes'
  <2>1. AccountOK'
    BY <1>0, <1>1, AccountKept DEF EvictTest
  <2>2. FetchTypes'
    BY <1>0, <1>1, EntryTyped DEF EvictTest, FetchTypes, FetcherPlaces
  <2> QED
    BY <2>1, <2>2
<1>2. CASE EvictOne(e)
  <2>1. AccountOK' /\ freed' \subseteq Entry
    <3>1. CASE Victims = {}
      BY <1>0, <1>2, <3>1, AccountKept DEF EvictOne
    <3>2. CASE Victims # {}
      <4>1. /\ Min(Victims) \in 1 .. Len(cache_table) /\ cache_remove_entry(Min(Victims))
            /\ cache_table[Min(Victims)] \in Entry
        BY <1>0, <1>2, <3>2, MinVictim DEF EvictOne
      <4>2. UsedIsAccounted /\ TableOK /\ UsedWithinLimit /\ cache_used_bytes \in Nat
        BY DEF StateOK, TypesOK, TypeOK
      <4>3. /\ UsedIsAccounted' /\ TableOK' /\ cache_table' \in Seq(Entry)
            /\ cache_used_bytes' \in Nat /\ cache_used_bytes' <= cache_used_bytes
        BY <1>0, <4>1, <4>2, AccountEvict, CacheAssumption
      <4>4. cache_used_bytes' \in 0 .. CACHE_MAX_BYTES
        <5>1. PICK n : n = cache_used_bytes'
          OBVIOUS
        <5>2. n \in 0 .. CACHE_MAX_BYTES
          BY <4>2, <4>3, <5>1, CacheAssumption DEF UsedWithinLimit
        <5> QED
          BY <5>1, <5>2
      <4>5. freed' \subseteq Entry
        BY <1>0, <4>1 DEF cache_remove_entry
      <4> QED
        BY <4>3, <4>4, <4>5 DEF AccountOK, UsedWithinLimit
    <3> QED
      BY <3>1, <3>2
  <2>2. FetchTypes'
    BY <1>0, <1>2, <2>1, EntryTyped DEF EvictOne, FetchTypes, FetcherPlaces
  <2> QED
    BY <2>1, <2>2
<1>3. CASE Finish(e)
  <2>1. AccountOK'
    BY <1>0, <1>3, AccountKept DEF Finish
  <2>2. FetchTypes'
    BY <1>0, <1>3, EntryTyped DEF Finish, FetchTypes, FetcherPlaces
  <2> QED
    BY <2>1, <2>2
<1> QED
  BY <1>1, <1>2, <1>3 DEF FetcherStep

(* ... main.c's own do ...                                                   *)
LEMMA MainAccount ==
  ASSUME StateOK, NEW e \in Entry, UNCHANGED <<program, total_size>>, program = "main",
         MainFetcher(e)
  PROVE  AccountOK' /\ FetchTypes'
<1>0. FetchEffect(e) /\ TypesOK /\ waiting \subseteq Clients /\ freed \subseteq Entry
  BY MainEffect, StreamAssumption DEF StateOK, TypesOK, TypeOK
<1>1. CASE Main!Recv(e)
  <2>1. entry'[e].capacity = entry[e].capacity
    BY <1>0, <1>1, EntryTyped DEF Main!Recv, EntryRecord
  <2>2. AccountOK'
    BY <1>0, <1>1, <2>1, AccountKept DEF Main!Recv
  <2>3. FetchTypes'
    BY <1>0, <1>1, EntryTyped, CacheAssumption DEF Main!Recv, FetchTypes, FetcherPlaces
  <2> QED
    BY <2>2, <2>3
<1>2. CASE Main!LockEntry(e)
  <2>1. entry'[e].capacity = entry[e].capacity
    BY <1>0, <1>2, EntryTyped DEF Main!LockEntry, EntryRecord
  <2>2. AccountOK'
    BY <1>0, <1>2, <2>1, AccountKept DEF Main!LockEntry
  <2>3. FetchTypes'
    BY <1>0, <1>2, EntryTyped, CacheAssumption DEF Main!LockEntry, FetchTypes, FetcherPlaces
  <2> QED
    BY <2>2, <2>3
<1>3. CASE Main!Grow(e)
  <2>1. /\ cache_used_bytes \in Nat /\ entry[e].capacity \in Nat /\ entry[e] \in EntryRecord
        /\ entry \in [Entry -> EntryRecord] /\ CACHE_MAX_BYTES \in Nat
        /\ cache_used_bytes <= CACHE_MAX_BYTES
    BY <1>0, EntryTyped, CacheAssumption DEF StateOK, TypesOK, TypeOK, UsedWithinLimit
  <2>2. fetcher[e] = "grow" /\ UNCHANGED <<cache_table, freed>>
    BY <1>3 DEF Main!Grow
  <2>3. AccountOK'
    <3>1. CASE cache_used_bytes + Main!Growth(e) <= CACHE_MAX_BYTES
      <4>1. Main!NewCapacity(e) \in Nat
        BY <2>1, StreamAssumption DEF Main!NewCapacity
      <4>2. /\ entry' = [entry EXCEPT ![e] = [entry[e] EXCEPT !.capacity = Main!NewCapacity(e)]]
            /\ cache_used_bytes' = cache_used_bytes + Main!Growth(e)
        BY <1>3, <3>1 DEF Main!Grow
      <4>3. entry'[e].capacity = Main!NewCapacity(e)
        BY <2>1, <4>2 DEF EntryRecord
      <4>4. cache_used_bytes + Main!Growth(e)
              = (cache_used_bytes - entry[e].capacity) + Main!NewCapacity(e)
        BY <2>1, <4>1 DEF Main!Growth
      <4> HIDE DEF Main!NewCapacity
      <4> QED
        BY <1>0, <2>2, <3>1, <4>1, <4>2, <4>3, <4>4, AccountMoved
    <3>2. CASE ~(cache_used_bytes + Main!Growth(e) <= CACHE_MAX_BYTES)
      <4>1. /\ entry' = [entry EXCEPT ![e] = [entry[e] EXCEPT !.cacheable = FALSE, !.size = 0,
                                                              !.capacity = 0]]
            /\ cache_used_bytes' = cache_used_bytes - entry[e].capacity
        BY <1>3, <3>2 DEF Main!Grow
      <4>2. entry'[e].capacity = 0
        BY <2>1, <4>1 DEF EntryRecord
      <4>3. /\ cache_used_bytes - entry[e].capacity = (cache_used_bytes - entry[e].capacity) + 0
            /\ cache_used_bytes - entry[e].capacity <= CACHE_MAX_BYTES
        BY <2>1
      <4> QED
        BY <1>0, <2>2, <4>1, <4>2, <4>3, AccountMoved
    <3> QED
      BY <3>1, <3>2
  <2>4. FetchTypes'
    BY <1>0, <1>3, EntryTyped DEF Main!Grow, FetchTypes, FetcherPlaces
  <2> QED
    BY <2>3, <2>4
<1>4. CASE Main!Store(e)
  <2>1. entry'[e].capacity = entry[e].capacity
    BY <1>0, <1>4, EntryTyped DEF Main!Store, EntryRecord
  <2>2. AccountOK'
    BY <1>0, <1>4, <2>1, AccountKept DEF Main!Store
  <2>3. FetchTypes'
    BY <1>0, <1>4, EntryTyped, CacheAssumption DEF Main!Store, FetchTypes, FetcherPlaces
  <2> QED
    BY <2>2, <2>3
<1>5. CASE Main!Complete(e)
  <2>1. entry'[e].capacity = entry[e].capacity
    BY <1>0, <1>5, EntryTyped DEF Main!Complete, EntryRecord
  <2>2. AccountOK'
    BY <1>0, <1>5, <2>1, AccountKept DEF Main!Complete
  <2>3. FetchTypes'
    BY <1>0, <1>5, EntryTyped, CacheAssumption DEF Main!Complete, FetchTypes, FetcherPlaces
  <2> QED
    BY <2>2, <2>3
<1> QED
  BY <1>1, <1>2, <1>3, <1>4, <1>5 DEF MainFetcher

(* ... and those of main1.c and main2.c.                                     *)
LEMMA HeaderAccount ==
  ASSUME StateOK, NEW p \in {"main1", "main2"}, program = p, UNCHANGED program, NEW e \in Entry,
         HeaderFetcher(p, e)
  PROVE  AccountOK' /\ FetchTypes'
<1>0. FetchEffect(e) /\ TypesOK /\ waiting \subseteq Clients /\ freed \subseteq Entry
  BY HeaderEffect, CacheAssumption DEF StateOK, TypesOK, TypeOK
<1> USE DEF Header!HoldsLock
<1>1. CASE Header(p)!GiveUp(e)
  <2>1. entry'[e].capacity = entry[e].capacity
    BY <1>0, <1>1, EntryTyped DEF Header!GiveUp, EntryRecord
  <2>2. AccountOK'
    BY <1>0, <1>1, <2>1, AccountKept DEF Header!GiveUp
  <2>3. FetchTypes'
    BY <1>0, <1>1, EntryTyped, CacheAssumption DEF Header!GiveUp, FetchTypes, FetcherPlaces
  <2> QED
    BY <2>2, <2>3
<1>2. CASE Header(p)!NoHeaders(e)
  <2>1. entry'[e].capacity = entry[e].capacity
    BY <1>0, <1>2, EntryTyped DEF Header!NoHeaders, EntryRecord
  <2>2. AccountOK'
    BY <1>0, <1>2, <2>1, AccountKept DEF Header!NoHeaders
  <2>3. FetchTypes'
    BY <1>0, <1>2, EntryTyped, CacheAssumption DEF Header!NoHeaders, FetchTypes, FetcherPlaces
  <2> QED
    BY <2>2, <2>3
<1>3. CASE Header(p)!Headers(e)
  <2>1. entry'[e].capacity = entry[e].capacity
    BY <1>0, <1>3, EntryTyped DEF Header!Headers, EntryRecord
  <2>2. AccountOK'
    BY <1>0, <1>3, <2>1, AccountKept DEF Header!Headers
  <2>3. FetchTypes'
    BY <1>0, <1>3, EntryTyped, CacheAssumption DEF Header!Headers, FetchTypes, FetcherPlaces
  <2> QED
    BY <2>2, <2>3
<1>4. CASE Header(p)!TakeRoom(e)
  <2>1. /\ cache_used_bytes \in Nat /\ total_size[e] \in Nat /\ entry[e] \in EntryRecord
        /\ entry \in [Entry -> EntryRecord] /\ entry[e].capacity = 0 /\ fetcher[e] = "grow"
    BY <1>0, <1>4, EntryTyped
       DEF Header!TakeRoom, StateOK, TypesOK, TypeOK, HeaderOK, HeaderEntry
  <2>2. /\ entry' = [entry EXCEPT ![e] = [entry[e] EXCEPT !.capacity = total_size[e], !.size = 1]]
        /\ cache_used_bytes' = cache_used_bytes + total_size[e]
        /\ cache_used_bytes + total_size[e] <= CACHE_MAX_BYTES
        /\ UNCHANGED <<cache_table, freed>>
    BY <1>4 DEF Header!TakeRoom
  <2>3. entry'[e].capacity = total_size[e]
    BY <2>1, <2>2 DEF EntryRecord
  <2>4. cache_used_bytes + total_size[e] = (cache_used_bytes - entry[e].capacity) + total_size[e]
    BY <2>1
  <2>5. AccountOK'
    BY <1>0, <2>1, <2>2, <2>3, <2>4, AccountMoved
  <2>6. FetchTypes'
    BY <1>0, <1>4, EntryTyped
       DEF Header!TakeRoom, Header!LeaveHeaders, FetchTypes, FetcherPlaces
  <2> QED
    BY <2>5, <2>6
<1>5. CASE Header(p)!NoRoom(e)
  <2>1. entry'[e].capacity = entry[e].capacity
    BY <1>0, <1>5, EntryTyped DEF Header!NoRoom, EntryRecord
  <2>2. AccountOK'
    BY <1>0, <1>5, <2>1, AccountKept DEF Header!NoRoom
  <2>3. FetchTypes'
    BY <1>0, <1>5, EntryTyped, CacheAssumption
       DEF Header!NoRoom, FetchTypes, FetcherPlaces, Header!LeaveHeaders
  <2> QED
    BY <2>2, <2>3
<1>6. CASE Header(p)!Refuse(e)
  <2>1. entry'[e].capacity = entry[e].capacity
    BY <1>0, <1>6, EntryTyped DEF Header!Refuse, EntryRecord
  <2>2. AccountOK'
    BY <1>0, <1>6, <2>1, AccountKept DEF Header!Refuse
  <2>3. FetchTypes'
    BY <1>0, <1>6, EntryTyped, CacheAssumption DEF Header!Refuse, FetchTypes, FetcherPlaces
  <2> QED
    BY <2>2, <2>3
<1>7. CASE Header(p)!BodyPart(e)
  <2>1. entry'[e].capacity = entry[e].capacity
    BY <1>0, <1>7, EntryTyped DEF Header!BodyPart, EntryRecord
  <2>2. AccountOK'
    BY <1>0, <1>7, <2>1, AccountKept DEF Header!BodyPart
  <2>3. FetchTypes'
    BY <1>0, <1>7, EntryTyped, CacheAssumption DEF Header!BodyPart, FetchTypes, FetcherPlaces
  <2> QED
    BY <2>2, <2>3
<1>8. CASE Header(p)!StoreChunk(e)
  <2>1. entry'[e].capacity = entry[e].capacity
    BY <1>0, <1>8, EntryTyped DEF Header!StoreChunk, EntryRecord
  <2>2. AccountOK'
    BY <1>0, <1>8, <2>1, AccountKept DEF Header!StoreChunk
  <2>3. FetchTypes'
    BY <1>0, <1>8, EntryTyped, CacheAssumption
       DEF Header!StoreChunk, FetchTypes, FetcherPlaces, Header!Room
  <2> QED
    BY <2>2, <2>3
<1>9. CASE Header(p)!TooMuch(e)
  <2>1. entry'[e].capacity = entry[e].capacity
    BY <1>0, <1>9, EntryTyped DEF Header!TooMuch, EntryRecord
  <2>2. AccountOK'
    BY <1>0, <1>9, <2>1, AccountKept DEF Header!TooMuch
  <2>3. FetchTypes'
    BY <1>0, <1>9, EntryTyped, CacheAssumption DEF Header!TooMuch, FetchTypes, FetcherPlaces
  <2> QED
    BY <2>2, <2>3
<1>10. CASE Header(p)!EndReceive(e)
  <2>1. entry'[e].capacity = entry[e].capacity
    BY <1>0, <1>10, EntryTyped DEF Header!EndReceive, EntryRecord
  <2>2. AccountOK'
    BY <1>0, <1>10, <2>1, AccountKept DEF Header!EndReceive
  <2>3. FetchTypes'
    BY <1>0, <1>10, EntryTyped, CacheAssumption DEF Header!EndReceive, FetchTypes, FetcherPlaces
  <2> QED
    BY <2>2, <2>3
<1>11. CASE Header(p)!Close(e)
  <2>1. /\ cache_used_bytes \in Nat /\ entry[e].capacity \in Nat /\ entry[e] \in EntryRecord
        /\ entry \in [Entry -> EntryRecord] /\ CACHE_MAX_BYTES \in Nat
        /\ cache_used_bytes <= CACHE_MAX_BYTES
    BY <1>0, EntryTyped, CacheAssumption DEF StateOK, TypesOK, TypeOK, UsedWithinLimit
  <2>6. fetcher[e] = "done" /\ UNCHANGED <<cache_table, freed>>
    BY <1>11 DEF Header!Close
  <2>5. AccountOK'
    <3>1. CASE Header(p)!IsShort(e)
      <4>1. entry' = [entry EXCEPT ![e] = [entry[e] EXCEPT !.cacheable = FALSE, !.complete = TRUE,
                                                           !.size = 0, !.capacity = 0]]
        BY <1>11, <3>1 DEF Header!Close
      <4>2. cache_used_bytes' = cache_used_bytes - entry[e].capacity
        BY <1>11, <3>1 DEF Header!Close
      <4>3. entry'[e].capacity = 0
        BY <2>1, <4>1 DEF EntryRecord
      <4>4. /\ cache_used_bytes - entry[e].capacity = (cache_used_bytes - entry[e].capacity) + 0
            /\ cache_used_bytes - entry[e].capacity <= CACHE_MAX_BYTES
        BY <2>1
      <4> QED
        BY <1>0, <2>6, <4>2, <4>3, <4>4, AccountMoved
    <3>2. CASE ~Header(p)!IsShort(e)
      <4>1. entry' = [entry EXCEPT ![e] = [entry[e] EXCEPT !.complete = TRUE]]
        BY <1>11, <3>2 DEF Header!Close
      <4>2. cache_used_bytes' = cache_used_bytes
        BY <1>11, <3>2 DEF Header!Close
      <4>3. entry'[e].capacity = entry[e].capacity
        BY <2>1, <4>1 DEF EntryRecord
      <4> QED
        BY <1>0, <2>6, <4>2, <4>3, AccountKept
    <3> QED
      BY <3>1, <3>2
  <2>4. FetchTypes'
    BY <1>0, <1>11, EntryTyped DEF Header!Close, FetchTypes, FetcherPlaces
  <2> QED
    BY <2>4, <2>5
<1> QED
  BY <1>1, <1>2, <1>3, <1>4, <1>5, <1>6, <1>7, <1>8, <1>9, <1>10, <1>11 DEF HeaderFetcher

(* A step of any fetcher *)
FetchersStep ==
  /\ UNCHANGED program
  /\ \/ UNCHANGED total_size /\ \E e \in Entry : FetcherStep(e)
     \/ program = "main" /\ UNCHANGED total_size /\ \E e \in Entry : MainFetcher(e)
     \/ \E p \in {"main1", "main2"} : program = p /\ \E e \in Entry : HeaderFetcher(p, e)

(* A step of a fetcher keeps what is said of the cache and of its entries. *)
LEMMA FetchersStepKeeps ==
  ASSUME StateOK, FetchersStep
  PROVE  /\ StateOK'
         /\ EvictedOnly /\ \E e \in Entry : FetchEffect(e)
<1>1. PICK e \in Entry : FetchEffect(e) /\ AccountOK' /\ FetchTypes' /\ EntryPart(e)'
         /\ EvictedOnly
  <2>1. CASE UNCHANGED total_size /\ \E e \in Entry : FetcherStep(e)
    BY <2>1, FetcherEffect, FetcherAccount, FetcherEntry DEF FetchersStep
  <2>2. CASE program = "main" /\ UNCHANGED total_size /\ \E e \in Entry : MainFetcher(e)
    BY <2>2, MainEffect, MainAccount, MainFetcherEntry, StreamAssumption
       DEF FetchersStep, EvictedOnly
  <2>3. CASE \E p \in {"main1", "main2"} : program = p /\ \E e \in Entry : HeaderFetcher(p, e)
    BY <2>3, HeaderEffect, HeaderAccount, HeaderFetcherEntry, CacheAssumption
       DEF FetchersStep, EvictedOnly
  <2> QED
    BY <2>1, <2>2, <2>3 DEF FetchersStep
<1>2. \A x \in Entry : EntryPart(x)'
  BY <1>1, OtherEntry DEF EvictedOnly
<1>3. EntriesOK' /\ MainOK' /\ HeaderOK'
  BY <1>2 DEF EntryPart, EntriesOK, MainOK, HeaderOK
<1>4. TypesOK'
  <2>1. \A x \in Entry : elock'[x] \in Clients \cup {x, None}
    <3>1. \A x \in Entry : elock[x] \in Clients \cup {x, None}
      BY DEF StateOK, TypesOK, TypeOK
    <3> QED
      BY <1>1, <3>1 DEF FetchEffect
  <2>2. UNCHANGED <<program, tablelock, pc, url, mine, offset, reg, outcome>>
    BY <1>1 DEF FetchEffect
  <2>3. entry' \in [Entry -> EntryRecord]
    BY <1>1 DEF FetchEffect
  <2> QED
    BY <1>1, <2>1, <2>2, <2>3
       DEF StateOK, TypesOK, TypeOK, AccountOK, FetchTypes, FetcherPlaces, EntryRecord, SizeType
<1>5. ClientsOK'
  <2>1. UNCHANGED <<program, tablelock, pc, mine, offset>>
    BY <1>1 DEF FetchEffect
  <2>2. \A x \in Entry : entry'[x].url = entry[x].url
    BY <1>1 DEF FetchEffect
  <2>3. \A c \in Clients, x \in Entry : elock'[x] = c <=> elock[x] = c
    BY <1>1, EntryNames, CacheAssumption DEF FetchEffect
  <2>4. ASSUME NEW c \in Clients PROVE ClientOK(c)'
    <3>1. ClientOK(c)
      BY DEF StateOK, ClientsOK
    <3>2. pc[c] \in {"drop", "block"} => mine[c] \in Entry
      BY <3>1 DEF ClientOK, Serving
    <3> QED
      BY <2>1, <2>2, <2>3, <3>1, <3>2 DEF ClientOK, ClientLabels, Used
  <2> QED
    BY <2>4 DEF ClientsOK
<1> QED
  BY <1>1, <1>3, <1>4, <1>5 DEF StateOK, AccountOK
-----------------------------------------------------------------------------
(* The steps of the clients *)

(* The labels of all the clients, and the types of what clients change *)
ClientPlaces ==
  {"request", "hit", "miss", "insert", "loop", "block", "waiting", "send", "sent", "stream",
   "leave", "drop", "direct", "closed"}

ClientTypes ==
  /\ tablelock \in Clients \cup {None}
  /\ elock \in [Entry -> Clients \cup Entry \cup {None}]
  /\ waiting \subseteq Clients
  /\ pc \in [Clients -> ClientPlaces]
  /\ mine \in [Clients -> Entry \cup {None}]
  /\ offset \in [Clients -> Nat] /\ reg \in [Clients -> Int]
  /\ outcome \in [Clients -> {"none", "cached", "direct", "broken"}]

(* The locals of the clients have their types.                               *)
LEMMA ClientTyped ==
  ASSUME TypesOK
  PROVE  /\ ClientTypes
         /\ \A c \in Clients : offset[c] \in Nat /\ reg[c] \in Int
BY DEF TypesOK, TypeOK, ClientTypes, ClientPlaces

(* What a step of the client c may change, but for the insertion of an entry *)
ServeEffect(c) ==
  /\ UNCHANGED <<program, cache_table, cache_used_bytes, freed, fetcher, received, total_size, url>>
  /\ entry' \in [Entry -> EntryRecord]
  /\ \A x \in Entry :
       /\ entry'[x].url = entry[x].url /\ entry'[x].size = entry[x].size
       /\ entry'[x].capacity = entry[x].capacity /\ entry'[x].complete = entry[x].complete
       /\ entry'[x].cacheable = entry[x].cacheable
       /\ x # mine[c] => entry'[x] = entry[x]
       /\ elock'[x] # elock[x] => {elock[x], elock'[x]} \subseteq {None, c}
  /\ \A d \in Clients \ {c} :
       /\ pc'[d] = pc[d] /\ mine'[d] = mine[d] /\ offset'[d] = offset[d]
       /\ reg'[d] = reg[d] /\ outcome'[d] = outcome[d]
       /\ tablelock' = d <=> tablelock = d
  /\ mine'[c] # mine[c] => mine[c] = None /\ pc[c] = "request"
  /\ pc'[c] = "hit" => pc[c] = "request"
  /\ pc'[c] \in {"request", "miss", "insert"} => pc[c] \in {"request", "miss", "insert"}
  /\ ClientTypes'
  /\ ClientOK(c)'

(* Such a step keeps what is said of the cache and of its entries. *)
LEMMA ServeKeeps ==
  ASSUME StateOK, NEW c \in Clients, ServeEffect(c)
  PROVE  StateOK'
<1>1. /\ UNCHANGED <<program, cache_table, cache_used_bytes, freed, fetcher, received,
                     total_size, url>>
      /\ entry' \in [Entry -> EntryRecord] /\ ClientTypes' /\ ClientOK(c)'
  BY DEF ServeEffect
<1>2. \A x \in Entry :
        /\ entry'[x].url = entry[x].url /\ entry'[x].size = entry[x].size
        /\ entry'[x].capacity = entry[x].capacity /\ entry'[x].complete = entry[x].complete
        /\ entry'[x].cacheable = entry[x].cacheable
        /\ x # mine[c] => entry'[x] = entry[x]
  BY DEF ServeEffect
<1>3. \A x \in Entry : elock'[x] # elock[x] => {elock[x], elock'[x]} \subseteq {None, c}
  BY DEF ServeEffect
<1>4. /\ TypesOK /\ UsedWithinLimit /\ UsedIsAccounted /\ TableOK
      /\ EntriesOK /\ MainOK /\ HeaderOK /\ ClientsOK
  BY DEF StateOK
<1>5. TypesOK'
  <2>1. \A x \in Entry : elock'[x] \in Clients \cup {x, None}
    <3>1. \A x \in Entry : elock[x] \in Clients \cup {x, None}
      BY <1>4 DEF TypesOK, TypeOK
    <3> QED
      BY <1>3, <3>1
  <2> QED
    BY <1>1, <1>4, <2>1 DEF TypesOK, TypeOK, SizeType, ClientTypes, ClientPlaces, EntryRecord
<1>6. UsedWithinLimit' /\ UsedIsAccounted' /\ TableOK'
  BY <1>1, <1>2, <1>4, AccountFrame DEF UsedWithinLimit, TableOK
<1>7. ASSUME NEW x \in Entry PROVE EntryPart(x)'
  <2>1. EntryPart(x)
    BY <1>4 DEF EntriesOK, MainOK, HeaderOK, EntryPart
  <2>2. elock'[x] = x <=> elock[x] = x
    BY <1>3, EntryNames
  <2>3. ~Used(x) => entry'[x] = entry[x]
    BY <1>2, <1>4 DEF ClientsOK, ClientOK
  <2> QED
    BY <1>1, <1>2, <2>1, <2>2, <2>3
       DEF EntryPart, EntryOK, MainEntry, HeaderEntry, FetcherLabels, LockLabels, Ended, Used
<1>8. EntriesOK' /\ MainOK' /\ HeaderOK'
  BY <1>7 DEF EntryPart, EntriesOK, MainOK, HeaderOK
<1>9. ASSUME NEW d \in Clients \ {c} PROVE ClientOK(d)'
  <2>1. ClientOK(d)
    BY <1>4 DEF ClientsOK
  <2>2. /\ pc'[d] = pc[d] /\ mine'[d] = mine[d] /\ offset'[d] = offset[d]
        /\ tablelock' = d <=> tablelock = d
    BY DEF ServeEffect
  <2>3. \A x \in Entry : elock'[x] = d <=> elock[x] = d
    BY <1>3, CacheAssumption
  <2>4. pc[d] \in {"drop", "block"} => mine[d] \in Entry
    BY <2>1 DEF ClientOK, Serving
  <2> QED
    BY <1>1, <1>2, <2>1, <2>2, <2>3, <2>4 DEF ClientOK, ClientLabels, Used
<1>10. ClientsOK'
  BY <1>1, <1>9 DEF ClientsOK
<1> QED
  BY <1>5, <1>6, <1>8, <1>10 DEF StateOK

(* The first list entry for the url *)
LEMMA MinHit ==
  ASSUME TypesOK, NEW u \in Urls, Hits(u) # {}
  PROVE  /\ cache_table[Min(Hits(u))] \in Entry
         /\ Used(cache_table[Min(Hits(u))])
<1>1. Hits(u) \subseteq 1 .. Len(cache_table) /\ cache_table \in Seq(Entry)
  BY DEF Hits, TypesOK, TypeOK
<1>2. Len(cache_table) \in Nat
  BY <1>1
<1>3. Min(Hits(u)) \in Hits(u)
  BY <1>1, <1>2, Hits(u) # {}, LeastPicked
<1> QED
  BY <1>1, <1>3, CacheAssumption DEF Hits, Used

(* The shared steps, but for the insertion, change no more than that, ...    *)
LEMMA ClientEffect ==
  ASSUME StateOK, NEW c \in Clients, UNCHANGED <<program, total_size>>,
         Lookup(c) \/ CountReference(c) \/ DropLoad(c) \/ \E l \in {"direct", "closed"} :
            (l = "direct" => program = "main") /\ DropReference(c, l)
  PROVE  ServeEffect(c)
<1>0. /\ TypesOK /\ ClientTypes /\ ClientOK(c) /\ url[c] \in Urls
      /\ entry \in [Entry -> EntryRecord] /\ None \notin Clients
  BY ClientTyped, EntryTyped, CacheAssumption DEF StateOK, ClientsOK, TypesOK, TypeOK
<1>1. CASE Lookup(c)
  <2>0. pc[c] = "request" /\ tablelock = None /\ mine[c] = None
    BY <1>0, <1>1 DEF Lookup, ClientOK
  <2>1. CASE Hits(url[c]) = {}
    <3>1. /\ pc' = [pc EXCEPT ![c] = "miss"]
          /\ UNCHANGED <<tablelock, mine, reg, cache_table, cache_used_bytes, entry, freed, elock,
                         waiting, fetcher, received, url, offset, outcome>>
      BY <1>1, <2>1 DEF Lookup
    <3>2. ClientTypes'
      BY <1>0, <3>1 DEF ClientTypes, ClientPlaces
    <3>3. ClientOK(c)'
      BY <1>0, <2>0, <3>1, ClientTypes DEF ClientTypes, ClientOK, ClientLabels, Serving, Used
    <3> QED
      BY <1>0, <2>0, <3>1, <3>2, <3>3 DEF ServeEffect, ClientTypes
  <2>2. CASE Hits(url[c]) # {}
    <3> DEFINE e == cache_table[Min(Hits(url[c]))]
    <3>0. e \in Entry /\ Used(e) /\ e # None
      BY <1>0, <2>2, MinHit, EntryNames
    <3>1. /\ pc' = [pc EXCEPT ![c] = "hit"] /\ tablelock' = c /\ mine' = [mine EXCEPT ![c] = e]
          /\ reg' = [reg EXCEPT ![c] = entry[e].refcount]
          /\ UNCHANGED <<cache_table, cache_used_bytes, entry, freed, elock,
                         waiting, fetcher, received, url, offset, outcome>>
      BY <1>1, <2>2 DEF Lookup
    <3>4. entry[e].refcount \in Int
      BY <1>0, <3>0, EntryTyped
    <3> HIDE DEF e
    <3>2. ClientTypes'
      BY <1>0, <3>0, <3>1, <3>4 DEF ClientTypes, ClientPlaces
    <3>3. ClientOK(c)'
      BY <1>0, <2>0, <3>0, <3>1 DEF ClientTypes, ClientOK, ClientLabels, Serving, Used
    <3> QED
      BY <1>0, <2>0, <3>1, <3>2, <3>3 DEF ServeEffect, ClientTypes
  <2> QED
    BY <2>1, <2>2
<1>2. CASE CountReference(c)
  <2>0. pc[c] = "hit" /\ tablelock = c /\ mine[c] \in Entry /\ Used(mine[c])
    BY <1>0, <1>2 DEF CountReference, ClientOK, Serving
  <2>1. /\ pc' = [pc EXCEPT ![c] = "loop"] /\ tablelock' = None /\ reg' = [reg EXCEPT ![c] = 0]
        /\ UNCHANGED <<cache_table, cache_used_bytes, freed, elock, waiting, fetcher, received, url,
                       mine, offset, outcome>>
    BY <1>2 DEF CountReference
  <2>2. entry' = [entry EXCEPT ![mine[c]] = [entry[mine[c]] EXCEPT !.refcount = reg[c] + 1]]
    BY <1>2 DEF CountReference
  <2>3. [entry[mine[c]] EXCEPT !.refcount = reg[c] + 1] \in EntryRecord
    BY <1>0, <2>0, ClientTyped DEF EntryRecord
  <2>4. ClientTypes'
    BY <1>0, <2>1 DEF ClientTypes, ClientPlaces
  <2>5. entry' \in [Entry -> EntryRecord]
    BY <1>0, <2>2, <2>3
  <2>6. \A x \in Entry :
          /\ entry'[x].url = entry[x].url /\ entry'[x].size = entry[x].size
          /\ entry'[x].capacity = entry[x].capacity /\ entry'[x].complete = entry[x].complete
          /\ entry'[x].cacheable = entry[x].cacheable
          /\ x # mine[c] => entry'[x] = entry[x]
    BY <1>0, <2>2 DEF EntryRecord
  <2>7. ClientOK(c)'
    BY <1>0, <2>0, <2>1, <2>6 DEF ClientTypes, ClientOK, ClientLabels, Serving, Used
  <2> QED
    BY <1>0, <2>0, <2>1, <2>4, <2>5, <2>6, <2>7 DEF ServeEffect, ClientTypes
<1>3. CASE DropLoad(c)
  <2>0. /\ pc[c] = "leave" /\ mine[c] \in Entry /\ Used(mine[c])
        /\ elock[mine[c]] = None /\ tablelock # c
    BY <1>0, <1>3 DEF DropLoad, ClientOK, Serving
  <2>1. /\ pc' = [pc EXCEPT ![c] = "drop"] /\ elock' = [elock EXCEPT ![mine[c]] = c]
        /\ reg' = [reg EXCEPT ![c] = entry[mine[c]].refcount]
        /\ UNCHANGED <<cache_table, cache_used_bytes, tablelock, entry, freed, waiting, fetcher,
                       received, url, mine, offset, outcome>>
    BY <1>3 DEF DropLoad
  <2>2. entry[mine[c]].refcount \in Int
    BY <1>0, <2>0, EntryTyped
  <2>4. ClientTypes'
    BY <1>0, <2>0, <2>1, <2>2 DEF ClientTypes, ClientPlaces
  <2>7. ClientOK(c)'
    BY <1>0, <2>0, <2>1 DEF ClientTypes, ClientOK, ClientLabels, Serving, Used
  <2> QED
    BY <1>0, <2>0, <2>1, <2>4, <2>7 DEF ServeEffect, ClientTypes
<1>4. ASSUME NEW l \in {"direct", "closed"}, l = "direct" => program = "main", DropReference(c, l)
      PROVE  ServeEffect(c)
  <2>0. pc[c] = "drop" /\ mine[c] \in Entry /\ Used(mine[c]) /\ elock[mine[c]] = c /\ tablelock # c
    BY <1>0, <1>4 DEF DropReference, ClientOK, Serving
  <2>1. /\ pc' = [pc EXCEPT ![c] = l] /\ elock' = [elock EXCEPT ![mine[c]] = None]
        /\ reg' = [reg EXCEPT ![c] = 0]
        /\ outcome' = [outcome EXCEPT ![c] = IF @ = "none" THEN "cached" ELSE @]
        /\ UNCHANGED <<cache_table, cache_used_bytes, tablelock, freed, waiting, fetcher, received,
                       url, mine, offset>>
    BY <1>4 DEF DropReference
  <2>2. entry' = [entry EXCEPT ![mine[c]] = [entry[mine[c]] EXCEPT !.refcount = reg[c] - 1]]
    BY <1>4 DEF DropReference
  <2>3. [entry[mine[c]] EXCEPT !.refcount = reg[c] - 1] \in EntryRecord
    BY <1>0, <2>0, ClientTyped DEF EntryRecord
  <2>4. ClientTypes'
    BY <1>0, <2>0, <2>1 DEF ClientTypes, ClientPlaces
  <2>5. entry' \in [Entry -> EntryRecord]
    BY <1>0, <2>2, <2>3
  <2>6. \A x \in Entry :
          /\ entry'[x].url = entry[x].url /\ entry'[x].size = entry[x].size
          /\ entry'[x].capacity = entry[x].capacity /\ entry'[x].complete = entry[x].complete
          /\ entry'[x].cacheable = entry[x].cacheable
          /\ x # mine[c] => entry'[x] = entry[x]
    BY <1>0, <2>2 DEF EntryRecord
  <2>7. ClientOK(c)'
    BY <1>0, <1>4, <2>0, <2>1, <2>6 DEF ClientTypes, ClientOK, ClientLabels, Serving, Used
  <2> QED
    BY <1>0, <2>0, <2>1, <2>4, <2>5, <2>6, <2>7 DEF ServeEffect, ClientTypes
<1> QED
  BY <1>1, <1>2, <1>3, <1>4

(* The steps that take no lock, give none back and leave the entries alone *)
LEMMA PlainEffect ==
  ASSUME StateOK, NEW c \in Clients, NEW l \in ClientLabels, pc' = [pc EXCEPT ![c] = l],
         l \notin {"request", "hit", "miss", "block", "drop"},
         pc[c] \notin {"request", "hit", "block", "drop"},
         l = "insert" => pc[c] = "miss" /\ offset' = offset,
         l \in Serving => pc[c] \in Serving,
         UNCHANGED <<program, total_size, cache_table, cache_used_bytes, tablelock, entry, freed,
                     elock, fetcher, received, url, mine>>,
         waiting' \subseteq Clients,
         offset' \in [Clients -> Nat], reg' \in [Clients -> Int],
         outcome' \in [Clients -> {"none", "cached", "direct", "broken"}],
         \A d \in Clients \ {c} :
           offset'[d] = offset[d] /\ reg'[d] = reg[d] /\ outcome'[d] = outcome[d]
  PROVE  ServeEffect(c)
<1>1. /\ TypesOK /\ ClientTypes /\ ClientOK(c) /\ entry \in [Entry -> EntryRecord]
  BY ClientTyped, EntryTyped DEF StateOK, ClientsOK
<1>2. ClientTypes'
  BY <1>1 DEF ClientTypes, ClientPlaces, ClientLabels
<1>3. pc'[c] = l
  BY <1>1 DEF ClientTypes
<1>4. ClientOK(c)'
  BY <1>1, <1>3 DEF ClientOK, ClientLabels, Serving, Used
<1> QED
  BY <1>1, <1>2, <1>3, <1>4 DEF ServeEffect, ClientTypes

(* A client of main.c waits or sends. *)
LEMMA WaitOrSendEffect ==
  ASSUME StateOK, program = "main", UNCHANGED <<program, total_size>>, NEW c \in Clients,
         pc[c] \in {"loop", "waiting"}, Main!WaitOrSend(c)
  PROVE  ServeEffect(c)
<1>1. /\ TypesOK /\ ClientTypes /\ ClientOK(c) /\ offset[c] \in Nat
  BY ClientTyped DEF StateOK, ClientsOK
<1>2. mine[c] \in Entry /\ entry[mine[c]].size \in Nat
  BY <1>1, EntryTyped DEF ClientOK, Serving
<1>3. /\ waiting' \subseteq Clients
      /\ reg' \in [Clients -> Int]
      /\ \A d \in Clients \ {c} : reg'[d] = reg[d]
  BY <1>1, <1>2 DEF Main!WaitOrSend, ClientTypes
<1>4. \E l \in {"waiting", "send", "leave"} : pc' = [pc EXCEPT ![c] = l]
  BY DEF Main!WaitOrSend
<1>5. UNCHANGED <<cache_table, cache_used_bytes, tablelock, entry, freed, elock, fetcher, received,
                  url, mine, offset, outcome>>
  BY DEF Main!WaitOrSend
<1> QED
  BY <1>1, <1>3, <1>4, <1>5, PlainEffect DEF ClientLabels, Serving, ClientTypes

(* ... nor do main.c's own ...                                               *)
LEMMA MainClientEffect ==
  ASSUME StateOK, program = "main", UNCHANGED <<program, total_size>>, NEW c \in Clients,
         MainClient(c)
  PROVE  ServeEffect(c)
<1>0. /\ TypesOK /\ ClientTypes /\ ClientOK(c) /\ offset[c] \in Nat /\ reg[c] \in Int
  BY ClientTyped DEF StateOK, ClientsOK
<1>1. CASE Main!TestSpace(c)
  <2>1. \E l \in {"insert", "direct"} : pc' = [pc EXCEPT ![c] = l]
    BY <1>1 DEF Main!TestSpace
  <2>2. /\ pc[c] = "miss"
        /\ UNCHANGED <<cache_table, cache_used_bytes, tablelock, entry, freed, elock, waiting,
                       fetcher, received, url, mine, offset, reg, outcome>>
    BY <1>1 DEF Main!TestSpace
  <2> QED
    BY <1>0, <2>1, <2>2, PlainEffect DEF ClientLabels, Serving, ClientTypes
<1>2. CASE Main!LoopTop(c)
  <2>1. CASE Main!WaitOrSend(c)
    BY <1>2, <2>1, WaitOrSendEffect DEF Main!LoopTop
  <2>2. CASE /\ outcome' = [outcome EXCEPT ![c] = "direct"] /\ pc' = [pc EXCEPT ![c] = "leave"]
             /\ UNCHANGED <<cache_table, cache_used_bytes, tablelock, entry, freed, elock, waiting,
                            fetcher, received, url, mine, offset, reg>>
    <3>1. pc[c] = "loop"
      BY <1>2 DEF Main!LoopTop
    <3>2. "leave" \in ClientLabels
      BY DEF ClientLabels
    <3> QED
      BY <1>0, <2>2, <3>1, <3>2, PlainEffect DEF Serving, ClientTypes
  <2> QED
    BY <1>2, <2>1, <2>2 DEF Main!LoopTop
<1>3. CASE Main!Woken(c)
  BY <1>3, WaitOrSendEffect DEF Main!Woken
<1>4. CASE Main!Send(c)
  <2>1. /\ pc[c] = "send"
        /\ UNCHANGED <<cache_table, cache_used_bytes, tablelock, entry, freed, elock, waiting,
                       fetcher, received, url, mine>>
        /\ reg' = [reg EXCEPT ![c] = 0]
    BY <1>4 DEF Main!Send
  <2>2. CASE /\ reg[c] > 0 /\ offset' = [offset EXCEPT ![c] = offset[c] + reg[c]]
             /\ pc' = [pc EXCEPT ![c] = "loop"] /\ outcome' = outcome
    <3>1. offset[c] + reg[c] \in Nat
      BY <1>0, <2>2
    <3>2. "loop" \in ClientLabels
      BY DEF ClientLabels
    <3>3. /\ offset' \in [Clients -> Nat] /\ reg' \in [Clients -> Int]
          /\ \A d \in Clients \ {c} : offset'[d] = offset[d] /\ reg'[d] = reg[d]
      BY <1>0, <2>1, <2>2, <3>1 DEF ClientTypes
    <3> QED
      BY <1>0, <2>1, <2>2, <3>2, <3>3, PlainEffect DEF Serving, ClientTypes
  <2>3. CASE /\ outcome' = [outcome EXCEPT ![c] = "broken"] /\ pc' = [pc EXCEPT ![c] = "leave"]
             /\ offset' = offset
    <3>2. "leave" \in ClientLabels
      BY DEF ClientLabels
    <3>3. /\ reg' \in [Clients -> Int]
          /\ outcome' \in [Clients -> {"none", "cached", "direct", "broken"}]
          /\ \A d \in Clients \ {c} : reg'[d] = reg[d] /\ outcome'[d] = outcome[d]
      BY <1>0, <2>1, <2>3 DEF ClientTypes
    <3> QED
      BY <1>0, <2>1, <2>3, <3>2, <3>3, PlainEffect DEF Serving, ClientTypes
  <2> QED
    BY <1>4, <2>2, <2>3 DEF Main!Send
<1>5. CASE Main!DirectFetch(c)
  <2>1. /\ pc[c] = "direct" /\ pc' = [pc EXCEPT ![c] = "closed"]
        /\ outcome' = [outcome EXCEPT ![c] = "direct"]
        /\ UNCHANGED <<cache_table, cache_used_bytes, tablelock, entry, freed, elock, waiting,
                       fetcher, received, url, mine, offset, reg>>
    BY <1>5 DEF Main!DirectFetch
  <2>2. "closed" \in ClientLabels
    BY DEF ClientLabels
  <2> QED
    BY <1>0, <2>1, <2>2, PlainEffect DEF Serving, ClientTypes
<1> QED
  BY <1>1, <1>2, <1>3, <1>4, <1>5 DEF MainClient

(* The body of the loop of main1.c and main2.c: the client takes the lock to *)
(* wait, or goes on.                                                         *)
LEMMA LoopEffect ==
  ASSUME StateOK, NEW p \in {"main1", "main2"}, program = p, UNCHANGED <<program, total_size>>,
         NEW c \in Clients, pc[c] \in {"loop", "waiting", "sent"}, Header(p)!Loop(c)
  PROVE  ServeEffect(c)
<1>1. /\ TypesOK /\ ClientTypes /\ ClientOK(c) /\ offset[c] \in Nat /\ reg[c] \in Int
  BY ClientTyped DEF StateOK, ClientsOK
<1>2. mine[c] \in Entry /\ entry[mine[c]].size \in Nat /\ entry \in [Entry -> EntryRecord]
  BY <1>1, EntryTyped DEF ClientOK, Serving
<1>3. UNCHANGED <<cache_table, cache_used_bytes, tablelock, entry, freed, waiting, fetcher,
                  received, url, mine, offset>>
  BY DEF Header!Loop
<1>4. CASE Header(p)!MustWait(c)
  <2>1. /\ elock[mine[c]] = None /\ elock' = [elock EXCEPT ![mine[c]] = c]
        /\ pc' = [pc EXCEPT ![c] = "block"] /\ UNCHANGED <<reg, outcome>>
    BY <1>4 DEF Header!Loop
  <2>2. ClientTypes'
    BY <1>1, <1>2, <1>3, <2>1 DEF ClientTypes, ClientPlaces
  <2>3. ClientOK(c)'
    BY <1>1, <1>2, <1>3, <2>1 DEF ClientTypes, ClientOK, ClientLabels, Serving, Used
  <2> QED
    BY <1>1, <1>2, <1>3, <2>1, <2>2, <2>3 DEF ServeEffect, ClientTypes
<1>5. CASE ~Header(p)!MustWait(c)
  <2>1. elock' = elock /\ \E l \in {"stream", "send", "leave"} : pc' = [pc EXCEPT ![c] = l]
    BY <1>5 DEF Header!Loop
  <2>2. /\ reg' \in [Clients -> Int] /\ \A d \in Clients \ {c} : reg'[d] = reg[d]
    BY <1>1, <1>2, <1>5 DEF Header!Loop, ClientTypes
  <2>3. /\ outcome' \in [Clients -> {"none", "cached", "direct", "broken"}]
        /\ \A d \in Clients \ {c} : outcome'[d] = outcome[d]
    BY <1>1, <1>2, <1>5 DEF Header!Loop, ClientTypes
  <2> QED
    BY <1>1, <1>3, <2>1, <2>2, <2>3, PlainEffect DEF ClientLabels, Serving, ClientTypes
<1> QED
  BY <1>4, <1>5

(* ... nor those of main1.c and main2.c.                                     *)
LEMMA HeaderClientEffect ==
  ASSUME StateOK, ServedAll, NEW p \in {"main1", "main2"}, program = p,
         UNCHANGED <<program, total_size>>, NEW c \in Clients, HeaderClient(p, c)
  PROVE  ServeEffect(c)
<1>0. /\ TypesOK /\ ClientTypes /\ ClientOK(c) /\ offset[c] \in Nat /\ reg[c] \in Int
      /\ entry \in [Entry -> EntryRecord]
  BY ClientTyped, EntryTyped DEF StateOK, ClientsOK
<1>1. CASE Header(p)!LoopTop(c)
  BY <1>1, LoopEffect DEF Header!LoopTop
<1>2. CASE Header(p)!Block(c)
  <2>1. /\ pc[c] = "block" /\ elock' = [elock EXCEPT ![mine[c]] = None]
        /\ pc' = [pc EXCEPT ![c] = "waiting"] /\ waiting' = waiting \cup {c}
        /\ UNCHANGED <<cache_table, cache_used_bytes, tablelock, entry, freed, fetcher, received,
                       url, mine, offset, reg, outcome>>
    BY <1>2 DEF Header!Block
  <2>2. mine[c] \in Entry /\ elock[mine[c]] = c /\ c # None
    BY <1>0, <2>1, CacheAssumption DEF ClientOK, Serving
  <2>3. ClientTypes'
    BY <1>0, <2>1, <2>2 DEF ClientTypes, ClientPlaces
  <2>4. ClientOK(c)'
    BY <1>0, <2>1, <2>2 DEF ClientTypes, ClientOK, ClientLabels, Serving, Used
  <2> QED
    BY <1>0, <2>1, <2>2, <2>3, <2>4 DEF ServeEffect, ClientTypes
<1>3. CASE Header(p)!Woken(c)
  BY <1>3, LoopEffect DEF Header!Woken
<1>4. CASE Header(p)!Send(c)
  <2>1. /\ pc[c] = "send"
        /\ UNCHANGED <<cache_table, cache_used_bytes, tablelock, entry, freed, elock, waiting,
                       fetcher, received, url, mine>>
        /\ reg' = [reg EXCEPT ![c] = 0]
    BY <1>4 DEF Header!Send
  <2>2. CASE /\ offset' = [offset EXCEPT ![c] = offset[c] + reg[c]]
             /\ pc' = [pc EXCEPT ![c] = "sent"] /\ outcome' = outcome
    <3>1. offset[c] + reg[c] \in Nat
      <4>1. reg[c] > 0
        BY <2>1 DEF ServedAll, ServedOK
      <4> QED
        BY <1>0, <4>1
    <3>2. "sent" \in ClientLabels
      BY DEF ClientLabels
    <3>3. /\ offset' \in [Clients -> Nat] /\ reg' \in [Clients -> Int]
          /\ \A d \in Clients \ {c} : offset'[d] = offset[d] /\ reg'[d] = reg[d]
      BY <1>0, <2>1, <2>2, <3>1 DEF ClientTypes
    <3> QED
      BY <1>0, <2>1, <2>2, <3>2, <3>3, PlainEffect DEF Serving, ClientTypes
  <2>3. CASE /\ outcome' = [outcome EXCEPT ![c] = "broken"] /\ pc' = [pc EXCEPT ![c] = "leave"]
             /\ offset' = offset
    <3>2. "leave" \in ClientLabels
      BY DEF ClientLabels
    <3>3. /\ reg' \in [Clients -> Int]
          /\ outcome' \in [Clients -> {"none", "cached", "direct", "broken"}]
          /\ \A d \in Clients \ {c} : reg'[d] = reg[d] /\ outcome'[d] = outcome[d]
      BY <1>0, <2>1, <2>3 DEF ClientTypes
    <3> QED
      BY <1>0, <2>1, <2>3, <3>2, <3>3, PlainEffect DEF Serving, ClientTypes
  <2> QED
    BY <1>4, <2>2, <2>3 DEF Header!Send
<1>5. CASE Header(p)!AfterSend(c)
  <2>1. CASE Header(p)!Loop(c)
    BY <1>5, <2>1, LoopEffect DEF Header!AfterSend
  <2>2. CASE /\ pc' = [pc EXCEPT ![c] = "leave"]
             /\ UNCHANGED <<cache_table, cache_used_bytes, tablelock, entry, freed, elock, waiting,
                            fetcher, received, url, mine, offset, reg, outcome>>
    <3>1. pc[c] = "sent"
      BY <1>5 DEF Header!AfterSend
    <3>2. "leave" \in ClientLabels
      BY DEF ClientLabels
    <3> QED
      BY <1>0, <2>2, <3>1, <3>2, PlainEffect DEF Serving, ClientTypes
  <2> QED
    BY <1>5, <2>1, <2>2 DEF Header!AfterSend
<1>6. CASE Header(p)!StreamDirectly(c)
  <2>1. /\ pc[c] = "stream" /\ pc' = [pc EXCEPT ![c] = "leave"]
        /\ UNCHANGED <<cache_table, cache_used_bytes, tablelock, entry, freed, elock, waiting,
                       fetcher, received, url, mine, offset, reg, outcome>>
    BY <1>6 DEF Header!StreamDirectly
  <2>2. "leave" \in ClientLabels
    BY DEF ClientLabels
  <2> QED
    BY <1>0, <2>1, <2>2, PlainEffect DEF Serving, ClientTypes
<1> QED
  BY <1>1, <1>2, <1>3, <1>4, <1>5, <1>6 DEF HeaderClient

(* What is said of the clients outlives the steps of the fetchers, too.      *)
LEMMA FetchersKeepRest ==
  ASSUME Inv, FetchersStep
  PROVE  Inv'
<1>1. StateOK /\ ServedAll /\ Main2OK /\ AloneAll /\ EnoughEntries
  BY DEF Inv
<1>2. StateOK' /\ EvictedOnly
  BY <1>1, FetchersStepKeeps
<1>3. PICK e \in Entry : FetchEffect(e)
  BY <1>1, FetchersStepKeeps
<1>4. /\ UNCHANGED <<program, tablelock, pc, url, mine, offset, reg, outcome>>
      /\ \A x \in Entry : /\ entry'[x].url = entry[x].url /\ entry'[x].refcount = entry[x].refcount
                          /\ x # e => entry'[x] = entry[x] /\ fetcher'[x] = fetcher[x]
                          /\ entry'[x].cacheable =>
                               entry[x].cacheable /\ entry[x].size <= entry'[x].size
                          /\ entry[x].complete => entry'[x] = entry[x]
  <2>1. \A x \in Entry : entry[x].size <= entry[x].size
    BY <1>1, EntryTyped DEF StateOK
  <2> QED
    BY <1>3, <2>1 DEF FetchEffect
<1>5. TypesOK /\ TypesOK' /\ ClientTypes
  BY <1>1, <1>2, ClientTyped DEF StateOK
<1>6. ServedAll'
  <2>1. ASSUME NEW c \in Clients PROVE ServedOK(c)'
    <3>1. ServedOK(c)
      BY <1>1 DEF ServedAll
    <3>2. offset[c] \in Nat /\ reg[c] \in Int
      BY <1>5, ClientTyped
    <3>3. CASE mine[c] \in Entry
      <4>1. PICK m : m = mine[c]
        OBVIOUS
      <4>2. PICK n : n = entry'[m].size
        OBVIOUS
      <4>3. n \in Nat /\ entry[m].size \in Nat
        <5>1. m \in Entry
          BY <3>3, <4>1
        <5>2. entry' \in [Entry -> EntryRecord]
          BY <1>3 DEF FetchEffect
        <5> QED
          BY <1>5, <4>2, <5>1, <5>2, EntryTyped DEF EntryRecord
      <4>4. entry'[m].cacheable => entry[m].cacheable /\ entry[m].size <= n
        BY <1>4, <3>3, <4>1, <4>2
      <4>5. entry[m].complete => entry'[m] = entry[m]
        BY <1>4, <3>3, <4>1
      <4> QED
        BY <1>4, <3>1, <3>2, <3>3, <4>1, <4>2, <4>3, <4>4, <4>5 DEF ServedOK
    <3>4. CASE mine[c] \notin Entry
      BY <1>4, <3>1, <3>4 DEF ServedOK
    <3> QED
      BY <3>3, <3>4
  <2> QED
    BY <2>1 DEF ServedAll
<1>7. Main2OK'
  <2> SUFFICES ASSUME program = "main2" PROVE Main2OK'
    BY <1>4 DEF Main2OK
  <2>1. fetcher[e] \notin {"none", "exit"}
    BY <1>3 DEF FetchEffect
  <2>2. ASSUME NEW c \in Clients PROVE Main2Client(c)'
    <3>1. Main2Client(c) /\ ServedOK(c)
      BY <1>1 DEF Main2OK, ServedAll
    <3>2. CASE mine[c] = e
      <4>1. /\ pc[c] \in Early /\ (pc[c] = "hit" => reg[c] >= 1) /\ offset[c] = 0
            /\ outcome[c] = "none"
        BY <2>1, <3>1, <3>2 DEF Main2Client, ServedOK, Early
      <4> QED
        BY <1>4, <4>1 DEF Main2Client, Early
    <3>3. CASE mine[c] # e
      BY <1>4, <3>1, <3>3 DEF Main2Client
    <3> QED
      BY <3>2, <3>3
  <2>3. ASSUME NEW x \in Entry PROVE Main2Entry(x)'
    <3>1. /\ Main2Entry(x) /\ Main2Entry(e)
          /\ entry[x].complete <=> fetcher[x] \in {"signal", "exit"}
      BY <1>1 DEF Main2OK, StateOK, EntriesOK, EntryOK, Ended
    <3>2. x \in freed' => fetcher'[x] = "exit"
      <4>1. x \in freed' => fetcher[x] = "exit"
        BY <1>2, <3>1 DEF EvictedOnly, Main2Entry
      <4> QED
        BY <1>4, <2>1, <4>1
    <3>3. fetcher'[x] \notin {"none", "exit"} => entry'[x].refcount >= 1
      BY <1>4, <2>1, <3>1 DEF Main2Entry
    <3> QED
      BY <3>2, <3>3 DEF Main2Entry
  <2> QED
    BY <2>2, <2>3 DEF Main2OK
<1>8. AloneAll'
  <2>1. ASSUME NEW c \in Clients PROVE AloneOK(c)'
    <3>1. AloneOK(c) /\ ClientOK(c)
      BY <1>1 DEF AloneAll, StateOK, ClientsOK
    <3>2. pc[c] \in Serving => mine[c] \in Entry
      BY <3>1 DEF ClientOK
    <3> QED
      BY <1>2, <1>4, <3>1, <3>2 DEF AloneOK, Alone, EvictedOnly
  <2>2. \A x \in Entry : Used(x)' => MadeBy(x)'
    BY <1>1, <1>4 DEF AloneAll, Used, MadeBy
  <2> QED
    BY <2>1, <2>2 DEF AloneAll
<1>9. EnoughEntries'
  <2>1. {x \in Entry : Used(x)}' = {x \in Entry : Used(x)} /\ Made' = Made
    BY <1>4 DEF Used, Made
  <2> QED
    BY <1>1, <2>1 DEF EnoughEntries
<1> QED
  BY <1>2, <1>6, <1>7, <1>8, <1>9 DEF Inv

(* The blocks in use *)
UsedEntries == {e \in Entry : Used(e)}

(* While a client has yet to make its request there is an unused block. *)
LEMMA NewEntryUnused ==
  ASSUME Inv, NEW c \in Clients, c \notin Made
  PROVE  /\ NewEntry \in Entry /\ entry[NewEntry] = Unused /\ NewEntry \notin freed
         /\ fetcher[NewEntry] = "none" /\ received[NewEntry] = 0 /\ elock[NewEntry] = None
         /\ \A d \in Clients : mine[d] # NewEntry
<1>1. /\ IsFiniteSet(Clients) /\ IsFiniteSet(Entry) /\ Cardinality(Clients) <= Cardinality(Entry)
  BY CacheAssumption
<1>2. /\ Made \subseteq Clients \ {c} /\ IsFiniteSet(Clients \ {c})
      /\ Cardinality(Clients \ {c}) = Cardinality(Clients) - 1
  BY <1>1, FS_RemoveElement DEF Made
<1>3. Cardinality(Made) <= Cardinality(Clients) - 1 /\ Cardinality(Clients) \in Nat
  BY <1>1, <1>2, FS_Subset, FS_CardinalityType
<1>4. Cardinality(UsedEntries) <= Cardinality(Made)
  BY DEF Inv, EnoughEntries, UsedEntries
<1>5. UsedEntries # Entry
  <2>1. IsFiniteSet(Made)
    BY <1>2, FS_Subset
  <2>2. Cardinality(Made) \in Nat /\ Cardinality(Entry) \in Nat
    BY <1>1, <2>1, FS_CardinalityType
  <2> QED
    BY <1>1, <1>3, <1>4, <2>2
<1>6. \E e \in Entry : entry[e].url = None
  BY <1>5 DEF UsedEntries, Used
<1>7. NewEntry \in Entry /\ entry[NewEntry].url = None
  BY <1>6 DEF NewEntry
<1> DEFINE n == NewEntry
<1> HIDE DEF n
<1>8. n \in Entry /\ ~Used(n)
  BY <1>7 DEF Used, n
<1>9. /\ entry[n] = Unused /\ received[n] = 0 /\ fetcher[n] = "none" /\ n \notin freed
      /\ elock[n] # n
  BY <1>8 DEF Inv, StateOK, EntriesOK, EntryOK, Ended, LockLabels
<1>10. \A d \in Clients : mine[d] # n /\ elock[n] # d
  BY <1>8 DEF Inv, StateOK, ClientsOK, ClientOK
<1>11. elock[n] = None
  BY <1>8, <1>9, <1>10 DEF Inv, StateOK, TypesOK, TypeOK
<1> QED
  BY <1>8, <1>9, <1>10, <1>11 DEF n

(* What an insertion does *)
InsertEffect(c, n) ==
  /\ pc[c] = (IF program = "main" THEN "insert" ELSE "miss") /\ tablelock = None
  /\ entry' = [entry EXCEPT ![n] = [Unused EXCEPT !.url = url[c], !.cacheable = TRUE,
                                                  !.refcount = 1]]
  /\ cache_table' = Pushed(n, cache_table)
  /\ mine' = [mine EXCEPT ![c] = n]
  /\ fetcher' = [fetcher EXCEPT ![n] = "recv"]
  /\ pc' = [pc EXCEPT ![c] = "loop"]
  /\ UNCHANGED <<program, total_size, cache_used_bytes, tablelock, freed, elock, waiting, received,
                 url, offset, reg, outcome>>

(* An insertion keeps the invariant: it takes a block nobody knows of.       *)
LEMMA InsertKeeps ==
  ASSUME Inv, NEW c \in Clients, UNCHANGED <<program, total_size>>,
         Insert(c, IF program = "main" THEN "insert" ELSE "miss")
  PROVE  Inv'
<1> DEFINE n == NewEntry
<1>1. InsertEffect(c, n)
  BY DEF Insert, InsertEffect, Pushed
<1>2. /\ StateOK /\ ServedAll /\ Main2OK /\ AloneAll /\ EnoughEntries
      /\ TypesOK /\ ClientTypes /\ url[c] \in Urls /\ url[c] # None
  <2>1. StateOK /\ ServedAll /\ Main2OK /\ AloneAll /\ EnoughEntries /\ TypesOK
    BY DEF Inv, StateOK
  <2>2. url[c] \in Urls
    BY <2>1 DEF TypesOK, TypeOK
  <2> QED
    BY <2>1, <2>2, ClientTyped, CacheAssumption
<1>3. pc[c] \in {"miss", "insert"} /\ c \notin Made
  BY <1>1 DEF Made, InsertEffect
<1>4. /\ n \in Entry /\ entry[n] = Unused /\ n \notin freed
      /\ fetcher[n] = "none" /\ received[n] = 0 /\ elock[n] = None
      /\ \A d \in Clients : mine[d] # n
  BY <1>3, NewEntryUnused
<1> HIDE DEF n
<1>5. /\ mine[c] = None /\ offset[c] = 0 /\ outcome[c] = "none" /\ tablelock # c
      /\ \A x \in Entry : elock[x] # c
  BY <1>2, <1>3 DEF StateOK, ClientsOK, ClientOK, ServedAll, ServedOK
<1>6. /\ entry'[n].url = url[c] /\ entry'[n].size = 0 /\ entry'[n].capacity = 0
      /\ entry'[n].complete = FALSE /\ entry'[n].cacheable = TRUE /\ entry'[n].refcount = 1
      /\ entry' \in [Entry -> EntryRecord]
      /\ \A x \in Entry \ {n} : entry'[x] = entry[x]
  <2>1. entry' = [entry EXCEPT ![n] = [Unused EXCEPT !.url = url[c], !.cacheable = TRUE,
                                                     !.refcount = 1]]
    BY <1>1 DEF InsertEffect
  <2>2. [Unused EXCEPT !.url = url[c], !.cacheable = TRUE, !.refcount = 1] \in EntryRecord
    <3>1. Unused \in EntryRecord
      BY DEF Unused, EntryRecord
    <3>2. ASSUME NEW r \in EntryRecord, NEW u \in Urls
          PROVE  [r EXCEPT !.url = u, !.cacheable = TRUE, !.refcount = 1] \in EntryRecord
      <4>1. PICK k \in Int : k = 1
        OBVIOUS
      <4>2. [r EXCEPT !.url = u, !.cacheable = TRUE, !.refcount = k] \in EntryRecord
        BY DEF EntryRecord
      <4> QED
        BY <4>1, <4>2
    <3> QED
      BY <1>2, <3>1, <3>2
  <2>3. entry \in [Entry -> EntryRecord]
    BY <1>2, EntryTyped
  <2> QED
    BY <1>4, <2>1, <2>2, <2>3 DEF Unused
<1>7. /\ fetcher'[n] = "recv" /\ \A x \in Entry \ {n} : fetcher'[x] = fetcher[x]
      /\ fetcher' \in [Entry -> FetcherPlaces]
  BY <1>1, <1>2, <1>4, EntryTyped DEF InsertEffect, FetcherPlaces
<1>8. /\ pc'[c] = "loop" /\ mine'[c] = n
      /\ \A d \in Clients \ {c} : pc'[d] = pc[d] /\ mine'[d] = mine[d]
      /\ pc' \in [Clients -> ClientPlaces] /\ mine' \in [Clients -> Entry \cup {None}]
  BY <1>1, <1>2, <1>4 DEF InsertEffect, ClientTypes, ClientPlaces
<1>9. UNCHANGED <<program, total_size, cache_used_bytes, tablelock, freed, elock, waiting, received,
                  url, offset, reg, outcome>>
  BY <1>1 DEF InsertEffect
<1>10. UsedIsAccounted' /\ TableOK' /\ cache_table' \in Seq(Entry)
  <2>1. cache_table' = Pushed(n, cache_table)
    BY <1>1 DEF InsertEffect
  <2>2. \A x \in Entry : /\ entry'[x].capacity = entry[x].capacity
                         /\ entry'[x].url = IF x = n THEN url[c] ELSE entry[x].url
    BY <1>4, <1>6 DEF Unused
  <2>3. TableOK /\ UsedIsAccounted
    BY <1>2 DEF StateOK
  <2> QED
    BY <1>2, <1>4, <1>9, <2>1, <2>2, <2>3, AccountInsert, CacheAssumption
<1>11. TypesOK'
  <2>1. \A x \in Entry : elock'[x] \in Clients \cup {x, None}
    BY <1>2, <1>9 DEF TypesOK, TypeOK
  <2> QED
    BY <1>2, <1>6, <1>7, <1>8, <1>9, <1>10, <2>1
       DEF TypesOK, TypeOK, SizeType, ClientTypes, ClientPlaces, EntryRecord, FetcherPlaces
<1>12. UsedWithinLimit'
  BY <1>2, <1>9 DEF StateOK, UsedWithinLimit
<1>13. ASSUME NEW x \in Entry PROVE EntryPart(x)'
  <2>1. EntryPart(x)
    BY <1>2 DEF StateOK, EntriesOK, MainOK, HeaderOK, EntryPart
  <2>2. CASE x # n
    BY <1>6, <1>7, <1>9, <2>1, <2>2
       DEF EntryPart, EntryOK, MainEntry, HeaderEntry, FetcherLabels, LockLabels, Ended, Used
  <2>3. CASE x = n
    <3>1. CACHE_MAX_BYTES \in Nat /\ n # None
      BY <1>4, CacheAssumption, EntryNames
    <3> QED
      BY <1>2, <1>4, <1>6, <1>7, <1>9, <2>3, <3>1
         DEF EntryPart, EntryOK, MainEntry, HeaderEntry, FetcherLabels, LockLabels, Ended, Used
  <2> QED
    BY <2>2, <2>3
<1>14. EntriesOK' /\ MainOK' /\ HeaderOK'
  BY <1>13 DEF EntryPart, EntriesOK, MainOK, HeaderOK
<1>15. ASSUME NEW d \in Clients
       PROVE  ClientOK(d)' /\ ServedOK(d)' /\ (program = "main2" => Main2Client(d)')
  <2>1. /\ ClientOK(d) /\ ServedOK(d) /\ (program = "main2" => Main2Client(d))
        /\ mine[d] # n /\ (mine[d] \in Entry => Used(mine[d]))
    BY <1>2, <1>4 DEF StateOK, ClientsOK, ServedAll, Main2OK, ClientOK
  <2>2. CASE d # c
    <3>1. /\ pc'[d] = pc[d] /\ mine'[d] = mine[d]
          /\ mine[d] \in Entry =>
               entry'[mine[d]] = entry[mine[d]] /\ fetcher'[mine[d]] = fetcher[mine[d]]
      BY <1>6, <1>7, <1>8, <2>1, <2>2
    <3>2. ClientOK(d)'
      BY <1>9, <2>1, <3>1 DEF ClientOK, ClientLabels, Serving, Used
    <3>3. ServedOK(d)'
      BY <1>9, <2>1, <3>1 DEF ServedOK
    <3>4. program = "main2" => Main2Client(d)'
      BY <1>9, <2>1, <3>1 DEF Main2Client
    <3> QED
      BY <3>2, <3>3, <3>4
  <2>3. CASE d = c
    <3>1. ClientOK(d)'
      BY <1>2, <1>4, <1>5, <1>6, <1>8, <1>9, <2>3 DEF ClientOK, ClientLabels, Serving, Used
    <3>2. ServedOK(d)'
      BY <1>5, <1>6, <1>8, <1>9, <2>3 DEF ServedOK
    <3>3. Main2Client(d)'
      BY <1>5, <1>6, <1>7, <1>8, <1>9, <2>3 DEF Main2Client, Early
    <3> QED
      BY <3>1, <3>2, <3>3
  <2> QED
    BY <2>2, <2>3
<1>16. ClientsOK' /\ ServedAll'
  BY <1>15 DEF ClientsOK, ServedAll
<1>17. Main2OK'
  <2>1. ASSUME program = "main2", NEW x \in Entry PROVE Main2Entry(x)'
    <3>1. Main2Entry(x)
      BY <1>2, <2>1 DEF Main2OK
    <3> QED
      BY <1>4, <1>6, <1>7, <1>9, <3>1 DEF Main2Entry
  <2> QED
    BY <1>9, <1>15, <2>1 DEF Main2OK
<1>18. AloneAll'
  <2>1. ASSUME NEW d \in Clients PROVE AloneOK(d)'
    <3>1. CASE d = c
      BY <1>4, <1>6, <1>8, <1>9, <3>1 DEF AloneOK
    <3>2. CASE d # c
      <4> SUFFICES ASSUME Alone(d)', pc[d] \in Serving
                   PROVE  AloneOK(d)'
        BY <1>8, <3>2 DEF AloneOK
      <4>1. mine[d] \in Entry /\ mine[d] # n
        BY <1>2, <1>4 DEF StateOK, ClientsOK, ClientOK
      <4>2. Alone(d)
        BY <1>5, <1>8, <3>2, <4>1, EntryNames DEF Alone
      <4>3. AloneOK(d)
        BY <1>2 DEF AloneAll
      <4> QED
        BY <1>6, <1>8, <1>9, <3>2, <4>1, <4>2, <4>3 DEF AloneOK
    <3> QED
      BY <3>1, <3>2
  <2>2. ASSUME NEW x \in Entry, Used(x)' PROVE MadeBy(x)'
    <3>1. CASE x = n
      BY <1>8, <3>1 DEF MadeBy
    <3>2. CASE x # n
      <4>1. PICK d \in Clients : mine[d] = x /\ pc[d] # "hit"
        BY <1>2, <1>6, <2>2, <3>2 DEF AloneAll, Used, MadeBy
      <4>2. d # c
        BY <1>5, <4>1, EntryNames
      <4> QED
        BY <1>8, <4>1, <4>2 DEF MadeBy
    <3> QED
      BY <3>1, <3>2
  <2> QED
    BY <2>1, <2>2 DEF AloneAll
<1>19. EnoughEntries'
  <2>1. UsedEntries' = UsedEntries \cup {n} /\ n \notin UsedEntries
    BY <1>2, <1>4, <1>6 DEF UsedEntries, Used, Unused
  <2>2. Made' = Made \cup {c}
    BY <1>8 DEF Made
  <2>3. IsFiniteSet(UsedEntries) /\ IsFiniteSet(Made)
    BY FS_Subset, CacheAssumption DEF UsedEntries, Made
  <2>4. /\ Cardinality(UsedEntries \cup {n}) = Cardinality(UsedEntries) + 1
        /\ Cardinality(Made \cup {c}) = Cardinality(Made) + 1
        /\ Cardinality(UsedEntries) \in Nat /\ Cardinality(Made) \in Nat
    BY <1>3, <2>1, <2>3, FS_AddElement, FS_CardinalityType
  <2>5. Cardinality(UsedEntries) <= Cardinality(Made)
    BY <1>2 DEF EnoughEntries, UsedEntries
  <2>6. Cardinality(UsedEntries \cup {n}) <= Cardinality(Made \cup {c})
    BY <2>4, <2>5
  <2> QED
    BY <2>1, <2>2, <2>6 DEF EnoughEntries, UsedEntries
<1>20. StateOK'
  BY <1>10, <1>11, <1>12, <1>14, <1>16 DEF StateOK
<1> QED
  BY <1>16, <1>17, <1>18, <1>19, <1>20 DEF Inv

(* A step that serves the client c keeps the invariant if it keeps what is   *)
(* said of c itself.                                                         *)
LEMMA ServeInv ==
  ASSUME Inv, NEW c \in Clients, ServeEffect(c), ServedOK(c)', AloneOK(c)',
         program = "main2" => Main2Client(c)' /\ \A e \in Entry : Main2Entry(e)',
         pc'[c] = "hit" => \A e \in Entry : Used(e)' => MadeBy(e)'
  PROVE  Inv'
<1>1. StateOK /\ ServedAll /\ Main2OK /\ AloneAll /\ EnoughEntries
  BY DEF Inv
<1>2. StateOK' /\ program' = program
  BY <1>1, ServeKeeps DEF ServeEffect
<1>3. /\ \A d \in Clients \ {c} :
           /\ pc'[d] = pc[d] /\ mine'[d] = mine[d] /\ offset'[d] = offset[d]
           /\ reg'[d] = reg[d] /\ outcome'[d] = outcome[d]
      /\ \A x \in Entry :
           /\ entry'[x].url = entry[x].url /\ entry'[x].size = entry[x].size
           /\ entry'[x].complete = entry[x].complete
           /\ entry'[x].cacheable = entry[x].cacheable
           /\ x # mine[c] => entry'[x] = entry[x]
      /\ UNCHANGED <<freed, fetcher>>
  BY DEF ServeEffect
<1>4. /\ mine'[c] # mine[c] => mine[c] = None /\ pc[c] = "request"
      /\ pc'[c] = "hit" => pc[c] = "request"
      /\ pc'[c] \in {"request", "miss", "insert"} => pc[c] \in {"request", "miss", "insert"}
  BY DEF ServeEffect
<1>5. ASSUME NEW d \in Clients \ {c}
      PROVE  ServedOK(d)' /\ AloneOK(d)' /\ (program = "main2" => Main2Client(d)')
  <2>1. ClientOK(d) /\ ServedOK(d) /\ AloneOK(d) /\ (program = "main2" => Main2Client(d))
    BY <1>1 DEF StateOK, ClientsOK, ServedAll, AloneAll, Main2OK
  <2>2. ServedOK(d)'
    BY <1>2, <1>3, <2>1 DEF ServedOK
  <2>3. program = "main2" => Main2Client(d)'
    BY <1>2, <1>3, <2>1 DEF Main2Client
  <2>4. AloneOK(d)'
    <3> SUFFICES ASSUME Alone(d)', pc[d] \in Serving PROVE AloneOK(d)'
      BY <1>3 DEF AloneOK
    <3>1. mine[d] \in Entry
      BY <2>1 DEF ClientOK
    <3>2. mine[c] # mine[d] /\ Alone(d)
      BY <1>3, <1>4, <3>1, EntryNames DEF Alone
    <3> QED
      BY <1>3, <2>1, <3>1, <3>2 DEF AloneOK
  <2> QED
    BY <2>2, <2>3, <2>4
<1>6. ServedAll'
  BY <1>5 DEF ServedAll
<1>7. Main2OK'
  BY <1>2, <1>5 DEF Main2OK
<1>8. ASSUME NEW e \in Entry, Used(e)' PROVE MadeBy(e)'
  <2>1. CASE pc'[c] # "hit"
    <3>1. PICK d \in Clients : mine[d] = e /\ pc[d] # "hit"
      BY <1>1, <1>3, <1>8 DEF AloneAll, Used, MadeBy
    <3>2. mine'[d] = mine[d] /\ pc'[d] # "hit"
      BY <1>3, <1>4, <2>1, <3>1, EntryNames
    <3> QED
      BY <3>1, <3>2 DEF MadeBy
  <2> QED
    BY <1>8, <2>1
<1>9. AloneAll'
  BY <1>5, <1>8 DEF AloneAll
<1>10. EnoughEntries'
  <2>1. UsedEntries' = UsedEntries
    BY <1>3 DEF UsedEntries, Used
  <2>2. Made \subseteq Made'
    BY <1>3, <1>4 DEF Made
  <2>3. IsFiniteSet(UsedEntries) /\ IsFiniteSet(Made')
    BY FS_Subset, CacheAssumption DEF UsedEntries, Made
  <2>4. /\ Cardinality(Made) <= Cardinality(Made') /\ IsFiniteSet(Made)
    BY <2>2, <2>3, FS_Subset
  <2>5. /\ Cardinality(UsedEntries) \in Nat /\ Cardinality(Made) \in Nat
        /\ Cardinality(Made') \in Nat
    BY <2>3, <2>4, FS_CardinalityType
  <2>6. Cardinality(UsedEntries) <= Cardinality(Made)
    BY <1>1 DEF EnoughEntries, UsedEntries
  <2>7. Cardinality(UsedEntries) <= Cardinality(Made')
    BY <2>4, <2>5, <2>6
  <2> QED
    BY <2>1, <2>7 DEF EnoughEntries, UsedEntries
<1> QED
  BY <1>2, <1>6, <1>7, <1>9, <1>10 DEF Inv

(* Most of these steps leave the entry alone, too. *)
LEMMA PlainInv ==
  ASSUME Inv, NEW c \in Clients, ServeEffect(c), entry' = entry, mine' = mine,
         pc[c] # "hit", pc'[c] \notin {"hit", "drop"}, pc'[c] \in Serving => pc[c] \in Serving,
         ServedOK(c)', program = "main2" => Main2Client(c)'
  PROVE  Inv'
<1>1. AloneOK(c) /\ (program = "main2" => \A e \in Entry : Main2Entry(e))
  BY DEF Inv, AloneAll, Main2OK
<1>2. UNCHANGED <<freed, fetcher>>
  BY DEF ServeEffect
<1>3. AloneOK(c)'
  BY <1>1, <1>2 DEF AloneOK, Alone
<1>4. program = "main2" => \A e \in Entry : Main2Entry(e)'
  BY <1>1, <1>2 DEF Main2Entry
<1> QED
  BY <1>3, <1>4, ServeInv

(* What the invariant says of a client *)
LEMMA OfClient ==
  ASSUME Inv, NEW c \in Clients
  PROVE  /\ StateOK /\ TypesOK /\ ClientTypes /\ ClientOK(c) /\ ServedOK(c) /\ AloneOK(c)
         /\ program = "main2" => Main2Client(c) /\ \A e \in Entry : Main2Entry(e)
         /\ offset[c] \in Nat /\ reg[c] \in Int /\ program \in {"main", "main1", "main2"}
         /\ entry \in [Entry -> EntryRecord]
<1>1. StateOK /\ TypesOK
  BY DEF Inv, StateOK
<1> QED
  BY <1>1, ClientTyped, EntryTyped
     DEF Inv, StateOK, TypesOK, ClientsOK, ServedAll, AloneAll, Main2OK

(* The other shared steps of a client keep it as well, ...                   *)
LEMMA ClientKeeps ==
  ASSUME Inv, NEW c \in Clients, UNCHANGED <<program, total_size>>, ClientStep(c)
  PROVE  Inv'
<1>0. /\ StateOK /\ TypesOK /\ ClientTypes /\ ClientOK(c) /\ ServedOK(c) /\ AloneOK(c)
      /\ program = "main2" => Main2Client(c) /\ \A e \in Entry : Main2Entry(e)
      /\ entry \in [Entry -> EntryRecord] /\ offset[c] \in Nat /\ reg[c] \in Int
  BY OfClient
<1>1. CASE Lookup(c)
  <2>1. /\ ServeEffect(c) /\ UNCHANGED <<program, entry, fetcher, freed, offset, outcome>>
        /\ pc[c] = "request" /\ mine[c] = None /\ offset[c] = 0 /\ outcome[c] = "none"
    BY <1>0, <1>1, ClientEffect DEF Lookup, ClientOK, ServedOK
  <2>2. CASE Hits(url[c]) = {}
    <3>1. pc'[c] = "miss" /\ mine' = mine
      BY <1>0, <1>1, <2>2 DEF Lookup, ClientTypes
    <3>2. ServedOK(c)' /\ Main2Client(c)'
      BY <2>1, <3>1, EntryNames DEF ServedOK, Main2Client
    <3> QED
      BY <2>1, <3>1, <3>2, PlainInv DEF Serving
  <2>3. CASE Hits(url[c]) # {}
    <3> DEFINE e == cache_table[Min(Hits(url[c]))]
    <3>1. /\ pc'[c] = "hit" /\ mine'[c] = e /\ reg'[c] = entry[e].refcount
          /\ \A d \in Clients \ {c} : mine'[d] = mine[d] /\ pc'[d] = pc[d]
      BY <1>0, <1>1, <2>3 DEF Lookup, ClientTypes
    <3>2. e \in Entry /\ Used(e)
      <4>1. url[c] \in Urls
        BY <1>0 DEF TypesOK, TypeOK
      <4> QED
        BY <1>0, <2>3, <4>1, MinHit
    <3> HIDE DEF e
    <3>3. ASSUME NEW x \in Entry, Used(x)
          PROVE  \E d \in Clients \ {c} : mine[d] = x /\ pc[d] # "hit"
      <4>1. MadeBy(x)
        BY <3>3 DEF Inv, AloneAll
      <4> QED
        BY <2>1, <4>1, EntryNames DEF MadeBy
    <3>4. ~Alone(c)'
      BY <3>1, <3>2, <3>3 DEF Alone
    <3>5. AloneOK(c)'
      BY <3>4 DEF AloneOK
    <3>6. \A x \in Entry : Used(x)' => MadeBy(x)'
      BY <2>1, <3>1, <3>3 DEF Used, MadeBy
    <3>7. ServedOK(c)'
      <4>1. entry[e].size \in Nat
        BY <1>0, <3>2, EntryTyped
      <4> QED
        BY <2>1, <3>1, <4>1 DEF ServedOK
    <3>8. fetcher[e] # "none"
      BY <1>0, <3>2 DEF StateOK, EntriesOK, EntryOK
    <3>9. program = "main2" => Main2Client(c)' /\ \A x \in Entry : Main2Entry(x)'
      BY <1>0, <2>1, <3>1, <3>2, <3>8 DEF Main2Client, Main2Entry, Early
    <3> QED
      BY <2>1, <3>5, <3>6, <3>7, <3>9, ServeInv
  <2> QED
    BY <2>2, <2>3
<1>2. CASE CountReference(c)
  <2>1. /\ ServeEffect(c) /\ UNCHANGED <<program, fetcher, freed, mine, offset, outcome>>
        /\ pc[c] = "hit" /\ pc'[c] = "loop" /\ mine[c] \in Entry
    BY <1>0, <1>2, ClientEffect DEF CountReference, ClientOK, Serving, ClientTypes
  <2>2. /\ \A x \in Entry : /\ entry'[x].size = entry[x].size
                            /\ entry'[x].complete = entry[x].complete
                            /\ entry'[x].cacheable = entry[x].cacheable
                            /\ x # mine[c] => entry'[x] = entry[x]
        /\ entry'[mine[c]].refcount = reg[c] + 1
    <3>1. entry' = [entry EXCEPT ![mine[c]] = [entry[mine[c]] EXCEPT !.refcount = reg[c] + 1]]
      BY <1>2 DEF CountReference
    <3> QED
      BY <1>0, <2>1, <3>1 DEF EntryRecord
  <2>3. ServedOK(c)'
    BY <1>0, <2>1, <2>2 DEF ServedOK
  <2>4. AloneOK(c)'
    BY <1>0, <2>1 DEF AloneOK, Alone, Serving
  <2>5. ASSUME program = "main2" PROVE Main2Client(c)' /\ \A x \in Entry : Main2Entry(x)'
    <3>1. Main2Client(c)'
      BY <1>0, <2>1, <2>2, <2>5 DEF Main2Client, Early, ServedOK
    <3>2. fetcher[mine[c]] # "exit" => reg[c] + 1 >= 1
      BY <1>0, <2>1, <2>5 DEF Main2Client
    <3> QED
      BY <1>0, <2>1, <2>2, <2>5, <3>1, <3>2 DEF Main2Entry
  <2> QED
    BY <2>1, <2>3, <2>4, <2>5, ServeInv
<1>3. CASE DropLoad(c)
  <2>1. /\ ServeEffect(c) /\ UNCHANGED <<program, entry, fetcher, freed, mine, offset, outcome>>
        /\ pc[c] = "leave" /\ pc'[c] = "drop" /\ mine[c] \in Entry
        /\ reg'[c] = entry[mine[c]].refcount
    BY <1>0, <1>3, ClientEffect DEF DropLoad, ClientOK, Serving, ClientTypes
  <2>2. ServedOK(c)'
    BY <1>0, <2>1 DEF ServedOK
  <2>3. AloneOK(c)'
    BY <1>0, <2>1 DEF AloneOK, Alone, Serving
  <2>4. program = "main2" => Main2Client(c)' /\ \A x \in Entry : Main2Entry(x)'
    BY <1>0, <2>1 DEF Main2Client, Main2Entry, Early
  <2> QED
    BY <2>1, <2>2, <2>3, <2>4, ServeInv
<1>4. ASSUME NEW l \in {"direct", "closed"}, l = "direct" => program = "main", DropReference(c, l)
      PROVE  Inv'
  <2>1. /\ ServeEffect(c) /\ UNCHANGED <<program, fetcher, freed, mine, offset>>
        /\ pc[c] = "drop" /\ pc'[c] = l /\ mine[c] \in Entry
        /\ outcome'[c] = IF outcome[c] = "none" THEN "cached" ELSE outcome[c]
    BY <1>0, <1>4, ClientEffect DEF DropReference, ClientOK, Serving, ClientTypes
  <2>2. \A x \in Entry : /\ entry'[x].size = entry[x].size /\ entry'[x].complete = entry[x].complete
                         /\ entry'[x].cacheable = entry[x].cacheable
                         /\ x # mine[c] => entry'[x] = entry[x]
    BY <2>1 DEF ServeEffect
  <2>3. ServedOK(c)'
    BY <1>0, <2>1, <2>2 DEF ServedOK
  <2>4. AloneOK(c)'
    BY <2>1 DEF AloneOK, Serving
  <2>5. ASSUME program = "main2" PROVE Main2Client(c)' /\ \A x \in Entry : Main2Entry(x)'
    <3>1. fetcher[mine[c]] = "exit"
      BY <1>0, <2>1, <2>5 DEF Main2Client, Early
    <3>2. Main2Client(c)'
      BY <1>0, <2>1, <2>2, <2>5, <3>1 DEF Main2Client, Early
    <3> QED
      BY <1>0, <2>1, <2>2, <2>5, <3>1, <3>2 DEF Main2Entry
  <2> QED
    BY <1>4, <2>1, <2>3, <2>4, <2>5, ServeInv
<1> QED
  BY <1>1, <1>2, <1>3, <1>4, InsertKeeps DEF ClientStep

(* A client of main.c that waits or sends keeps it, ...                      *)
LEMMA WaitOrSendKeeps ==
  ASSUME Inv, program = "main", UNCHANGED <<program, total_size>>, NEW c \in Clients,
         pc[c] \in {"loop", "waiting"}, Main!WaitOrSend(c)
  PROVE  Inv'
<1>0. /\ StateOK /\ TypesOK /\ ClientTypes /\ ClientOK(c) /\ ServedOK(c)
      /\ offset[c] \in Nat /\ reg[c] \in Int
  BY OfClient
<1>1. ServeEffect(c)
  BY <1>0, WaitOrSendEffect
<1>2. mine[c] \in Entry /\ entry[mine[c]].size \in Nat /\ outcome[c] = "none"
  BY <1>0, EntryTyped DEF ClientOK, Serving, ServedOK
<1>3. UNCHANGED <<program, entry, mine, offset, outcome>>
  BY DEF Main!WaitOrSend
<1>4. CASE Main!MustWait(c)
  <2>1. pc'[c] = "waiting"
    BY <1>0, <1>4 DEF Main!WaitOrSend, ClientTypes
  <2>2. ServedOK(c)'
    BY <1>0, <1>2, <1>3, <2>1 DEF ServedOK
  <2> QED
    BY <1>1, <1>3, <2>1, <2>2, PlainInv DEF Serving
<1>5. CASE ~Main!MustWait(c)
  <2>1. /\ reg'[c] = entry[mine[c]].size - offset[c]
        /\ pc'[c] = IF reg'[c] # 0 THEN "send" ELSE "leave"
    BY <1>0, <1>5 DEF Main!WaitOrSend, ClientTypes
  <2>2. entry[mine[c]].complete \/ offset[c] < entry[mine[c]].size
    BY <1>0, <1>2, <1>5 DEF Main!MustWait
  <2>3. ServedOK(c)'
    <3>1. PICK n, o : n = entry[mine[c]].size /\ o = offset[c]
      OBVIOUS
    <3>2. n \in Nat /\ o \in Nat /\ reg'[c] = n - o
      BY <1>0, <1>2, <2>1, <3>1
    <3>3. o + (n - o) <= n /\ (n - o = 0 => n = o /\ ~(o < n))
      BY <3>2
    <3> QED
      BY <1>0, <1>2, <1>3, <2>1, <2>2, <3>1, <3>2, <3>3 DEF ServedOK
  <2> QED
    BY <1>1, <1>3, <2>1, <2>3, PlainInv DEF Serving
<1> QED
  BY <1>4, <1>5

(* ... as the other steps of main.c's own do.                                *)
LEMMA MainClientKeeps ==
  ASSUME Inv, program = "main", UNCHANGED <<program, total_size>>, NEW c \in Clients,
         MainClient(c)
  PROVE  Inv'
<1>0. /\ StateOK /\ TypesOK /\ ClientTypes /\ ClientOK(c) /\ ServedOK(c)
      /\ offset[c] \in Nat /\ reg[c] \in Int /\ ServeEffect(c)
  BY OfClient, MainClientEffect
<1>1. CASE Main!TestSpace(c)
  <2>1. /\ pc[c] = "miss" /\ pc'[c] \in {"insert", "direct"}
        /\ UNCHANGED <<program, entry, mine, offset, outcome>>
    BY <1>0, <1>1 DEF Main!TestSpace, ClientTypes
  <2>2. mine[c] = None /\ outcome[c] = "none"
    BY <1>0, <2>1 DEF ClientOK, ServedOK
  <2>3. ServedOK(c)'
    BY <2>1, <2>2, EntryNames DEF ServedOK
  <2> QED
    BY <1>0, <2>1, <2>3, PlainInv DEF Serving
<1>2. CASE Main!LoopTop(c)
  <2>1. CASE Main!WaitOrSend(c)
    BY <1>2, <2>1, WaitOrSendKeeps DEF Main!LoopTop
  <2>2. CASE /\ outcome' = [outcome EXCEPT ![c] = "direct"] /\ pc' = [pc EXCEPT ![c] = "leave"]
             /\ UNCHANGED <<entry, mine, offset>>
    <3>1. pc[c] = "loop" /\ pc'[c] = "leave" /\ outcome'[c] = "direct"
      BY <1>0, <1>2, <2>2 DEF Main!LoopTop, ClientTypes
    <3>2. ServedOK(c)'
      BY <1>0, <2>2, <3>1 DEF ServedOK
    <3> QED
      BY <1>0, <2>2, <3>1, <3>2, PlainInv DEF Serving
  <2> QED
    BY <1>2, <2>1, <2>2 DEF Main!LoopTop
<1>3. CASE Main!Woken(c)
  BY <1>3, WaitOrSendKeeps DEF Main!Woken
<1>4. CASE Main!Send(c)
  <2>1. pc[c] = "send" /\ UNCHANGED <<entry, mine>>
    BY <1>4 DEF Main!Send
  <2>2. mine[c] \in Entry /\ entry[mine[c]].size \in Nat
    BY <1>0, <2>1, EntryTyped DEF ClientOK, Serving
  <2>3. CASE /\ offset' = [offset EXCEPT ![c] = offset[c] + reg[c]]
             /\ pc' = [pc EXCEPT ![c] = "loop"] /\ outcome' = outcome
    <3>1. pc'[c] = "loop" /\ offset'[c] = offset[c] + reg[c]
      BY <1>0, <2>3 DEF ClientTypes
    <3>4. ServedOK(c)'
      BY <1>0, <2>1, <2>2, <2>3, <3>1 DEF ServedOK
    <3> QED
      BY <1>0, <2>1, <3>1, <3>4, PlainInv DEF Serving
  <2>4. CASE /\ outcome' = [outcome EXCEPT ![c] = "broken"] /\ pc' = [pc EXCEPT ![c] = "leave"]
             /\ offset' = offset
    <3>1. pc'[c] = "leave" /\ outcome'[c] = "broken"
      BY <1>0, <2>4 DEF ClientTypes
    <3>2. ServedOK(c)'
      BY <1>0, <2>1, <2>2, <2>4, <3>1 DEF ServedOK
    <3> QED
      BY <1>0, <2>1, <3>1, <3>2, PlainInv DEF Serving
  <2> QED
    BY <1>4, <2>3, <2>4 DEF Main!Send
<1>5. CASE Main!DirectFetch(c)
  <2>1. /\ pc[c] = "direct" /\ pc'[c] = "closed" /\ outcome'[c] = "direct"
        /\ UNCHANGED <<program, entry, mine, offset>>
    BY <1>0, <1>5 DEF Main!DirectFetch, ClientTypes
  <2>2. ServedOK(c)'
    BY <1>0, <2>1 DEF ServedOK
  <2> QED
    BY <1>0, <2>1, <2>2, PlainInv DEF Serving
<1> QED
  BY <1>1, <1>2, <1>3, <1>4, <1>5 DEF MainClient

(* The loop of main1.c and main2.c keeps it, if the client did not have all. *)
LEMMA LoopKeeps ==
  ASSUME Inv, NEW p \in {"main1", "main2"}, program = p, UNCHANGED <<program, total_size>>,
         NEW c \in Clients, pc[c] \in {"loop", "waiting", "sent"}, Header(p)!Loop(c),
         elock[mine[c]] = None,
         pc[c] = "sent" => ~(entry[mine[c]].complete /\ offset[c] >= entry[mine[c]].size)
  PROVE  Inv'
<1>0. /\ StateOK /\ TypesOK /\ ClientTypes /\ ClientOK(c) /\ ServedOK(c)
      /\ program = "main2" => Main2Client(c)
      /\ offset[c] \in Nat /\ reg[c] \in Int
  BY OfClient
<1>1. ServeEffect(c)
  BY <1>0, LoopEffect
<1>2. mine[c] \in Entry /\ entry[mine[c]].size \in Nat /\ outcome[c] = "none"
  BY <1>0, EntryTyped DEF ClientOK, Serving, ServedOK
<1>3. UNCHANGED <<program, entry, fetcher, mine, offset>>
  BY DEF Header!Loop
<1>4. entry[mine[c]].complete => fetcher[mine[c]] = "exit"
  BY <1>0, <1>2, EntryNames DEF StateOK, EntriesOK, EntryOK, Ended, LockLabels
<1>5. program = "main2" => offset[c] = 0 /\ pc[c] # "sent"
  BY <1>0, <1>2, <1>4 DEF Main2Client, Early, StateOK, EntriesOK, EntryOK, Ended
<1>6. CASE Header(p)!MustWait(c)
  <2>1. pc'[c] = "block" /\ outcome' = outcome
    BY <1>0, <1>6 DEF Header!Loop, ClientTypes
  <2>2. ServedOK(c)'
    BY <1>0, <1>2, <1>3, <2>1 DEF ServedOK
  <2>3. program = "main2" => Main2Client(c)'
    BY <1>2, <1>3, <1>5, <2>1 DEF Main2Client, Early
  <2> QED
    BY <1>0, <1>1, <1>3, <2>1, <2>2, <2>3, PlainInv DEF Serving
<1>7. CASE ~Header(p)!MustWait(c)
  <2>1. /\ entry[mine[c]].complete \/ offset[c] < entry[mine[c]].size
        /\ program = "main2" => fetcher[mine[c]] = "exit"
    BY <1>0, <1>2, <1>4, <1>7 DEF Header!MustWait
  <2>2. CASE entry[mine[c]].complete /\ ~entry[mine[c]].cacheable
    <3>1. pc'[c] = "stream" /\ outcome'[c] = "direct"
      BY <1>0, <1>7, <2>2 DEF Header!Loop, ClientTypes
    <3>2. ServedOK(c)'
      BY <1>0, <1>2, <1>3, <2>2, <3>1 DEF ServedOK
    <3>3. program = "main2" => Main2Client(c)'
      BY <1>2, <1>3, <1>5, <2>1, <2>2, <3>1 DEF Main2Client, Early
    <3> QED
      BY <1>0, <1>1, <1>3, <3>1, <3>2, <3>3, PlainInv DEF Serving
  <2>3. CASE ~(entry[mine[c]].complete /\ ~entry[mine[c]].cacheable)
    <3>1. /\ outcome' = outcome /\ reg'[c] = entry[mine[c]].size - offset[c]
          /\ pc'[c] = IF offset[c] < entry[mine[c]].size THEN "send" ELSE "leave"
      BY <1>0, <1>7, <2>3 DEF Header!Loop, ClientTypes
    <3>2. PICK n, o, r : n = entry[mine[c]].size /\ o = offset[c] /\ r = reg'[c]
      OBVIOUS
    <3>3. /\ n \in Nat /\ o \in Nat /\ r \in Int /\ r = n - o
          /\ o + r <= n /\ (o < n => r > 0) /\ (o = 0 => r = n)
      BY <1>0, <1>2, <3>1, <3>2
    <3>4. ServedOK(c)'
      BY <1>0, <1>2, <1>3, <2>1, <3>1, <3>2, <3>3 DEF ServedOK
    <3>5. program = "main2" => Main2Client(c)'
      <4>1. program = "main2" => entry[mine[c]].complete
        BY <1>0, <1>7 DEF Header!MustWait
      <4> QED
        BY <1>2, <1>3, <1>5, <2>1, <2>3, <3>1, <3>2, <3>3, <4>1 DEF Main2Client, Early
    <3> QED
      BY <1>0, <1>1, <1>3, <3>1, <3>4, <3>5, PlainInv DEF Serving
  <2> QED
    BY <2>2, <2>3
<1> QED
  BY <1>6, <1>7

(* Their other steps keep it.                                                *)
LEMMA HeaderClientKeeps ==
  ASSUME Inv, NEW p \in {"main1", "main2"}, program = p,
         UNCHANGED <<program, total_size>>, NEW c \in Clients, HeaderClient(p, c)
  PROVE  Inv'
<1>0. /\ StateOK /\ TypesOK /\ ClientTypes /\ ClientOK(c) /\ ServedOK(c)
      /\ program = "main2" => Main2Client(c)
      /\ offset[c] \in Nat /\ reg[c] \in Int /\ ServeEffect(c)
  BY OfClient, HeaderClientEffect DEF Inv
<1>1. CASE Header(p)!LoopTop(c)
  BY <1>1, LoopKeeps DEF Header!LoopTop
<1>2. CASE Header(p)!Block(c)
  <2>1. /\ pc[c] = "block" /\ pc'[c] = "waiting"
        /\ UNCHANGED <<entry, fetcher, mine, offset, reg, outcome>>
    BY <1>0, <1>2 DEF Header!Block, ClientTypes
  <2>2. ServedOK(c)'
    BY <1>0, <2>1 DEF ServedOK
  <2>3. program = "main2" => Main2Client(c)'
    BY <1>0, <2>1 DEF Main2Client, Early
  <2> QED
    BY <1>0, <2>1, <2>2, <2>3, PlainInv DEF Serving
<1>3. CASE Header(p)!Woken(c)
  BY <1>3, LoopKeeps DEF Header!Woken
<1>4. CASE Header(p)!Send(c)
  <2>1. pc[c] = "send" /\ UNCHANGED <<entry, fetcher, mine>> /\ reg' = [reg EXCEPT ![c] = 0]
    BY <1>4 DEF Header!Send
  <2>2. /\ mine[c] \in Entry /\ entry[mine[c]].size \in Nat /\ reg[c] > 0
        /\ outcome[c] = "none"
    BY <1>0, <2>1, EntryTyped DEF ClientOK, Serving, ServedOK
  <2>3. program = "main2" => /\ fetcher[mine[c]] = "exit" /\ offset[c] = 0
                             /\ entry[mine[c]].cacheable /\ reg[c] = entry[mine[c]].size
    BY <1>0, <2>1, <2>2 DEF Main2Client, Early
  <2>4. CASE /\ offset' = [offset EXCEPT ![c] = offset[c] + reg[c]]
             /\ pc' = [pc EXCEPT ![c] = "sent"] /\ outcome' = outcome
    <3>1. pc'[c] = "sent" /\ offset'[c] = offset[c] + reg[c]
      BY <1>0, <2>4 DEF ClientTypes
    <3>2. ServedOK(c)'
      BY <1>0, <2>1, <2>2, <2>4, <3>1 DEF ServedOK
    <3>3. program = "main2" => Main2Client(c)'
      <4>1. program = "main2" => offset'[c] = entry[mine[c]].size /\ offset'[c] > 0
        BY <1>0, <2>2, <2>3, <3>1
      <4> QED
        BY <2>1, <2>2, <2>3, <2>4, <3>1, <4>1 DEF Main2Client, Early
    <3> QED
      BY <1>0, <2>1, <3>1, <3>2, <3>3, PlainInv DEF Serving
  <2>5. CASE /\ outcome' = [outcome EXCEPT ![c] = "broken"] /\ pc' = [pc EXCEPT ![c] = "leave"]
             /\ offset' = offset
    <3>1. pc'[c] = "leave" /\ outcome'[c] = "broken"
      BY <1>0, <2>5 DEF ClientTypes
    <3>2. ServedOK(c)'
      BY <1>0, <2>1, <2>2, <2>5, <3>1 DEF ServedOK
    <3>3. program = "main2" => Main2Client(c)'
      BY <2>1, <2>2, <2>3, <2>5, <3>1 DEF Main2Client, Early
    <3> QED
      BY <1>0, <2>1, <3>1, <3>2, <3>3, PlainInv DEF Serving
  <2> QED
    BY <1>4, <2>4, <2>5 DEF Header!Send
<1>5. CASE Header(p)!AfterSend(c)
  <2>1. pc[c] = "sent" /\ elock[mine[c]] = None
    BY <1>5 DEF Header!AfterSend
  <2>2. CASE entry[mine[c]].complete /\ offset[c] >= entry[mine[c]].size
    <3>1. pc'[c] = "leave" /\ UNCHANGED <<entry, fetcher, mine, offset, reg, outcome>>
      BY <1>0, <1>5, <2>2 DEF Header!AfterSend, ClientTypes
    <3>2. mine[c] \in Entry /\ entry[mine[c]].size \in Nat /\ outcome[c] = "none"
      BY <1>0, <2>1, EntryTyped DEF ClientOK, Serving, ServedOK
    <3>3. ServedOK(c)'
      BY <1>0, <2>2, <3>1, <3>2 DEF ServedOK
    <3>4. program = "main2" => Main2Client(c)'
      BY <1>0, <2>1, <3>1, <3>2 DEF Main2Client, Early
    <3> QED
      BY <1>0, <2>1, <3>1, <3>3, <3>4, PlainInv DEF Serving
  <2>3. CASE ~(entry[mine[c]].complete /\ offset[c] >= entry[mine[c]].size)
    BY <1>5, <2>1, <2>3, LoopKeeps DEF Header!AfterSend
  <2> QED
    BY <2>2, <2>3
<1>6. CASE Header(p)!StreamDirectly(c)
  <2>1. /\ pc[c] = "stream" /\ pc'[c] = "leave"
        /\ UNCHANGED <<entry, fetcher, mine, offset, reg, outcome>>
    BY <1>0, <1>6 DEF Header!StreamDirectly, ClientTypes
  <2>2. ServedOK(c)' /\ outcome[c] = "direct"
    BY <1>0, <2>1 DEF ServedOK
  <2>3. program = "main2" => Main2Client(c)'
    BY <1>0, <2>1, <2>2 DEF Main2Client, Early
  <2> QED
    BY <1>0, <2>1, <2>2, <2>3, PlainInv DEF Serving
<1> QED
  BY <1>1, <1>2, <1>3, <1>4, <1>5, <1>6 DEF HeaderClient

(* Every step keeps the invariant. *)
LEMMA StepKeeps == Inv /\ Next => Inv'
<1> SUFFICES ASSUME Inv, Step PROVE Inv'
  BY NextIsStep
<1>1. CASE UNCHANGED total_size /\ \E c \in Clients : ClientStep(c)
  BY <1>1, ClientKeeps DEF Step
<1>2. CASE program = "main" /\ UNCHANGED total_size /\ \E c \in Clients : MainClient(c)
  BY <1>2, MainClientKeeps DEF Step
<1>3. CASE \E p \in {"main1", "main2"} :
             program = p /\ UNCHANGED total_size /\ \E c \in Clients : HeaderClient(p, c)
  BY <1>3, HeaderClientKeeps DEF Step
<1>4. CASE FetchersStep
  BY <1>4, FetchersKeepRest
<1> QED
  BY <1>1, <1>2, <1>3, <1>4 DEF Step, FetchersStep

(* The proxies start within the invariant.                                   *)
LEMMA InitKeeps == Init => Inv
<1> SUFFICES ASSUME Init PROVE Inv
  OBVIOUS
<1>1. /\ cache_table = <<>> /\ cache_used_bytes = 0 /\ tablelock = None
      /\ entry = [e \in Entry |-> Unused] /\ freed = {} /\ elock = [e \in Entry |-> None]
      /\ waiting = {} /\ fetcher = [e \in Entry |-> "none"] /\ received = [e \in Entry |-> 0]
      /\ pc = [c \in Clients |-> "request"] /\ url \in [Clients -> Urls]
      /\ mine = [c \in Clients |-> None] /\ offset = [c \in Clients |-> 0]
      /\ reg = [c \in Clients |-> 0] /\ outcome = [c \in Clients |-> "none"]
      /\ total_size = [e \in Entry |-> 0] /\ program \in {"main", "main1", "main2"}
  BY DEF Init, Main1!Init, Main1!CacheInit, Main1!Unused, Unused
<1>2. /\ CACHE_MAX_BYTES \in Nat /\ None \notin Entry /\ None \notin Clients
      /\ Clients \cap Entry = {}
  BY CacheAssumption
<1>3. Unused \in EntryRecord
  BY DEF Unused, EntryRecord
<1>4. TypesOK
  BY <1>1, <1>3 DEF TypesOK, TypeOK, SizeType, EntryRecord
<1>5. UsedWithinLimit /\ TableOK
  BY <1>1, <1>2 DEF UsedWithinLimit, TableOK, Distinct
<1>6. UsedIsAccounted
  <2>1. Range(cache_table) = {}
    BY <1>1 DEF Range
  <2>2. SumFunctionOnSet(Capacities, {}) = 0
    BY SumUnfolds, FS_EmptySet
  <2>3. {e \in Entry : entry[e].url # None} \ freed = {}
    BY <1>1 DEF Unused
  <2> QED
    BY <1>1, <2>1, <2>2, <2>3 DEF UsedIsAccounted, Capacities
<1>7. \A e \in Entry : EntryPart(e)
  BY <1>1, <1>2 DEF EntryPart, EntryOK, MainEntry, HeaderEntry, FetcherLabels, LockLabels, Ended,
                    Used, Unused
<1>8. EntriesOK /\ MainOK /\ HeaderOK
  BY <1>7 DEF EntryPart, EntriesOK, MainOK, HeaderOK
<1>9. ClientsOK
  BY <1>1, <1>2 DEF ClientsOK, ClientOK, ClientLabels, Serving
<1>10. ServedAll
  BY <1>1, <1>2 DEF ServedAll, ServedOK
<1>11. Main2OK
  BY <1>1, <1>2 DEF Main2OK, Main2Client, Main2Entry
<1>12. AloneAll
  BY <1>1, <1>2 DEF AloneAll, AloneOK, Serving, Used, Unused
<1>13. EnoughEntries
  <2>1. {e \in Entry : Used(e)} = {} /\ Made = {}
    BY <1>1 DEF Used, Unused, Made
  <2> QED
    BY <2>1, FS_EmptySet DEF EnoughEntries
<1> QED
  BY <1>4, <1>5, <1>6, <1>8, <1>9, <1>10, <1>11, <1>12, <1>13 DEF StateOK, Inv

(* So it always holds.                                                       *)
LEMMA InvIsInvariant == Spec => []Inv
<1>1. Inv /\ UNCHANGED vars => Inv'
  <2> SUFFICES ASSUME Inv, UNCHANGED vars PROVE Inv'
    OBVIOUS
  <2>1. UNCHANGED <<cache_table, cache_used_bytes, tablelock, entry, freed, elock, waiting, fetcher,
                    received, pc, url, mine, offset, reg, outcome, program, total_size>>
    BY DEF vars
  <2>2. TypesOK' /\ UsedWithinLimit' /\ UsedIsAccounted' /\ TableOK'
    BY <2>1 DEF Inv, StateOK, TypesOK, TypeOK, SizeType, UsedWithinLimit, UsedIsAccounted, TableOK
  <2>3. EntriesOK' /\ MainOK' /\ HeaderOK'
    BY <2>1 DEF Inv, StateOK, EntriesOK, EntryOK, MainOK, MainEntry, HeaderOK, HeaderEntry, Used,
                Ended, FetcherLabels, LockLabels
  <2>4. ClientsOK'
    BY <2>1 DEF Inv, StateOK, ClientsOK, ClientOK, ClientLabels, Used
  <2>5. ServedAll' /\ AloneAll' /\ EnoughEntries'
    BY <2>1
       DEF Inv, ServedAll, ServedOK, AloneAll, AloneOK, Alone, MadeBy, EnoughEntries, Made, Used
  <2>6. Main2OK'
    BY <2>1 DEF Inv, Main2OK, Main2Client, Main2Entry
  <2> QED
    BY <2>2, <2>3, <2>4, <2>5, <2>6 DEF Inv, StateOK
<1> QED
  BY <1>1, InitKeeps, StepKeeps, PTL DEF Spec

(* The variables of the cache keep their types: above all, no count of bytes *)
(* is ever negative, and an entry is only locked by a client or its fetcher. *)
THEOREM CacheTyped == Spec => []TypeOK
<1>1. Inv => TypeOK
  BY DEF Inv, StateOK, TypesOK
<1> QED
  BY <1>1, InvIsInvariant, PTL

(* cache_used_bytes never exceeds CACHE_MAX_BYTES, although a fetcher tests  *)
(* the room, evicts and takes it in different steps.                         *)
THEOREM UsedStaysWithinLimit == Spec => []UsedWithinLimit
<1>1. Inv => UsedWithinLimit
  BY DEF Inv, StateOK
<1> QED
  BY <1>1, InvIsInvariant, PTL

(* cache_used_bytes is the room of the entries in cache_table, and exactly the*)
(* entries that were made and not evicted are in it, without repetition.     *)
THEOREM UsedStaysAccounted == Spec => []UsedIsAccounted
<1>1. Inv => UsedIsAccounted
  BY DEF Inv, StateOK
<1> QED
  BY <1>1, InvIsInvariant, PTL

(* A client that was served from the cache has had everything the server sent,*)
(* whatever was evicted or received meanwhile.                               *)
THEOREM AllIsServed == Spec => []ServedWhole
<1>1. Inv => ServedWhole
  <2> SUFFICES ASSUME Inv, NEW c \in Clients, outcome[c] = "cached", entry[mine[c]].cacheable,
                      received[mine[c]] <= entry[mine[c]].capacity
               PROVE  entry[mine[c]].complete /\ offset[c] = received[mine[c]]
    BY DEF ServedWhole
  <2>1. /\ mine[c] \in Entry /\ entry[mine[c]].complete
        /\ offset[c] = entry[mine[c]].size
    BY DEF Inv, ServedAll, ServedOK
  <2>2. Ended(mine[c])
    BY <2>1 DEF Inv, StateOK, EntriesOK, EntryOK
  <2>3. CASE program = "main"
    <3>1. received[mine[c]] = entry[mine[c]].size + 0
      BY <2>1, <2>2, <2>3 DEF Inv, StateOK, MainOK, MainEntry, Ended
    <3>2. entry[mine[c]].size \in Nat
      BY <2>1, EntryTyped DEF Inv, StateOK
    <3> QED
      BY <2>1, <3>1, <3>2
  <2>4. CASE program # "main"
    BY <2>1, <2>2, <2>4 DEF Inv, StateOK, HeaderOK, HeaderEntry, Ended
  <2> QED
    BY <2>1, <2>3, <2>4
<1> QED
  BY <1>1, InvIsInvariant, PTL

(* An entry that only one client has ever had is not evicted before that     *)
(* client is done with it: it takes two to lose a reference.                 *)
THEOREM OwnEntryIsKept == Spec => []OwnEntryStays
<1>1. Inv => OwnEntryStays
  <2> SUFFICES ASSUME Inv, NEW c \in Clients, mine[c] \in freed, Alone(c)
               PROVE  pc[c] \in {"direct", "closed"}
    BY DEF OwnEntryStays, Alone
  <2>1. ClientOK(c) /\ AloneOK(c) /\ mine[c] \in Entry
    BY DEF Inv, StateOK, ClientsOK, AloneAll, TypesOK, TypeOK
  <2>2. pc[c] \notin Serving
    BY <2>1 DEF AloneOK
  <2>3. pc[c] \notin {"request", "miss", "insert"}
    BY <2>1, EntryNames DEF ClientOK
  <2> QED
    BY <2>1, <2>2, <2>3 DEF ClientOK, ClientLabels, Serving
<1> QED
  BY <1>1, InvIsInvariant, PTL

(* In main2.c no entry is evicted while its fetcher is at work.              *)
THEOREM FetcherIsDone == Spec => []FetcherKeepsEntry
<1>1. Inv => FetcherKeepsEntry
  BY DEF Inv, StateOK, TypesOK, TypeOK, FetcherKeepsEntry, Main2OK, Main2Entry
<1> QED
  BY <1>1, InvIsInvariant, PTL

(* The mapping of main2.c to SharedAnswer: what has become of an entry, and  *)
(* what a client has got.                                                    *)
Result == [e \in Entry |-> IF ~entry[e].complete THEN Pending
                           ELSE IF entry[e].cacheable THEN entry[e].size ELSE Refused]
GivenTo(o, n) == IF o = "direct" THEN Refused ELSE IF o = "cached" \/ n > 0 THEN n ELSE None
Given == [c \in Clients |-> CASE outcome[c] = "direct" -> Refused
                              [] outcome[c] = "cached" \/ offset[c] > 0 -> offset[c]
                              [] OTHER -> None]

(* A step of main2.c is one of SharedAnswer, or none. *)
Answering == program = "main2" => [Promise!Next]_(Promise!vars)

(* What a client has got of its entry, read off its locals                   *)
LEMMA GivenIs ==
  ASSUME Inv, program = "main2", NEW c \in Clients
  PROVE  Given[c] = GivenTo(outcome[c], offset[c])
<1>1. offset[c] \in Nat /\ (outcome[c] = "direct" => offset[c] = 0)
  BY OfClient DEF Main2Client
<1>2. outcome[c] = "direct" => ~(outcome[c] = "cached" \/ offset[c] > 0)
  BY <1>1
<1> QED
  BY <1>2 DEF Given, GivenTo

(* A user comes to a cell. *)
LEMMA ComeStep ==
  ASSUME NEW c \in Clients, NEW e \in Entry, mine[c] = None, mine' = [mine EXCEPT ![c] = e],
         Result' = Result, Given' = Given
  PROVE  Promise!Next
BY DEF Promise!Next, Promise!Come, Result, Given

(* A user is answered. *)
LEMMA AnswerStep ==
  ASSUME NEW c \in Clients, mine[c] \in Entry, mine' = mine, Result' = Result,
         Given[c] = None, Given' = [Given EXCEPT ![c] = Result[mine[c]]],
         Result[mine[c]] \in (0 .. CACHE_MAX_BYTES) \cup {Refused}
  PROVE  Promise!Next
BY EntryNames DEF Promise!Next, Promise!Answer, Promise!Outcomes, Result, Given

(* A cell is resolved. *)
LEMMA ResolveStep ==
  ASSUME NEW e \in Entry, mine' = mine, Given' = Given, Result[e] = Pending,
         NEW r \in (0 .. CACHE_MAX_BYTES) \cup {Refused}, Result' = [Result EXCEPT ![e] = r]
  PROVE  Promise!Next
BY DEF Promise!Next, Promise!Resolve, Promise!Outcomes, Result, Given

(* Nothing of the promise changes.                                           *)
LEMMA NoStep ==
  ASSUME mine' = mine, Result' = Result, Given' = Given
  PROVE  UNCHANGED Promise!vars
BY DEF Promise!vars, Result, Given

(* The result of an entry that is complete *)
LEMMA Resolved ==
  ASSUME StateOK, NEW e \in Entry, entry[e].complete
  PROVE  /\ Result[e] = IF entry[e].cacheable THEN entry[e].size ELSE Refused
         /\ Result[e] \in (0 .. CACHE_MAX_BYTES) \cup {Refused}
<1>1. /\ entry[e].size \in Nat /\ entry[e].capacity \in Nat /\ CACHE_MAX_BYTES \in Nat
      /\ entry[e].size <= entry[e].capacity /\ entry[e].capacity <= CACHE_MAX_BYTES
  BY EntryTyped, CacheAssumption DEF StateOK, EntriesOK, EntryOK
<1>2. entry[e].size \in 0 .. CACHE_MAX_BYTES
  BY <1>1
<1> QED
  BY <1>2 DEF Result

(* A fetcher resolves its entry, or nothing of the promise changes. *)
LEMMA FetchersAnswer ==
  ASSUME Inv, Inv', FetchersStep, program = "main2"
  PROVE  [Promise!Next]_(Promise!vars)
<1>1. PICK e \in Entry : FetchEffect(e)
  BY FetchersStepKeeps DEF Inv
<1>2. mine' = mine /\ Given' = Given
  BY <1>1 DEF FetchEffect, Given
<1>3. /\ \A x \in Entry \ {e} : entry'[x] = entry[x]
      /\ entry[e].complete => entry'[e] = entry[e]
  BY <1>1 DEF FetchEffect
<1>4. CASE entry[e].complete \/ ~entry'[e].complete
  <2>1. \A x \in Entry : Result'[x] = Result[x]
    BY <1>3, <1>4 DEF Result
  <2>2. Result' = Result
    BY <2>1 DEF Result
  <2> QED
    BY <1>2, <2>2, NoStep
<1>5. CASE ~entry[e].complete /\ entry'[e].complete
  <2>1. Result[e] = Pending /\ \A x \in Entry \ {e} : Result'[x] = Result[x]
    BY <1>3, <1>5 DEF Result
  <2>2. Result'[e] \in (0 .. CACHE_MAX_BYTES) \cup {Refused}
    <3>1. StateOK'
      BY DEF Inv
    <3>2. (Result[e] \in (0 .. CACHE_MAX_BYTES) \cup {Refused})'
      <4>1. /\ entry'[e].size \in Nat /\ entry'[e].capacity \in Nat /\ CACHE_MAX_BYTES \in Nat
        BY <1>1, CacheAssumption DEF FetchEffect, EntryRecord
      <4>2. entry'[e].size <= entry'[e].capacity /\ entry'[e].capacity <= CACHE_MAX_BYTES
        BY <3>1 DEF StateOK, EntriesOK, EntryOK
      <4>3. PICK n, k : n = entry'[e].size /\ k = entry'[e].capacity
        OBVIOUS
      <4>4. n \in 0 .. CACHE_MAX_BYTES
        BY <4>1, <4>2, <4>3
      <4> QED
        BY <1>5, <4>3, <4>4 DEF Result
    <3> QED
      BY <3>2
  <2>3. Result' = [Result EXCEPT ![e] = Result'[e]]
    BY <2>1 DEF Result
  <2> QED
    BY <1>2, <2>1, <2>2, <2>3, ResolveStep
<1> QED
  BY <1>4, <1>5

(* A step that serves the client c: what of the promise it may change *)
LEMMA ServeAnswers ==
  ASSUME Inv, Inv', NEW c \in Clients, ServeEffect(c), program = "main2"
  PROVE  /\ Result' = Result
         /\ \A d \in Clients \ {c} : Given'[d] = Given[d]
         /\ Given[c] = GivenTo(outcome[c], offset[c])
         /\ Given'[c] = GivenTo(outcome'[c], offset'[c])
         /\ GivenTo(outcome'[c], offset'[c]) = GivenTo(outcome[c], offset[c]) => Given' = Given
<1>1. \A x \in Entry : Result'[x] = Result[x]
  BY DEF ServeEffect, Result
<1>2. Result' = Result
  BY <1>1 DEF Result
<1>3. \A d \in Clients \ {c} : Given'[d] = Given[d]
  BY DEF ServeEffect, Given
<1>4. Given[c] = GivenTo(outcome[c], offset[c])
  BY GivenIs
<1>5. Given'[c] = GivenTo(outcome'[c], offset'[c])
  <2>1. (Given[c] = GivenTo(outcome[c], offset[c]))'
    <3>1. offset'[c] \in Nat /\ (outcome'[c] = "direct" => offset'[c] = 0)
      <4>1. program' = "main2" /\ Main2OK' /\ ClientTypes'
        BY DEF ServeEffect, Inv
      <4> QED
        BY <4>1 DEF Main2OK, Main2Client, ClientTypes
    <3>2. outcome'[c] = "direct" => ~(outcome'[c] = "cached" \/ offset'[c] > 0)
      BY <3>1
    <3> QED
      BY <3>2 DEF Given, GivenTo
  <2> QED
    BY <2>1 DEF GivenTo
<1>6. ASSUME Given'[c] = Given[c] PROVE Given' = Given
  <2>1. \A d \in Clients : Given'[d] = Given[d]
    BY <1>3, <1>6
  <2> QED
    BY <2>1 DEF Given
<1> QED
  BY <1>2, <1>3, <1>4, <1>5, <1>6

(* A step of a client that gives it nothing new *)
LEMMA GivesNothing ==
  ASSUME Inv, Inv', NEW c \in Clients, ServeEffect(c), program = "main2", mine' = mine,
         GivenTo(outcome'[c], offset'[c]) = GivenTo(outcome[c], offset[c])
  PROVE  [Promise!Next]_(Promise!vars)
BY ServeAnswers, NoStep

(* A step of a client that gives it the result of its entry *)
LEMMA GivesResult ==
  ASSUME Inv, Inv', NEW c \in Clients, ServeEffect(c), program = "main2", mine' = mine,
         mine[c] \in Entry, entry[mine[c]].complete,
         GivenTo(outcome[c], offset[c]) = None,
         GivenTo(outcome'[c], offset'[c]) = Result[mine[c]]
  PROVE  [Promise!Next]_(Promise!vars)
<1>1. /\ Result' = Result /\ Given[c] = None /\ Given'[c] = Result[mine[c]]
      /\ \A d \in Clients \ {c} : Given'[d] = Given[d]
  BY ServeAnswers
<1>2. Given' = [Given EXCEPT ![c] = Result[mine[c]]]
  BY <1>1 DEF Given
<1>3. Result[mine[c]] \in (0 .. CACHE_MAX_BYTES) \cup {Refused}
  BY Resolved DEF Inv
<1> QED
  BY <1>1, <1>2, <1>3, AnswerStep

(* The shared steps of a client keep the promise, ...                        *)
LEMMA ClientAnswers ==
  ASSUME Inv, Inv', NEW c \in Clients, UNCHANGED <<program, total_size>>, program = "main2",
         ClientStep(c)
  PROVE  [Promise!Next]_(Promise!vars)
<1>0. /\ StateOK /\ TypesOK /\ ClientTypes /\ ClientOK(c) /\ ServedOK(c) /\ Main2Client(c)
      /\ entry \in [Entry -> EntryRecord] /\ offset[c] \in Nat
  BY OfClient
<1>1. CASE Lookup(c)
  <2>1. ServeEffect(c) /\ UNCHANGED <<offset, outcome>> /\ mine[c] = None
    BY <1>0, <1>1, ClientEffect DEF Lookup, ClientOK
  <2>2. CASE Hits(url[c]) = {}
    BY <1>1, <2>1, <2>2, GivesNothing DEF Lookup
  <2>3. CASE Hits(url[c]) # {}
    <3> DEFINE e == cache_table[Min(Hits(url[c]))]
    <3>1. mine' = [mine EXCEPT ![c] = e]
      BY <1>1, <2>3 DEF Lookup
    <3>2. e \in Entry
      <4>1. url[c] \in Urls
        BY <1>0 DEF TypesOK, TypeOK
      <4> QED
        BY <1>0, <2>3, <4>1, MinHit
    <3>3. Result' = Result /\ Given' = Given
      BY <2>1, ServeAnswers
    <3> HIDE DEF e
    <3> QED
      BY <2>1, <3>1, <3>2, <3>3, ComeStep
  <2> QED
    BY <2>2, <2>3
<1>2. CASE CountReference(c)
  <2>1. ServeEffect(c) /\ UNCHANGED <<mine, offset, outcome>>
    BY <1>0, <1>2, ClientEffect DEF CountReference
  <2> QED
    BY <2>1, GivesNothing
<1>3. CASE DropLoad(c)
  <2>1. ServeEffect(c) /\ UNCHANGED <<mine, offset, outcome>>
    BY <1>0, <1>3, ClientEffect DEF DropLoad
  <2> QED
    BY <2>1, GivesNothing
<1>4. ASSUME NEW l \in {"direct", "closed"}, l = "direct" => program = "main", DropReference(c, l)
      PROVE  [Promise!Next]_(Promise!vars)
  <2>1. /\ ServeEffect(c) /\ UNCHANGED <<mine, offset>> /\ pc[c] = "drop" /\ mine[c] \in Entry
        /\ outcome'[c] = IF outcome[c] = "none" THEN "cached" ELSE outcome[c]
    BY <1>0, <1>4, ClientEffect DEF DropReference, ClientOK, Serving, ClientTypes
  <2>2. CASE outcome[c] # "none" \/ offset[c] > 0
    <3>1. outcome[c] = "none" => outcome'[c] = "cached" /\ offset[c] > 0
      BY <2>1, <2>2
    <3>2. GivenTo(outcome'[c], offset'[c]) = GivenTo(outcome[c], offset[c])
      BY <2>1, <2>2, <3>1 DEF GivenTo
    <3> QED
      BY <2>1, <3>2, GivesNothing
  <2>3. CASE outcome[c] = "none" /\ ~(offset[c] > 0)
    <3>1. /\ entry[mine[c]].complete /\ entry[mine[c]].cacheable
          /\ offset[c] = entry[mine[c]].size
      BY <1>0, <2>1, <2>3 DEF ServedOK, Main2Client
    <3>2. Result[mine[c]] = entry[mine[c]].size
      BY <1>0, <2>1, <3>1, Resolved
    <3>3. /\ GivenTo(outcome[c], offset[c]) = None
          /\ GivenTo(outcome'[c], offset'[c]) = Result[mine[c]]
      BY <2>1, <2>3, <3>1, <3>2 DEF GivenTo
    <3> QED
      BY <2>1, <3>1, <3>3, GivesResult
  <2> QED
    BY <2>2, <2>3
<1>5. CASE Insert(c, IF program = "main" THEN "insert" ELSE "miss")
  <2> DEFINE n == NewEntry
  <2>1. pc[c] = "miss" /\ mine[c] = None
    BY <1>0, <1>5 DEF Insert, ClientOK
  <2>2. n \in Entry /\ entry[n] = Unused
    BY <2>1, NewEntryUnused DEF Made
  <2>3. /\ mine' = [mine EXCEPT ![c] = n] /\ Given' = Given
        /\ entry' = [entry EXCEPT ![n] = [Unused EXCEPT !.url = url[c], !.cacheable = TRUE,
                                                        !.refcount = 1]]
    BY <1>5 DEF Insert, Given
  <2> HIDE DEF n
  <2>4. \A x \in Entry : Result'[x] = Result[x]
    <3>1. entry'[n].complete = FALSE /\ \A x \in Entry \ {n} : entry'[x] = entry[x]
      BY <1>0, <2>2, <2>3 DEF Unused
    <3>2. entry[n].complete = FALSE
      BY <2>2 DEF Unused
    <3> QED
      BY <3>1, <3>2 DEF Result
  <2>5. Result' = Result
    BY <2>4 DEF Result
  <2> QED
    BY <2>1, <2>2, <2>3, <2>5, ComeStep
<1> QED
  BY <1>1, <1>2, <1>3, <1>4, <1>5 DEF ClientStep

(* ... the loop of main2.c does ...                                          *)
LEMMA LoopAnswers ==
  ASSUME Inv, Inv', program = "main2", UNCHANGED <<program, total_size>>, NEW c \in Clients,
         pc[c] \in {"loop", "waiting", "sent"}, Header("main2")!Loop(c)
  PROVE  [Promise!Next]_(Promise!vars)
<1>0. /\ StateOK /\ TypesOK /\ ClientTypes /\ ClientOK(c) /\ ServedOK(c) /\ Main2Client(c)
      /\ offset[c] \in Nat
  BY OfClient
<1>1. ServeEffect(c) /\ UNCHANGED <<mine, offset>>
  BY <1>0, LoopEffect DEF Header!Loop
<1>2. mine[c] \in Entry /\ outcome[c] = "none"
  BY <1>0 DEF ClientOK, Serving, ServedOK
<1>3. CASE ~Header("main2")!MustWait(c) /\ entry[mine[c]].complete /\ ~entry[mine[c]].cacheable
  <2>1. outcome'[c] = "direct"
    BY <1>0, <1>3 DEF Header!Loop, ClientTypes
  <2>2. offset[c] = 0
    BY <1>0, <1>2, <1>3 DEF Main2Client, Early
  <2>3. Result[mine[c]] = Refused
    BY <1>0, <1>2, <1>3, Resolved
  <2>4. GivenTo(outcome[c], offset[c]) = None /\ GivenTo(outcome'[c], offset'[c]) = Result[mine[c]]
    BY <1>1, <1>2, <2>1, <2>2, <2>3 DEF GivenTo
  <2> QED
    BY <1>1, <1>2, <1>3, <2>4, GivesResult
<1>4. CASE ~(~Header("main2")!MustWait(c) /\ entry[mine[c]].complete /\ ~entry[mine[c]].cacheable)
  <2>1. outcome' = outcome
    BY <1>4 DEF Header!Loop
  <2> QED
    BY <1>1, <2>1, GivesNothing
<1> QED
  BY <1>3, <1>4

(* ... and its other steps.                                                  *)
LEMMA HeaderClientAnswers ==
  ASSUME Inv, Inv', program = "main2", UNCHANGED <<program, total_size>>, NEW c \in Clients,
         HeaderClient("main2", c)
  PROVE  [Promise!Next]_(Promise!vars)
<1>0. /\ StateOK /\ TypesOK /\ ClientTypes /\ ClientOK(c) /\ ServedOK(c) /\ Main2Client(c)
      /\ offset[c] \in Nat /\ reg[c] \in Int /\ ServeEffect(c)
  BY OfClient, HeaderClientEffect DEF Inv
<1>1. CASE Header("main2")!LoopTop(c)
  BY <1>1, LoopAnswers DEF Header!LoopTop
<1>2. CASE Header("main2")!Block(c)
  BY <1>0, <1>2, GivesNothing DEF Header!Block
<1>3. CASE Header("main2")!Woken(c)
  BY <1>3, LoopAnswers DEF Header!Woken
<1>4. CASE Header("main2")!Send(c)
  <2>1. pc[c] = "send" /\ mine' = mine
    BY <1>4 DEF Header!Send
  <2>2. /\ mine[c] \in Entry /\ reg[c] > 0 /\ outcome[c] = "none"
    BY <1>0, <2>1 DEF ClientOK, Serving, ServedOK
  <2>3. /\ fetcher[mine[c]] = "exit" /\ offset[c] = 0
        /\ entry[mine[c]].cacheable /\ reg[c] = entry[mine[c]].size
    BY <1>0, <2>1, <2>2 DEF Main2Client, Early
  <2>4. entry[mine[c]].complete
    BY <1>0, <2>2, <2>3 DEF StateOK, EntriesOK, EntryOK, Ended
  <2>5. CASE offset' = [offset EXCEPT ![c] = offset[c] + reg[c]] /\ outcome' = outcome
    <3>1. offset'[c] = entry[mine[c]].size /\ offset'[c] > 0
      BY <1>0, <2>2, <2>3, <2>5 DEF ClientTypes
    <3>2. Result[mine[c]] = entry[mine[c]].size
      BY <1>0, <2>2, <2>3, <2>4, Resolved
    <3>3. /\ GivenTo(outcome[c], offset[c]) = None
          /\ GivenTo(outcome'[c], offset'[c]) = Result[mine[c]]
      BY <2>2, <2>3, <2>5, <3>1, <3>2 DEF GivenTo
    <3> QED
      BY <1>0, <2>1, <2>2, <2>4, <3>3, GivesResult
  <2>6. CASE outcome' = [outcome EXCEPT ![c] = "broken"] /\ offset' = offset
    <3>1. outcome'[c] = "broken"
      BY <1>0, <2>6 DEF ClientTypes
    <3>2. GivenTo(outcome'[c], offset'[c]) = GivenTo(outcome[c], offset[c])
      BY <2>2, <2>3, <2>6, <3>1 DEF GivenTo
    <3> QED
      BY <1>0, <2>1, <3>2, GivesNothing
  <2> QED
    BY <1>4, <2>5, <2>6 DEF Header!Send
<1>5. CASE Header("main2")!AfterSend(c)
  <2>1. CASE Header("main2")!Loop(c)
    BY <1>5, <2>1, LoopAnswers DEF Header!AfterSend
  <2>2. CASE UNCHANGED <<mine, offset, outcome>>
    BY <1>0, <2>2, GivesNothing
  <2> QED
    BY <1>5, <2>1, <2>2 DEF Header!AfterSend
<1>6. CASE Header("main2")!StreamDirectly(c)
  BY <1>0, <1>6, GivesNothing DEF Header!StreamDirectly
<1> QED
  BY <1>1, <1>2, <1>3, <1>4, <1>5, <1>6 DEF HeaderClient

(* main2.c implements SharedAnswer: each entry is resolved once, and every   *)
(* client that gets it is given that one result, all of it.                  *)
THEOREM EntriesKeepPromise == Spec => AnswersAreShared
<1>1. Init => (program = "main2" => Promise!Init)
  <2> SUFFICES ASSUME Init PROVE Promise!Init
    OBVIOUS
  <2>1. /\ entry = [e \in Entry |-> Unused] /\ mine = [c \in Clients |-> None]
        /\ offset = [c \in Clients |-> 0] /\ outcome = [c \in Clients |-> "none"]
    BY DEF Init, Main1!Init, Main1!CacheInit, Main1!Unused, Unused
  <2>2. \A e \in Entry : Result[e] = Pending
    BY <2>1 DEF Result, Unused
  <2>3. \A c \in Clients : Given[c] = None
    BY <2>1 DEF Given
  <2>4. Result = [e \in Entry |-> Pending] /\ Given = [c \in Clients |-> None]
    BY <2>2, <2>3 DEF Result, Given
  <2> QED
    BY <2>1, <2>4 DEF Promise!Init, Result, Given
<1>2. Inv /\ Inv' /\ Next => Answering
  <2> SUFFICES ASSUME Inv, Inv', Step, program = "main2" PROVE [Promise!Next]_(Promise!vars)
    BY NextIsStep DEF Answering
  <2>1. CASE UNCHANGED total_size /\ \E c \in Clients : ClientStep(c)
    BY <2>1, ClientAnswers DEF Step
  <2>2. CASE UNCHANGED total_size /\ \E c \in Clients : HeaderClient("main2", c)
    BY <2>2, HeaderClientAnswers DEF Step
  <2>3. CASE FetchersStep
    BY <2>3, FetchersAnswer
  <2> QED
    BY <2>1, <2>2, <2>3 DEF Step, FetchersStep
<1> QED
  BY <1>1, <1>2, InvIsInvariant, PTL DEF Spec, AnswersAreShared, Answering
=============================================================================
