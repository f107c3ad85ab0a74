------------------------------ MODULE PageCache ------------------------------
(***************************************************************************)
(* The LRU page cache of src/src/page.c (the page_cache_ functions),      *)
(* disk_manager_get_page, over the page pool it refers to.                 *)
(*                                                                         *)
(* PageRef cells are addresses in Refs; 0 is NULL.  A ref's next field is  *)
(* both its LRU link and its hash-chain link, as in the code.  calloc      *)
(* hands out a free address, or fails when none is left; a freed cell is   *)
(* reset, since calloc zeroes it again before reuse.  page_cache_get is    *)
(* split where page_cache_evict loops: the lookup and the eviction of the  *)
(* tail are separate steps, and nothing else runs in between (the library  *)
(* is single-threaded).  access_count and last_access only feed            *)
(* page_cache_hit_rate and are left out.                                   *)
(***************************************************************************)
EXTENDS Integers, FiniteSets, Sequences

CONSTANTS PageIds,   \* ids of the pages in the pool at start
          Capacity,  \* cache->capacity
          Refs       \* addresses calloc may return

ASSUME Capacity \in Nat \ {0} /\ Refs \subseteq Nat \ {0} /\ PageIds \subseteq Nat \ {0}

Nil == 0

HashSize == Capacity * 2

\* page_hash
Hash(p) == p % HashSize

VARIABLES pool,    \* ids of the pages in the pool (page_pool_get finds them)
          pinned,  \* pages with PAGE_STATUS_PINNED
          live,    \* allocated PageRef cells
          pid, nxt, prv,
          head, tail,
          bucket,  \* cache->hash_table
          count,   \* cache->count
          pc       \* [op: "idle"] or [op: "evict" | "add", page] inside page_cache_get

cacheVars == <<pool, pinned, live, pid, nxt, prv, head, tail, bucket, count, pc>>

Idle == [op |-> "idle", page |-> 0]

\* The ref reached from a by following next, whose page is p, or Nil; at
\* most n cells are visited.
RECURSIVE WalkFrom(_, _, _, _)
WalkFrom(nx, a, p, n) ==
    IF a = Nil \/ n = 0 THEN Nil
    ELSE IF pid[a] = p THEN a ELSE WalkFrom(nx, nx[a], p, n - 1)

\* page_cache_get's lookup: the chain of the page's bucket, walked along next.
Lookup(p) == WalkFrom(nxt, bucket[Hash(p)], p, Cardinality(Refs))

\* Setting f[a] = v unless a is NULL.
Set(f, a, v) == IF a = Nil THEN f ELSE [f EXCEPT ![a] = v]

Init ==
    /\ pool = PageIds
    /\ pinned = {}
    /\ live = {}
    /\ pid = [a \in Refs |-> 0]
    /\ nxt = [a \in Refs |-> Nil]
    /\ prv = [a \in Refs |-> Nil]
    /\ head = Nil /\ tail = Nil
    /\ bucket = [i \in 0..HashSize - 1 |-> Nil]
    /\ count = 0
    /\ pc = Idle

\* Mutant: move-to-front without the tail update.
GetHitKeepTail(p) ==
    LET r  == Lookup(p)
        n1 == Set(nxt, prv[r], nxt[r])
        p1 == Set(prv, nxt[r], prv[r])
    IN
    /\ pc = Idle
    /\ r # Nil
    /\ IF r = head THEN UNCHANGED <<nxt, prv, head, tail>>
       ELSE /\ nxt' = [n1 EXCEPT ![r] = head]
            /\ prv' = Set([p1 EXCEPT ![r] = Nil], head, r)
            /\ head' = r
            /\ UNCHANGED tail
    /\ UNCHANGED <<pool, pinned, live, pid, bucket, count, pc>>

\* page_cache_get, found: the ref moves to the head of the LRU list.
GetHit(p) ==
    LET r  == Lookup(p)
        n1 == Set(nxt, prv[r], nxt[r])
        p1 == Set(prv, nxt[r], prv[r])
        t1 == IF r = tail THEN prv[r] ELSE tail
    IN
    /\ pc = Idle
    /\ r # Nil
    /\ IF r = head THEN UNCHANGED <<nxt, prv, head, tail>>
       ELSE /\ nxt' = [n1 EXCEPT ![r] = head]
            /\ prv' = Set([p1 EXCEPT ![r] = Nil], head, r)
            /\ head' = r
            /\ tail' = t1
    /\ UNCHANGED <<pool, pinned, live, pid, bucket, count, pc>>

\* Mutant: a miss never evicts.
GetMissNoEvict(p) ==
    /\ pc = Idle
    /\ Lookup(p) = Nil
    /\ p \in pool
    /\ pc' = [op |-> "add", page |-> p]
    /\ UNCHANGED <<pool, pinned, live, pid, nxt, prv, head, tail, bucket, count>>

\* page_cache_get, not found: a page missing from the pool returns NULL;
\* otherwise a full cache evicts first.
GetMiss(p) ==
    /\ pc = Idle
    /\ Lookup(p) = Nil
    /\ p \in pool
    /\ pc' = [op |-> IF count >= Capacity THEN "evict" ELSE "add", page |-> p]
    /\ UNCHANGED <<pool, pinned, live, pid, nxt, prv, head, tail, bucket, count>>

\* One pass of the page_cache_evict loop with a pinned tail: victim moves
\* to tail->prev, but the next pass starts again from cache->tail.
EvictSkipPinned ==
    /\ pc.op = "evict"
    /\ tail # Nil
    /\ pid[tail] \in pool /\ pid[tail] \in pinned
    /\ UNCHANGED cacheVars

\* Walk of the hash-chain removal: the first cell a reached from the
\* bucket whose next is v gets v's next.
RECURSIVE Unchain(_, _, _, _)
Unchain(nx, a, v, n) ==
    IF a = Nil \/ n = 0 THEN nx
    ELSE IF nx[a] = v THEN [nx EXCEPT ![a] = nx[v]]
    ELSE Unchain(nx, nx[a], v, n - 1)

\* Mutant: the victim is unlinked from the LRU list only.
EvictTailKeepBucket ==
    LET v  == tail
        n1 == Set(nxt, prv[v], nxt[v])
        p1 == Set(prv, nxt[v], prv[v])
    IN
    /\ pc.op = "evict"
    /\ v # Nil
    /\ ~(pid[v] \in pool /\ pid[v] \in pinned)
    /\ head' = IF v = head THEN nxt[v] ELSE head
    /\ tail' = prv[v]
    /\ nxt' = [n1 EXCEPT ![v] = Nil]
    /\ prv' = [p1 EXCEPT ![v] = Nil]
    /\ pid' = [pid EXCEPT ![v] = 0]
    /\ live' = live \ {v}
    /\ count' = count - 1
    /\ pc' = [pc EXCEPT !.op = "add"]
    /\ UNCHANGED <<pool, pinned, bucket>>

\* page_cache_evict removing the tail: unlink it from the LRU list, then
\* from its hash chain, free it.  (The loop's exit on an empty list is
\* never taken from page_cache_get: count >= capacity > 0 entries are
\* listed.)
EvictTail ==
    LET v  == tail
        n1 == Set(nxt, prv[v], nxt[v])
        p1 == Set(prv, nxt[v], prv[v])
        i  == Hash(pid[v])
        n2 == IF bucket[i] = v THEN n1 ELSE Unchain(n1, bucket[i], v, Cardinality(Refs))
    IN
    /\ pc.op = "evict"
    /\ v # Nil
    /\ ~(pid[v] \in pool /\ pid[v] \in pinned)
    /\ head' = IF v = head THEN nxt[v] ELSE head
    /\ tail' = prv[v]
    /\ bucket' = IF bucket[i] = v THEN [bucket EXCEPT ![i] = nxt[v]] ELSE bucket
    /\ nxt' = [n2 EXCEPT ![v] = Nil]
    /\ prv' = [p1 EXCEPT ![v] = Nil]
    /\ pid' = [pid EXCEPT ![v] = 0]
    /\ live' = live \ {v}
    /\ count' = count - 1
    /\ pc' = [pc EXCEPT !.op = "add"]
    /\ UNCHANGED <<pool, pinned>>

\* The rest of page_cache_get after a miss: calloc a ref, push it on its
\* bucket (next = old bucket head), then on the LRU list (next = head,
\* overwriting the bucket link).
AddRef ==
    LET p == pc.page
        r == CHOOSE a \in Refs \ live : TRUE
    IN
    /\ pc.op = "add"
    /\ live # Refs
    /\ live' = live \cup {r}
    /\ pid' = [pid EXCEPT ![r] = p]
    /\ bucket' = [bucket EXCEPT ![Hash(p)] = r]
    /\ nxt' = [nxt EXCEPT ![r] = head]
    /\ prv' = Set([prv EXCEPT ![r] = Nil], head, r)
    /\ head' = r
    /\ tail' = IF tail = Nil THEN r ELSE tail
    /\ count' = count + 1
    /\ pc' = Idle
    /\ UNCHANGED <<pool, pinned>>

\* calloc returns NULL: the page is returned uncached.
AddRefNoMemory ==
    /\ pc.op = "add"
    /\ pc' = Idle
    /\ UNCHANGED <<pool, pinned, live, pid, nxt, prv, head, tail, bucket, count>>

\* page_cache_pin / page_cache_unpin: the flag of a page in the pool.
Pin(p) ==
    /\ pc = Idle /\ p \in pool
    /\ pinned' = pinned \cup {p}
    /\ UNCHANGED <<pool, live, pid, nxt, prv, head, tail, bucket, count, pc>>

Unpin(p) ==
    /\ pc = Idle /\ p \in pool
    /\ pinned' = pinned \ {p}
    /\ UNCHANGED <<pool, live, pid, nxt, prv, head, tail, bucket, count, pc>>

\* disk_manager_free_page: page_pool_free_page frees the page; the cache
\* is not told.
FreePage(p) ==
    /\ pc = Idle /\ p \in pool
    /\ pool' = pool \ {p}
    /\ pinned' = pinned \ {p}
    /\ UNCHANGED <<live, pid, nxt, prv, head, tail, bucket, count, pc>>

CacheNext ==
    \/ \E p \in PageIds : GetHit(p) \/ GetMiss(p) \/ Pin(p) \/ Unpin(p) \/ FreePage(p)
    \/ EvictSkipPinned \/ EvictTail \/ AddRef \/ AddRefNoMemory

\* Once page_cache_get is entered the calling thread keeps running it:
\* its inner steps are weakly fair.  Callers are under no obligation.
GetSteps == EvictTail \/ AddRef \/ AddRefNoMemory

CacheSpec == Init /\ [][CacheNext]_cacheVars /\ WF_cacheVars(GetSteps)


(***************************************************************************)
(* Properties.                                                             *)
(***************************************************************************)
\* The cells met following next from head, at most n of them.
RECURSIVE ListFrom(_, _)
ListFrom(a, n) == IF a = Nil \/ n = 0 THEN <<>> ELSE <<a>> \o ListFrom(nxt[a], n - 1)

LruList == ListFrom(head, Cardinality(Refs) + 1)

CacheTypeOK ==
    /\ pinned \subseteq pool /\ pool \subseteq PageIds
    /\ live \subseteq Refs
    /\ head \in Refs \cup {Nil} /\ tail \in Refs \cup {Nil}
    /\ bucket \in [0..HashSize - 1 -> Refs \cup {Nil}]
    /\ count \in 0..Capacity
    /\ pc \in {Idle} \cup [op : {"evict", "add"}, page : PageIds]

\* The LRU list that page_cache_get and page_cache_evict relink is a
\* well-formed doubly linked list from head to tail holding every live
\* ref once, and cache->count is its length.
LruListWellFormed ==
    LET L == LruList IN
    /\ Len(L) = count
    /\ {L[i] : i \in DOMAIN L} = live /\ Cardinality(live) = Len(L)
    /\ IF L = <<>> THEN tail = Nil ELSE tail = L[Len(L)] /\ nxt[tail] = Nil
    /\ \A i \in DOMAIN L : prv[L[i]] = IF i = 1 THEN Nil ELSE L[i - 1]

\* page_cache_evict never leaves a hash bucket pointing at the freed victim.
NoDanglingBucket == \A i \in DOMAIN bucket : bucket[i] \in live \cup {Nil}

\* At most one PageRef per page (spec.md section 6: the LRU cache maps a
\* page id to its entry): page_cache_get finds a cached page before adding.
NoDuplicateRefs == \A a, b \in live : a # b => pid[a] # pid[b]

\* A call of page_cache_get returns.
GetCompletes == pc.op # "idle" ~> pc.op = "idle"

=============================================================================
