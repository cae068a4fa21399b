------------------------- MODULE NormalizationCache -------------------------
(***************************************************************************)
(* The process-local cache of normalized sources                           *)
(* (src/src/normalization-cache.js) and its caller, normalizedSource of    *)
(* src/src/plate.js, in the one execution slot.                            *)
(*                                                                         *)
(* Buffers are cells of a heap, so that one the cache owns and one a run   *)
(* holds can be told apart, or shared by mistake, overwritten and zeroed.  *)
(* The Map is a set of entries and the order in which it iterates them.    *)
(***************************************************************************)
EXTENDS Integers, FiniteSets, Functions

CONSTANTS Identities,      \* the tenants' sources the runs look up
          Source,          \* the source of each, which tenants may share
          Size,            \* the bytes of each once normalized
          MaximumBytes, MaximumEntries, Ttl,
          Buffers,         \* the cells of the heap
          NoIdentity,      \* pending when nothing is being normalized
          MaxHeld,         \* bound: buffers a run holds at once
          MaxClock         \* bound: time

ASSUME LimitsAssumption ==
    /\ MaximumBytes \in Nat \ {0} /\ MaximumEntries \in Nat \ {0} /\ Ttl \in Nat \ {0}
    /\ \A id \in Identities : Size[id] \in Nat \ {0}
    /\ MaxClock \in Nat
    /\ {NoIdentity, "zero", "scribbled"} \cap Identities = {}

VARIABLES
    entries,   \* a set of [key, buf, expiresAt]
    before,    \* <<k, l>>: the Map iterates key k before key l
    bytes,     \* the cache's own account of what it retains
    closed,    \* dispose was called
    mem,       \* what each buffer contains
    held,      \* what normalizedSource returned to the current run
    pending,   \* the source being normalized natively after a miss
    clock,
    \* history
    storedAt,  \* when each identity was last put
    older      \* <<k, l>>: retained l was hit or put since k was

mapVars == <<entries, before, bytes>>
historyVars == <<storedAt, older>>
vars == <<mapVars, closed, mem, held, pending, clock, historyVars>>

\* Mutant: the tenant's namespace is left out of the hash.
KeyOfSource(id) == CHOOSE other \in Identities : Source[other] = Source[id]

\* keyFor hashes the whole identity.
KeyFor(id) == id

Retained(es) == {e.buf : e \in es}
KeysIn(es)   == {e.key : e \in es}
BytesIn(es)  == SumFunction([e \in es |-> Size[e.key]])
Free         == Buffers \ (Retained(entries) \cup {h.buf : h \in held})

TypeOK ==
    /\ entries \subseteq [key : Identities, buf : Buffers, expiresAt : 1..(MaxClock + Ttl)]
    /\ before \subseteq Identities \X Identities /\ older \subseteq Identities \X Identities
    /\ closed \in BOOLEAN
    /\ mem \in [Buffers -> Identities \cup {"zero", "scribbled"}]
    /\ held \subseteq [buf : Buffers, id : Identities, dirty : BOOLEAN]
    /\ pending \in Identities \cup {NoIdentity}
    /\ clock \in 0..MaxClock
    /\ storedAt \in [Identities -> 0..MaxClock]

Init ==
    /\ entries = {} /\ before = {} /\ bytes = 0 /\ closed = FALSE
    /\ mem = [b \in Buffers |-> "zero"]
    /\ held = {} /\ pending = NoIdentity /\ clock = 0
    /\ storedAt = [id \in Identities |-> 0]
    /\ older = {}

\* What is left of an order if only some of its members remain.
Among(order, keys) == order \cap (keys \X keys)

\* Map.delete and Map.set: the key is the last of all.
MovedLast(order, key, keys) == Among(order, keys \ {key}) \cup ((keys \ {key}) \X {key})

-----------------------------------------------------------------------------
(* prune, remove and the eviction loop.                                    *)

Expired(e) == e.expiresAt <= clock

Pruned == {e \in entries : ~Expired(e)}

\* Mutant: the fit is tested without the new value.
FitsWithout(es, id) == Cardinality(es) < MaximumEntries /\ BytesIn(es) <= MaximumBytes

Fits(es, id) == Cardinality(es) < MaximumEntries /\ BytesIn(es) + Size[id] <= MaximumBytes

After(es, e) == {f \in es : <<e.key, f.key>> \in before}

\* Mutant: the newest entry goes first.
EvictedNewest(es, id) ==
    IF Fits(es, id) THEN es
    ELSE LET Ahead(e) == {f \in es : <<f.key, e.key>> \in before}
             last == CHOOSE e \in es : Fits(Ahead(e), id) /\ \A f \in After(es, e) : ~Fits(Ahead(f), id)
         IN Ahead(last)

\* Entries go in the order of the Map until the value fits.
Evicted(es, id) ==
    IF Fits(es, id) THEN es
    ELSE LET last == CHOOSE e \in es : /\ Fits(After(es, e), id)
                                        /\ \A f \in es : e \in After(es, f) => ~Fits(After(es, f), id)
         IN After(es, last)

\* Mutant: what is removed is not overwritten.
WipedNothing(kept, filled) == [b \in Buffers |-> IF b \in DOMAIN filled THEN filled[b] ELSE mem[b]]

\* remove fills the buffer with zeros, whoever sees it; then new buffers are
\* filled.
Wiped(kept, filled) ==
    [b \in Buffers |-> IF b \in DOMAIN filled THEN filled[b]
                       ELSE IF b \in Retained(entries) \ Retained(kept) THEN "zero" ELSE mem[b]]

\* What remove leaves on the account when kept is what remains.
Account(kept) == bytes - (BytesIn(entries) - BytesIn(kept))

\* The identities of the history that are retained.
Kept(es) == {id \in Identities : KeyFor(id) \in KeysIn(es)}

\* What prune leaves, and what it wipes; a run may be given a buffer filled
\* by the way.
Prunes(filled) ==
    /\ entries' = Pruned /\ bytes' = Account(Pruned) /\ mem' = Wiped(Pruned, filled)

Unmoved ==
    /\ before' = Among(before, KeysIn(Pruned)) /\ older' = Among(older, Kept(Pruned))

\* The interval timer and stats(): what has expired goes.
Prune ==
    /\ ~closed /\ Pruned # entries
    /\ Prunes(<<>>) /\ Unmoved
    /\ UNCHANGED <<closed, held, pending, clock, storedAt>>

-----------------------------------------------------------------------------
(* normalizedSource: get, and on a miss the native conversion and put.     *)

Looked(id) == ~closed /\ pending = NoIdentity

Miss(id) ==
    /\ Looked(id) /\ KeyFor(id) \notin KeysIn(Pruned)
    /\ pending' = id
    /\ Prunes(<<>>) /\ Unmoved
    /\ UNCHANGED <<closed, held, clock, storedAt>>

\* Mutant: a hit starts the entry's time anew.
RenewedEntry(e) == [e EXCEPT !.expiresAt = clock + Ttl]

\* The entry a hit puts back at the end of the Map.
HitEntry(e) == e

\* The entry moves to the end; Buffer.from(entry.bytes) gives the run a copy
\* of its own. (A checksum mismatch would remove the entry and throw;
\* HeldIsOwn shows that none can occur.)
Hit(id) ==
    /\ Looked(id) /\ Cardinality(held) < MaxHeld
    /\ \E e \in Pruned, b \in Free :
         /\ e.key = KeyFor(id) /\ mem[e.buf] \in Identities
         /\ held' = held \cup {[buf |-> b, id |-> id, dirty |-> FALSE]}
         /\ entries' = (Pruned \ {e}) \cup {HitEntry(e)}
         /\ bytes' = Account(Pruned) /\ mem' = Wiped(Pruned, [x \in {b} |-> mem[e.buf]])
         /\ before' = MovedLast(before, e.key, KeysIn(Pruned))
         /\ older' = MovedLast(older, id, Kept(Pruned))
    /\ UNCHANGED <<closed, pending, clock, storedAt>>

\* Mutant: put keeps the caller's buffer.
OwnedAlias(b) == {b}

\* Buffer.from(value): the cache keeps a copy of its own.
Owned(b) == Free \ {b}

\* What a put of the value in buffer b leaves, its copy being in c.
Put(key, b, c) ==
    LET kept == Evicted({e \in Pruned : e.key # key}, pending)
    IN /\ entries' = kept \cup {[key |-> key, buf |-> c, expiresAt |-> clock + Ttl]}
       /\ bytes' = Account(kept) + Size[pending]
       /\ mem' = Wiped(kept, [x \in {b, c} |-> pending])
       /\ before' = MovedLast(before, key, KeysIn(entries'))
       /\ storedAt' = [storedAt EXCEPT ![pending] = clock]
       /\ older' = MovedLast(older, pending, Kept(entries'))

\* The conversion succeeded into buffer b; too large a value is not kept.
NormalizeAndPut ==
    /\ pending # NoIdentity /\ Cardinality(held) < MaxHeld
    /\ \E b \in Free :
         /\ held' = held \cup {[buf |-> b, id |-> pending, dirty |-> FALSE]}
         /\ IF Size[pending] > MaximumBytes
            THEN /\ mem' = [mem EXCEPT ![b] = pending]
                 /\ UNCHANGED <<mapVars, historyVars>>
            ELSE \E c \in Owned(b) : Put(KeyFor(pending), b, c)
    /\ pending' = NoIdentity
    /\ UNCHANGED <<closed, clock>>

\* The conversion fails, is aborted, or its result is rejected.
NormalizeFails ==
    /\ pending # NoIdentity
    /\ pending' = NoIdentity
    /\ UNCHANGED <<mapVars, closed, mem, held, clock, historyVars>>

\* The run changes what it was given, or lets go of it; memory nobody
\* refers to is collected, and blank when it is given out again.
Scribble(h) ==
    /\ ~h.dirty
    /\ held' = (held \ {h}) \cup {[h EXCEPT !.dirty = TRUE]}
    /\ mem' = [mem EXCEPT ![h.buf] = "scribbled"]
    /\ UNCHANGED <<mapVars, closed, pending, clock, historyVars>>

LetGo(h) ==
    /\ held' = held \ {h}
    /\ mem' = IF h.buf \in Retained(entries) THEN mem ELSE [mem EXCEPT ![h.buf] = "zero"]
    /\ UNCHANGED <<mapVars, closed, pending, clock, historyVars>>

\* runWorker's finally block, when no run is executing any more.
Dispose ==
    /\ ~closed /\ held = {} /\ pending = NoIdentity
    /\ closed' = TRUE
    /\ entries' = {} /\ bytes' = Account({}) /\ mem' = Wiped({}, <<>>)
    /\ before' = {} /\ older' = {}
    /\ UNCHANGED <<held, pending, clock, storedAt>>

Tick ==
    /\ clock < MaxClock
    /\ clock' = clock + 1
    /\ UNCHANGED <<mapVars, closed, mem, held, pending, historyVars>>

Next ==
    \/ \E id \in Identities : Miss(id) \/ Hit(id)
    \/ \E h \in held : Scribble(h) \/ LetGo(h)
    \/ NormalizeAndPut \/ NormalizeFails \/ Prune \/ Dispose \/ Tick

Spec == Init /\ [][Next]_vars

-----------------------------------------------------------------------------
\* The account is exact - which is also what makes put's eviction loop end -
\* and neither limit is ever exceeded.
WithinBudget ==
    /\ bytes = BytesIn(entries)
    /\ bytes <= MaximumBytes /\ Cardinality(entries) <= MaximumEntries

\* "Owned buffer copies ... prevent mutation from contaminating another run":
\* a run holds what was normalized for its own tenant and source unless it
\* changed it itself, and so does every entry, whatever runs did to theirs
\* and whatever was evicted and zeroed meanwhile.
HeldIsOwn ==
    /\ \A h \in held : h.dirty \/ mem[h.buf] = h.id
    /\ \A e \in entries : mem[e.buf] = e.key

\* "Entries expire after insertion (hits do not extend retention)": nothing
\* is reused Ttl or more after it was put, however often it was hit.
ReuseWithinTtl ==
    [][\A h \in held' \ held : pending = NoIdentity /\ ~h.dirty =>
          \/ \E g \in held : g.buf = h.buf
          \/ clock < storedAt[h.id] + Ttl]_vars

\* Identities that are forgotten before their time.
GoneEarly == Kept(Pruned) \ Kept(entries')

\* A retained entry with those used more recently.
From(id) == {e \in Pruned : e.key = KeyFor(id) \/ \E other \in Identities :
                                <<id, other>> \in older /\ e.key = KeyFor(other)}

\* "use LRU eviction": an entry whose time is not over goes only after all
\* less recently used ones, and only for a value that does not fit beside it
\* and the more recently used ones. (It may be small enough to stay if those
\* go instead: they are not asked to.)
EvictsLeastRecent ==
    [][ ~closed' => \A id \in GoneEarly :
          LET wanted == From(id) \cup (entries' \ Pruned)
          IN /\ \A other \in Identities : <<other, id>> \in older => other \notin Kept(entries')
             /\ Cardinality(wanted) > MaximumEntries \/ BytesIn(wanted) > MaximumBytes]_vars

\* "cleared/zeroed on expiry, eviction and orderly shutdown".
ReleasedIsZeroed ==
    [][\A b \in Retained(entries) \ Retained(entries') : mem'[b] = "zero"]_vars
=============================================================================
