---------------------------- MODULE LogStoreProofs ----------------------------
(***************************************************************************)
(* Theorems of LogStore for every number of sessions, readers and links.   *)
(***************************************************************************)
EXTENDS LogStore, FiniteSetTheorems, SequenceTheorems, TLAPS

-----------------------------------------------------------------------------
(* The inductive invariant *)

\* The append of the session has not completed.
Appending == \E k \in DOMAIN chain : chain[k] = "append"

\* The damaged lines that nothing will be written onto any more.
Closed == {k \in DOMAIN lines : lines[k] = Damaged /\ ~(open /\ k = Len(lines))}

\* A session logs one entry.
FileType ==
  /\ session \in 0..MaxSessions
  /\ lines \in Seq(Entries \cup {Damaged}) /\ Len(lines) <= session
  /\ open \in BOOLEAN /\ (open => lines # <<>>)
  /\ acked \subseteq 1..session

\* An unended line holds no entry whose append succeeded, and an acknowledged
\* entry has been lost in a line that was ended since.
DamageInv ==
  /\ open => lines[Len(lines)] \notin acked
  /\ Cardinality(acked \ Readable) <= Cardinality(Closed)

\* The append is the first link, and its entry is not in the file before.
ChainInv ==
  /\ chain \in Seq({"append", "clear"}) /\ Len(chain) <= MaxLinks
  /\ broken \in BOOLEAN /\ (broken => chain = <<>>)
  /\ \A k \in DOMAIN chain : chain[k] = "append" => k = 1
  /\ Appending => session \notin acked /\ Len(lines) < session

FileInv == FileType /\ DamageInv /\ ChainInv

\* While the application does not run there are no calls and no screen.
DownInv ==
  /\ up \in BOOLEAN
  /\ ~up => chain = <<>> /\ readers = <<>> /\ screen = Left

\* Nothing is read before the append; what an archive has read the file still
\* holds, unless it was cleared.
Fits(r, links, appending, readable) ==
  /\ r.wait <= links
  /\ appending => r.stage = "first" /\ r.wait > 0
  /\ r.kind = "archive" => r.filter = "every"
  /\ r.kind = "archive" /\ r.stage = "second" => r.got = readable \/ readable = {}

ReaderInv ==
  /\ readers \in Seq(ReaderStates)
  /\ \A i \in DOMAIN readers : Fits(readers[i], Len(chain), Appending, Readable)

IsLoad(r) == r.kind = "load" /\ r.shown

LastLoad(i) ==
  /\ i \in DOMAIN readers /\ IsLoad(readers[i])
  /\ \A j \in DOMAIN readers : IsLoad(readers[j]) => j <= i

\* The load started last selects what the screen does, and has read the file as
\* it is; without a load the screen shows it.
LoadInv ==
  screen.mounted /\ ~broken =>
    \A i \in DOMAIN readers :
      LastLoad(i) /\ ~readers[i].late =>
        /\ readers[i].filter = screen.filter
        /\ readers[i].stage = "second" => readers[i].got = Passes(screen.filter, Readable)

\* A screen that is up to date has been loaded after the append.
CurrentInv ==
  /\ ShownIsCurrent
  /\ screen.mounted /\ NoLoad /\ ~screen.overtaken /\ ~screen.error /\ ~broken => ~Appending

ScreenInv == screen \in ScreenStates /\ LoadInv /\ CurrentInv

ArchiveInv ==
  /\ archive \in [logs : SUBSET Entries, total : 0..MaxSessions]
  /\ ReportCountsTheLogs

LogIInv == FileInv /\ DownInv /\ ReaderInv /\ ScreenInv /\ ArchiveInv

-----------------------------------------------------------------------------
(* The file *)

\* A function on 1..n is a sequence.
LEMMA FunctionIsSeq ==
  ASSUME NEW S, NEW n \in Nat, NEW f \in [1..n -> S]
  PROVE  f \in Seq(S) /\ Len(f) = n /\ DOMAIN f = 1..n
OBVIOUS

\* What the bounds are.
LEMMA Bounds ==
  /\ MaxSessions \in Nat \ {0} /\ MaxLinks \in Nat \ {0}
  /\ Entries = 1..MaxSessions /\ Damaged = 0
BY BoundsAssumption DEF Entries, Damaged

\* What a write leaves of the lines before it.
LEMMA WritesLines ==
  ASSUME FileType, NEW entry \in Entries \cup {Damaged}, NEW ended \in BOOLEAN,
         Writes(entry, ended)
  PROVE  /\ lines' \in Seq(Entries \cup {Damaged}) /\ lines' # <<>> /\ open' = ~ended
         /\ open => /\ Len(lines') = Len(lines) /\ lines'[Len(lines)] = Damaged
                    /\ Len(lines) > 0
                    /\ \A k \in 1..Len(lines) : k # Len(lines) => lines'[k] = lines[k]
         /\ ~open => /\ Len(lines') = Len(lines) + 1 /\ lines'[Len(lines) + 1] = entry
                     /\ \A k \in 1..Len(lines) : lines'[k] = lines[k]
<1>1. CASE open
  <2>1. lines' = [lines EXCEPT ![Len(lines)] = Damaged] /\ open' = ~ended
    BY <1>1 DEF Writes
  <2>2. Len(lines) \in 1..Len(lines) /\ Len(lines) \in Nat /\ lines \in Seq(Entries \cup {Damaged})
    BY <1>1 DEF FileType
  <2> QED
    BY <1>1, <2>1, <2>2, ExceptSeq
<1>2. CASE ~open
  BY <1>2, AppendProperties DEF Writes, FileType
<1> QED
  BY <1>1, <1>2

\* A write loses no acknowledged entry and no closed line; one that ends an open
\* line closes a damaged one.
LEMMA WritesKeep ==
  ASSUME FileType, DamageInv, NEW entry \in Entries \cup {Damaged}, NEW ended \in BOOLEAN,
         Writes(entry, ended)
  PROVE  /\ acked \ Readable' \subseteq acked \ Readable
         /\ Closed \subseteq Closed'
         /\ open /\ ended => Len(lines) \in Closed' \ Closed
         /\ ~open /\ entry # Damaged => entry \in Readable'
         /\ open' => lines'[Len(lines')] \in {Damaged, entry}
<1>1. /\ lines' \in Seq(Entries \cup {Damaged}) /\ lines' # <<>> /\ open' = ~ended
      /\ open => /\ Len(lines') = Len(lines) /\ lines'[Len(lines)] = Damaged
                 /\ Len(lines) > 0
                 /\ \A k \in 1..Len(lines) : k # Len(lines) => lines'[k] = lines[k]
      /\ ~open => /\ Len(lines') = Len(lines) + 1 /\ lines'[Len(lines) + 1] = entry
                  /\ \A k \in 1..Len(lines) : lines'[k] = lines[k]
  BY WritesLines
<1>2. /\ DOMAIN lines = 1..Len(lines) /\ DOMAIN lines' = 1..Len(lines')
      /\ open \in BOOLEAN /\ Damaged \notin acked
  BY <1>1, Bounds DEF FileType
<1>0. Len(lines) \in Nat /\ Len(lines') \in Nat
  BY <1>1 DEF FileType
<1>3. ASSUME NEW k \in 1..Len(lines)
      PROVE  k \in 1..Len(lines') /\ (~(open /\ k = Len(lines)) => lines'[k] = lines[k])
  <2>1. CASE open
    <3>1. Len(lines') = Len(lines)
      BY <1>1, <2>1
    <3>2. k # Len(lines) => lines'[k] = lines[k]
      BY <1>1, <2>1
    <3> QED
      BY <2>1, <3>1, <3>2
  <2>2. CASE ~open
    <3>1. Len(lines') = Len(lines) + 1
      BY <1>1, <2>2
    <3>2. lines'[k] = lines[k]
      BY <1>1, <2>2
    <3> QED
      BY <1>2, <3>1, <3>2
  <2> QED
    BY <2>1, <2>2
<1>4. acked \ Readable' \subseteq acked \ Readable
  <2> SUFFICES ASSUME NEW x \in acked, x \in Readable
               PROVE  x \in Readable'
    OBVIOUS
  <2>1. PICK k \in 1..Len(lines) : lines[k] = x
    BY <1>2 DEF Readable
  <2>2. ~(open /\ k = Len(lines))
    BY <2>1 DEF DamageInv
  <2>3. k \in DOMAIN lines' /\ lines'[k] = x
    BY <1>2, <1>3, <2>1, <2>2
  <2> QED
    BY <1>2, <2>3 DEF Readable
<1>5. Closed \subseteq Closed'
  <2> SUFFICES ASSUME NEW k \in Closed
               PROVE  k \in Closed'
    OBVIOUS
  <2>1. k \in 1..Len(lines) /\ lines[k] = Damaged /\ ~(open /\ k = Len(lines))
    BY <1>2 DEF Closed
  <2>2. k \in DOMAIN lines' /\ lines'[k] = Damaged
    BY <1>2, <1>3, <2>1
  <2>3. open' => k # Len(lines')
    <3>1. CASE open
      BY <1>1, <2>1, <3>1
    <3>2. CASE ~open
      <4>1. Len(lines') = Len(lines) + 1
        BY <1>1, <3>2
      <4> QED
        BY <1>0, <2>1, <4>1
    <3> QED
      BY <3>1, <3>2
  <2> QED
    BY <2>2, <2>3 DEF Closed
<1>6. open /\ ended => Len(lines) \in Closed' \ Closed
  <2> SUFFICES ASSUME open, ended
               PROVE  Len(lines) \in Closed' \ Closed
    OBVIOUS
  <2>1. lines'[Len(lines)] = Damaged /\ Len(lines') = Len(lines) /\ Len(lines) > 0
    BY <1>1
  <2>2. Len(lines) \in DOMAIN lines'
    BY <1>0, <1>2, <2>1
  <2>3. ~open'
    BY <1>1
  <2> QED
    BY <2>1, <2>2, <2>3 DEF Closed
<1>7. ~open /\ entry # Damaged => entry \in Readable'
  <2> SUFFICES ASSUME ~open, entry # Damaged
               PROVE  entry \in Readable'
    OBVIOUS
  <2>1. lines'[Len(lines) + 1] = entry /\ Len(lines') = Len(lines) + 1
    BY <1>1
  <2>2. Len(lines) + 1 \in DOMAIN lines'
    BY <1>0, <1>2, <2>1
  <2> QED
    BY <2>1, <2>2 DEF Readable
<1>8. open' => lines'[Len(lines')] \in {Damaged, entry}
  <2>1. CASE open
    BY <1>1, <2>1
  <2>2. CASE ~open
    BY <1>1, <2>2
  <2> QED
    BY <2>1, <2>2
<1> QED
  BY <1>4, <1>5, <1>6, <1>7, <1>8

\* Fewer entries are lost than lines are damaged, if no more are lost.
LEMMA CountedStill ==
  ASSUME NEW S, IsFiniteSet(S), NEW T, IsFiniteSet(T), Cardinality(S) <= Cardinality(T),
         NEW S2 \in SUBSET S, NEW T2, IsFiniteSet(T2), T \subseteq T2
  PROVE  Cardinality(S2) <= Cardinality(T2)
<1>1. Cardinality(S2) <= Cardinality(S) /\ IsFiniteSet(S2)
  BY FS_Subset
<1>2. Cardinality(T) <= Cardinality(T2)
  BY FS_Subset
<1>3. /\ Cardinality(S) \in Nat /\ Cardinality(S2) \in Nat
      /\ Cardinality(T) \in Nat /\ Cardinality(T2) \in Nat
  BY <1>1, FS_CardinalityType
<1> QED
  BY <1>1, <1>2, <1>3

\* The same, if one more is lost and one more line is damaged.
LEMMA CountedOneMore ==
  ASSUME NEW S, IsFiniteSet(S), NEW T, IsFiniteSet(T), Cardinality(S) <= Cardinality(T),
         NEW x, NEW S2, S2 \subseteq S \cup {x},
         NEW T2, IsFiniteSet(T2), T \subseteq T2, NEW y \in T2 \ T
  PROVE  Cardinality(S2) <= Cardinality(T2)
<1>1. Cardinality(S) \in Nat /\ Cardinality(T) \in Nat
  BY FS_CardinalityType
<1>2. IsFiniteSet(S \cup {x}) /\ Cardinality(S \cup {x}) <= Cardinality(S) + 1
  <2>1. /\ IsFiniteSet(S \cup {x})
        /\ \/ Cardinality(S \cup {x}) = Cardinality(S)
           \/ Cardinality(S \cup {x}) = Cardinality(S) + 1
    BY FS_AddElement
  <2> QED
    BY <1>1, <2>1
<1>3. IsFiniteSet(T \cup {y}) /\ Cardinality(T \cup {y}) = Cardinality(T) + 1
  BY FS_AddElement
<1>4. Cardinality(S2) <= Cardinality(S \cup {x}) /\ IsFiniteSet(S2)
  BY <1>2, FS_Subset
<1>5. T \cup {y} \subseteq T2
  OBVIOUS
<1>6. Cardinality(T \cup {y}) <= Cardinality(T2)
  BY <1>5, FS_Subset
<1>7. /\ Cardinality(S2) \in Nat /\ Cardinality(S \cup {x}) \in Nat /\ Cardinality(T2) \in Nat
  BY <1>2, <1>4, FS_CardinalityType
<1> QED
  BY <1>1, <1>2, <1>3, <1>4, <1>6, <1>7

\* The sets that are counted are finite.
LEMMA FilesFinite ==
  ASSUME FileType
  PROVE  IsFiniteSet(acked \ Readable) /\ IsFiniteSet(Closed)
<1>1. IsFiniteSet(1..session) /\ IsFiniteSet(1..Len(lines))
  BY FS_Interval DEF FileType
<1>2. IsFiniteSet(acked)
  BY <1>1, FS_Subset DEF FileType
<1>3. acked \ Readable \subseteq acked
  OBVIOUS
<1>4. Closed \subseteq 1..Len(lines)
  BY DEF Closed, FileType
<1> QED
  BY <1>1, <1>2, <1>3, <1>4, FS_Subset

\* The same of the next state.
LEMMA ClosedFiniteNext ==
  ASSUME FileType'
  PROVE  IsFiniteSet(Closed')
<1>1. IsFiniteSet(1..Len(lines'))
  BY FS_Interval DEF FileType
<1>2. Closed' \subseteq 1..Len(lines')
  BY DEF Closed, FileType
<1> QED
  BY <1>1, <1>2, FS_Subset

\* A write adds at most one line.
LEMMA WritesType ==
  ASSUME FileType, Len(lines) < session, NEW entry \in {session, Damaged}, NEW ended \in BOOLEAN,
         Writes(entry, ended), session' = session, acked' \in {acked, acked \cup {session}}
  PROVE  FileType'
<1>1. session \in 1..session /\ session \in Entries
  BY Bounds DEF FileType
<1>2. entry \in Entries \cup {Damaged}
  BY <1>1
<1>3. /\ lines' \in Seq(Entries \cup {Damaged}) /\ lines' # <<>> /\ open' = ~ended
      /\ open => Len(lines') = Len(lines)
      /\ ~open => Len(lines') = Len(lines) + 1
  BY <1>2, WritesLines
<1>4. Len(lines') <= session
  <2>1. Len(lines) \in Nat /\ session \in Nat
    BY DEF FileType
  <2>2. CASE open
    BY <1>3, <2>1, <2>2
  <2>3. CASE ~open
    BY <1>3, <2>1, <2>3
  <2> QED
    BY <2>2, <2>3
<1> QED
  BY <1>1, <1>3, <1>4 DEF FileType

\* An append that is cut loses nothing acknowledged.
LEMMA AppendCut ==
  ASSUME FileType, DamageInv, Len(lines) < session, session \notin acked,
         WritesPartly, session' = session, acked' = acked
  PROVE  FileType' /\ DamageInv'
<1>1. CASE UNCHANGED disk
  BY <1>1 DEF disk, FileType, DamageInv, Readable, Closed
<1>2. ASSUME NEW entry \in {session, Damaged}, NEW ended \in BOOLEAN, Writes(entry, ended)
      PROVE  FileType' /\ DamageInv'
  <2>1. FileType'
    BY <1>2, WritesType
  <2>2. entry \in Entries \cup {Damaged} /\ Damaged \notin acked
    BY Bounds DEF FileType
  <2>3. /\ acked \ Readable' \subseteq acked \ Readable /\ Closed \subseteq Closed'
        /\ open' => lines'[Len(lines')] \in {Damaged, entry}
    BY <1>2, <2>2, WritesKeep
  <2>4. open' => lines'[Len(lines')] \notin acked'
    BY <2>2, <2>3
  <2>5. /\ IsFiniteSet(acked \ Readable) /\ IsFiniteSet(Closed) /\ IsFiniteSet(Closed')
    BY <2>1, FilesFinite, ClosedFiniteNext
  <2>6. Cardinality(acked \ Readable) <= Cardinality(Closed)
    BY DEF DamageInv
  <2>7. Cardinality(acked \ Readable') <= Cardinality(Closed')
    BY <2>3, <2>5, <2>6, CountedStill
  <2> QED
    BY <2>1, <2>4, <2>7 DEF DamageInv
<1>3. Damaged \in {session, Damaged} /\ session \in {session, Damaged} /\ FALSE \in BOOLEAN
  OBVIOUS
<1> QED
  BY <1>1, <1>2, <1>3 DEF WritesPartly

\* One that succeeds loses its entry only in a line it has damaged.
LEMMA AppendWritten ==
  ASSUME FileType, DamageInv, Len(lines) < session,
         Writes(session, TRUE), session' = session, acked' = acked \cup {session}
  PROVE  FileType' /\ DamageInv'
<1>1. FileType'
  BY WritesType
<1>2. session \in Entries \cup {Damaged} /\ session # Damaged /\ open \in BOOLEAN
  BY Bounds DEF FileType
<1>3. /\ acked \ Readable' \subseteq acked \ Readable /\ Closed \subseteq Closed'
      /\ open => Len(lines) \in Closed' \ Closed
      /\ ~open => session \in Readable'
  BY <1>2, WritesKeep
<1>4. open' = FALSE
  BY DEF Writes
<1>5. /\ IsFiniteSet(acked \ Readable) /\ IsFiniteSet(Closed) /\ IsFiniteSet(Closed')
  BY <1>1, FilesFinite, ClosedFiniteNext
<1>6. Cardinality(acked \ Readable) <= Cardinality(Closed)
  BY DEF DamageInv
<1>7. Cardinality(acked' \ Readable') <= Cardinality(Closed')
  <2>1. CASE open
    <3>1. acked' \ Readable' \subseteq (acked \ Readable) \cup {session}
      BY <1>3
    <3> QED
      BY <1>3, <1>5, <1>6, <2>1, <3>1, CountedOneMore
  <2>2. CASE ~open
    <3>1. acked' \ Readable' \in SUBSET (acked \ Readable)
      BY <1>3, <2>2
    <3> QED
      BY <1>3, <1>5, <1>6, <3>1, CountedStill
  <2> QED
    BY <2>1, <2>2
<1> QED
  BY <1>1, <1>4, <1>7 DEF DamageInv

\* An empty file has lost nothing.
LEMMA Truncated ==
  ASSUME FileType, Truncates, session' = session
  PROVE  FileType' /\ DamageInv' /\ lines' = <<>>
<1>1. lines' = <<>> /\ open' = FALSE /\ acked' = {}
  BY DEF Truncates
<1>2. FileType'
  <2>1. lines' \in Seq(Entries \cup {Damaged}) /\ Len(lines') = 0
    BY <1>1
  <2>2. session' \in 0..MaxSessions /\ Len(lines') <= session'
    BY <2>1 DEF FileType
  <2> QED
    BY <1>1, <2>1, <2>2 DEF FileType
<1>3. acked' \ Readable' = {} /\ Closed' = {}
  BY <1>1 DEF Closed
<1>4. Cardinality(acked' \ Readable') <= Cardinality(Closed')
  BY <1>3, FS_EmptySet
<1> QED
  BY <1>1, <1>2, <1>4 DEF DamageInv

-----------------------------------------------------------------------------
(* The chain *)

\* The head is the append until it has completed; what follows are clears.
LEMMA ChainHead ==
  ASSUME ChainInv, chain # <<>>
  PROVE  /\ Head(chain) \in {"append", "clear"} /\ (Head(chain) = "append" <=> Appending)
         /\ Tail(chain) \in Seq({"append", "clear"}) /\ Len(Tail(chain)) = Len(chain) - 1
         /\ Len(chain) \in Nat \ {0} /\ ~broken
         /\ \A k \in DOMAIN Tail(chain) : Tail(chain)[k] # "append"
<1>1. chain \in Seq({"append", "clear"}) /\ ~broken
  BY DEF ChainInv
<1>2. Len(chain) \in Nat \ {0} /\ DOMAIN chain = 1..Len(chain) /\ 1 \in DOMAIN chain
  BY <1>1, EmptySeq
<1>3. Head(chain) = chain[1] /\ Head(chain) \in {"append", "clear"}
  BY <1>1, HeadTailProperties
<1>4. /\ Tail(chain) \in Seq({"append", "clear"}) /\ Len(Tail(chain)) = Len(chain) - 1
      /\ \A k \in 1..Len(Tail(chain)) : Tail(chain)[k] = chain[k + 1]
  BY <1>1, HeadTailProperties
<1>5. Head(chain) = "append" <=> Appending
  BY <1>2, <1>3 DEF ChainInv, Appending
<1>6. ASSUME NEW k \in DOMAIN Tail(chain)
      PROVE  Tail(chain)[k] # "append"
  <2>1. k \in 1..Len(Tail(chain)) /\ k + 1 \in DOMAIN chain /\ k + 1 # 1
    BY <1>2, <1>4
  <2> QED
    BY <1>4, <2>1 DEF ChainInv
<1> QED
  BY <1>1, <1>2, <1>3, <1>4, <1>5, <1>6

\* A chain without an append asks nothing of the file.
LEMMA ChainOfClears ==
  ASSUME chain' \in Seq({"append", "clear"}), Len(chain') <= MaxLinks,
         \A k \in DOMAIN chain' : chain'[k] # "append",
         broken' \in BOOLEAN, broken' => chain' = <<>>
  PROVE  ChainInv' /\ ~Appending'
BY DEF ChainInv, Appending

\* What a link that fails or is cut off leaves.
LEMMA FileAfterCut ==
  ASSUME FileInv, chain # <<>>, LinkCutOff, session' = session
  PROVE  FileType' /\ DamageInv'
<1>1. CASE Head(chain) = "append" /\ WritesPartly /\ UNCHANGED acked
  <2>1. Len(lines) < session /\ session \notin acked
    BY <1>1, ChainHead DEF FileInv, ChainInv
  <2> QED
    BY <1>1, <2>1, AppendCut DEF FileInv
<1>2. CASE Head(chain) = "clear" /\ Truncates
  BY <1>2, Truncated DEF FileInv
<1>3. CASE UNCHANGED <<disk, acked>>
  BY <1>3 DEF FileInv, disk, FileType, DamageInv, Readable, Closed
<1> QED
  BY <1>1, <1>2, <1>3 DEF LinkCutOff

\* A new session has not logged its entry yet.
LEMMA FileLaunch ==
  ASSUME FileInv, Launch
  PROVE  FileInv'
<1>1. /\ session' = session + 1 /\ session < MaxSessions /\ chain' = <<"append">>
      /\ broken' = FALSE /\ lines' = lines /\ open' = open /\ acked' = acked
  BY DEF Launch, disk
<1>2. session \in Nat /\ session' \in 0..MaxSessions /\ Len(lines) \in Nat /\ Len(lines) <= session
  BY <1>1, Bounds DEF FileInv, FileType
<1>3. 1..session \subseteq 1..session' /\ session' \notin 1..session
  BY <1>1, <1>2
<1>4. FileType'
  <2>1. Len(lines) <= session'
    BY <1>1, <1>2
  <2> QED
    BY <1>1, <1>2, <1>3, <2>1 DEF FileInv, FileType
<1>5. DamageInv'
  BY <1>1 DEF FileInv, DamageInv, Readable, Closed
<1>6. ChainInv'
  <2>1. chain' \in Seq({"append", "clear"}) /\ Len(chain') = 1 /\ DOMAIN chain' = {1}
    BY <1>1
  <2>2. Len(chain') <= MaxLinks
    BY <2>1, Bounds
  <2>3. session' \notin acked' /\ Len(lines') < session'
    BY <1>1, <1>2, <1>3 DEF FileInv, FileType
  <2> QED
    BY <1>1, <2>1, <2>2, <2>3 DEF ChainInv
<1> QED
  BY <1>4, <1>5, <1>6 DEF FileInv

\* The end of the application cuts the link at the head.
LEMMA FileEnds ==
  ASSUME FileInv, Ends
  PROVE  FileInv'
<1>1. session' = session /\ chain' = <<>> /\ broken' = FALSE
  BY DEF Ends
<1>2. FileType' /\ DamageInv'
  <2>1. CASE chain = <<>>
    <3>1. lines' = lines /\ open' = open /\ acked' = acked
      BY <2>1 DEF Ends, disk
    <3> QED
      BY <1>1, <3>1 DEF FileInv, FileType, DamageInv, Readable, Closed
  <2>2. CASE chain # <<>>
    BY <1>1, <2>2, FileAfterCut DEF Ends
  <2> QED
    BY <2>1, <2>2
<1>3. ChainInv'
  <2>1. /\ chain' \in Seq({"append", "clear"}) /\ Len(chain') <= MaxLinks
        /\ \A k \in DOMAIN chain' : chain'[k] # "append"
    BY <1>1, Bounds
  <2> QED
    BY <1>1, <2>1, ChainOfClears
<1> QED
  BY <1>2, <1>3 DEF FileInv

\* After a link has completed there is no append left.
LEMMA ChainAfterLink ==
  ASSUME ChainInv, chain # <<>>, chain' \in {Tail(chain), <<>>}, broken' \in BOOLEAN,
         broken' => chain' = <<>>
  PROVE  ChainInv' /\ ~Appending'
<1>1. CASE chain' = Tail(chain)
  <2>1. Len(chain') <= MaxLinks
    BY <1>1, ChainHead, Bounds DEF ChainInv
  <2> QED
    BY <1>1, <2>1, ChainHead, ChainOfClears
<1>2. CASE chain' = <<>>
  <2>1. /\ chain' \in Seq({"append", "clear"}) /\ Len(chain') <= MaxLinks
        /\ \A k \in DOMAIN chain' : chain'[k] # "append"
    BY <1>2, Bounds
  <2> QED
    BY <2>1, ChainOfClears
<1> QED
  BY <1>1, <1>2

\* The append acknowledges the entry of the session.
LEMMA FileAppendDone ==
  ASSUME FileInv, AppendDone
  PROVE  FileInv' /\ ~Appending'
<1>1. /\ chain # <<>> /\ Head(chain) = "append" /\ Writes(session, TRUE) /\ session' = session
      /\ acked' = acked \cup {session} /\ chain' = Tail(chain) /\ broken' = broken
  BY DEF AppendDone
<1>2. Len(lines) < session /\ broken' = FALSE
  BY <1>1, ChainHead DEF FileInv, ChainInv
<1>3. FileType' /\ DamageInv'
  BY <1>1, <1>2, AppendWritten DEF FileInv
<1>4. ChainInv' /\ ~Appending'
  BY <1>1, <1>2, ChainAfterLink DEF FileInv
<1> QED
  BY <1>3, <1>4 DEF FileInv

\* A clear empties the file and takes back what was acknowledged.
LEMMA FileClearDone ==
  ASSUME FileInv, ClearDone
  PROVE  FileInv' /\ ~Appending' /\ lines' = <<>>
<1>1. /\ chain # <<>> /\ Truncates /\ session' = session
      /\ chain' = Tail(chain) /\ broken' = broken
  BY DEF ClearDone
<1>2. broken' = FALSE
  BY <1>1 DEF FileInv, ChainInv
<1>3. FileType' /\ DamageInv' /\ lines' = <<>>
  BY <1>1, Truncated DEF FileInv
<1>4. ChainInv' /\ ~Appending'
  BY <1>1, <1>2, ChainAfterLink DEF FileInv
<1> QED
  BY <1>3, <1>4 DEF FileInv

\* A link that fails takes the chain with it.
LEMMA FileLinkFails ==
  ASSUME FileInv, LinkFails
  PROVE  FileInv' /\ ~Appending'
<1>1. /\ chain # <<>> /\ LinkCutOff /\ session' = session
      /\ chain' = <<>> /\ broken' = TRUE
  BY DEF LinkFails
<1>2. FileType' /\ DamageInv'
  BY <1>1, FileAfterCut
<1>3. ChainInv' /\ ~Appending'
  BY <1>1, ChainAfterLink DEF FileInv
<1> QED
  BY <1>2, <1>3 DEF FileInv

\* A clear is chained after all the others, on a future that has not failed.
LEMMA FileConfirmClear ==
  ASSUME FileInv, ConfirmClear
  PROVE  FileInv' /\ (Appending' <=> Appending)
<1>1. /\ session' = session /\ lines' = lines /\ open' = open /\ acked' = acked
      /\ broken' = broken /\ Len(chain) < MaxLinks
      /\ chain' = IF broken THEN <<>> ELSE Append(chain, "clear")
  BY DEF ConfirmClear, disk
<1>2. FileType' /\ DamageInv'
  BY <1>1 DEF FileInv, FileType, DamageInv, Readable, Closed
<1>3. chain \in Seq({"append", "clear"}) /\ broken \in BOOLEAN /\ (broken => chain = <<>>)
  BY DEF FileInv, ChainInv
<1>4. CASE broken
  <2>1. chain' = chain
    BY <1>1, <1>3, <1>4
  <2> QED
    BY <1>1, <1>2, <2>1 DEF FileInv, ChainInv, Appending
<1>5. CASE ~broken
  <2>1. chain' = Append(chain, "clear")
    BY <1>1, <1>5
  <2>2. /\ chain' \in Seq({"append", "clear"}) /\ Len(chain') = Len(chain) + 1
        /\ chain'[Len(chain) + 1] = "clear" /\ Len(chain) \in Nat
        /\ DOMAIN chain = 1..Len(chain) /\ DOMAIN chain' = 1..Len(chain) + 1
    BY <1>3, <2>1, AppendProperties
  <2>3. \A k \in 1..Len(chain) : chain'[k] = chain[k]
    BY <1>3, <2>1, AppendProperties
  <2>4. Len(chain') <= MaxLinks
    BY <1>1, <2>2, Bounds
  <2>5. \A k \in DOMAIN chain' : chain'[k] = "append" => k \in DOMAIN chain /\ chain[k] = "append"
    <3> SUFFICES ASSUME NEW k \in DOMAIN chain', chain'[k] = "append"
                 PROVE  k \in DOMAIN chain /\ chain[k] = "append"
      OBVIOUS
    <3>1. k # Len(chain) + 1
      BY <2>2
    <3>2. k \in 1..Len(chain)
      BY <2>2, <3>1
    <3> QED
      BY <2>2, <2>3, <3>2
  <2>6. DOMAIN chain \subseteq DOMAIN chain'
    BY <2>2
  <2>7. Appending' <=> Appending
    BY <2>2, <2>3, <2>5, <2>6 DEF Appending
  <2> QED
    BY <1>1, <1>2, <1>3, <1>5, <2>2, <2>4, <2>5, <2>7 DEF FileInv, ChainInv
<1> QED
  BY <1>3, <1>4, <1>5

\* What readers and the screen do by themselves leaves the file alone.
LEMMA FileUnchanged ==
  ASSUME FileInv, session' = session, UNCHANGED log
  PROVE  FileInv' /\ (Appending' <=> Appending) /\ Readable' = Readable
BY DEF FileInv, FileType, DamageInv, ChainInv, Appending, Closed, Readable, log, disk

-----------------------------------------------------------------------------
(* Readers *)

\* What one changed field leaves of a reader.
LEMMA ReaderFields ==
  ASSUME NEW r \in ReaderStates
  PROVE  /\ r.kind \in {"log", "load", "archive"} /\ r.stage \in {"first", "second"}
         /\ r.wait \in 0..MaxLinks /\ r.doomed \in BOOLEAN /\ r.filter \in Filters
         /\ r.got \in SUBSET Entries /\ r.late \in BOOLEAN /\ r.shown \in BOOLEAN
BY DEF ReaderStates

SameRead(r, q) ==
  /\ r.kind = q.kind /\ r.stage = q.stage /\ r.filter = q.filter /\ r.got = q.got

\* A reader that may have been overtaken.
LEMMA LateSet ==
  ASSUME NEW r \in ReaderStates, NEW late \in BOOLEAN
  PROVE  /\ [r EXCEPT !.late = late] \in ReaderStates /\ SameRead([r EXCEPT !.late = late], r)
         /\ [r EXCEPT !.late = late].wait = r.wait /\ [r EXCEPT !.late = late].shown = r.shown
         /\ [r EXCEPT !.late = late].late = late
BY DEF ReaderStates, SameRead

\* A reader that awaits fewer links.
LEMMA WaitSet ==
  ASSUME NEW r \in ReaderStates, NEW wait \in 0..MaxLinks
  PROVE  /\ [r EXCEPT !.wait = wait] \in ReaderStates /\ SameRead([r EXCEPT !.wait = wait], r)
         /\ [r EXCEPT !.wait = wait].wait = wait /\ [r EXCEPT !.wait = wait].shown = r.shown
         /\ [r EXCEPT !.wait = wait].late = r.late
BY DEF ReaderStates, SameRead

\* A reader that awaits no link any more, and may have awaited a failed one.
LEMMA FailedSet ==
  ASSUME NEW r \in ReaderStates, NEW doomed \in BOOLEAN, NEW q,
         q = [r EXCEPT !.doomed = doomed, !.wait = 0]
  PROVE  q \in ReaderStates /\ SameRead(q, r) /\ q.wait = 0 /\ q.shown = r.shown
<1>0. 0 \in 0..MaxLinks
  BY Bounds
<1>1. q \in ReaderStates
  BY <1>0 DEF ReaderStates
<1>2. SameRead(q, r) /\ q.wait = 0 /\ q.shown = r.shown
  BY DEF ReaderStates, SameRead
<1> QED
  BY <1>1, <1>2

\* A reader whose screen has been left.
LEMMA HiddenSet ==
  ASSUME NEW r \in ReaderStates, NEW q, q = [r EXCEPT !.shown = FALSE]
  PROVE  q \in ReaderStates /\ SameRead(q, r) /\ q.wait = r.wait /\ ~q.shown
BY DEF ReaderStates, SameRead

\* A reader that starts.
LEMMA ReaderIs ==
  ASSUME NEW kind \in {"log", "load", "archive"}, NEW filter \in Filters,
         NEW ch \in Seq({"append", "clear"}), Len(ch) <= MaxLinks, broken \in BOOLEAN,
         NEW r, r = Reader(kind, filter, ch)
  PROVE  /\ r \in ReaderStates /\ r.kind = kind /\ r.filter = filter /\ r.stage = "first"
         /\ r.wait = Len(ch) /\ ~r.late /\ r.shown
<1>1. Len(ch) \in 0..MaxLinks
  BY Bounds
<1> QED
  BY <1>1 DEF Reader, ReaderStates

\* It awaits the append, if there is one.
LEMMA ReaderFits ==
  ASSUME NEW kind \in {"log", "load", "archive"}, NEW filter \in Filters,
         kind = "archive" => filter = "every",
         NEW ch \in Seq({"append", "clear"}), Len(ch) <= MaxLinks, broken \in BOOLEAN,
         NEW appending \in BOOLEAN, appending => ch # <<>>, NEW readable
  PROVE  Fits(Reader(kind, filter, ch), Len(ch), appending, readable)
<1> DEFINE r == Reader(kind, filter, ch)
<1>1. r.kind = kind /\ r.filter = filter /\ r.stage = "first" /\ r.wait = Len(ch)
  BY DEF Reader
<1>2. Len(ch) \in Nat /\ (ch # <<>> => Len(ch) > 0)
  BY EmptySeq
<1> HIDE DEF r
<1>3. Fits(r, Len(ch), appending, readable)
  BY <1>1, <1>2 DEF Fits
<1> QED
  BY <1>3 DEF r

\* Readers that all fit and one more.
LEMMA OneMoreFits ==
  ASSUME NEW rs \in Seq(ReaderStates), NEW r \in ReaderStates, readers' = Append(rs, r),
         \A i \in DOMAIN rs : Fits(rs[i], Len(chain'), Appending', Readable'),
         Fits(r, Len(chain'), Appending', Readable')
  PROVE  ReaderInv'
<1>1. /\ readers' \in Seq(ReaderStates) /\ Len(readers') = Len(rs) + 1
      /\ Len(rs) \in Nat /\ DOMAIN rs = 1..Len(rs) /\ DOMAIN readers' = 1..Len(rs) + 1
      /\ readers'[Len(rs) + 1] = r
  BY AppendProperties
<1>2. \A i \in 1..Len(rs) : readers'[i] = rs[i]
  BY AppendProperties
<1>3. ASSUME NEW i \in DOMAIN readers'
      PROVE  Fits(readers'[i], Len(chain'), Appending', Readable')
  <2>1. CASE i = Len(rs) + 1
    BY <1>1, <2>1
  <2>2. CASE i # Len(rs) + 1
    <3>1. i \in 1..Len(rs)
      BY <1>1, <2>2
    <3> QED
      BY <1>1, <1>2, <3>1
  <2> QED
    BY <2>1, <2>2
<1> QED
  BY <1>1, <1>3 DEF ReaderInv

\* Once the head has completed every reader awaits one link less.
LEMMA AdvancedIs ==
  ASSUME readers \in Seq(ReaderStates)
  PROVE  /\ Advanced \in Seq(ReaderStates) /\ DOMAIN Advanced = DOMAIN readers
         /\ Len(Advanced) = Len(readers)
         /\ \A i \in DOMAIN readers :
              /\ SameRead(Advanced[i], readers[i]) /\ Advanced[i].shown = readers[i].shown
              /\ Advanced[i].late = readers[i].late
              /\ Advanced[i].wait = IF readers[i].wait = 0 THEN 0 ELSE readers[i].wait - 1
<1>1. Len(readers) \in Nat /\ DOMAIN readers = 1..Len(readers)
  OBVIOUS
<1>2. ASSUME NEW i \in DOMAIN readers
      PROVE  /\ Advanced[i] \in ReaderStates
             /\ SameRead(Advanced[i], readers[i]) /\ Advanced[i].shown = readers[i].shown
             /\ Advanced[i].late = readers[i].late
             /\ Advanced[i].wait = IF readers[i].wait = 0 THEN 0 ELSE readers[i].wait - 1
  <2> DEFINE r == readers[i]
             w == IF r.wait = 0 THEN 0 ELSE r.wait - 1
  <2>1. r \in ReaderStates
    BY <1>1
  <2>2. Advanced[i] = [r EXCEPT !.wait = w]
    BY <2>1 DEF Advanced, ReaderStates
  <2>3. w \in 0..MaxLinks
    <3> HIDE DEF r
    <3> QED
      BY <2>1, ReaderFields, Bounds
  <2> HIDE DEF r, w
  <2>4. /\ Advanced[i] \in ReaderStates /\ SameRead(Advanced[i], r) /\ Advanced[i].wait = w
        /\ Advanced[i].shown = r.shown /\ Advanced[i].late = r.late
    BY <2>1, <2>2, <2>3, WaitSet
  <2> QED
    BY <2>4 DEF r, w
<1>3. Advanced = [i \in DOMAIN readers |-> Advanced[i]]
  BY DEF Advanced
<1>4. Advanced \in [1..Len(readers) -> ReaderStates]
  BY <1>1, <1>2, <1>3
<1> QED
  BY <1>1, <1>2, <1>4, FunctionIsSeq

\* Where the reader stands that is number j after reader i has ended.
Old(i, j) == IF j < i THEN j ELSE j + 1

\* A reader that ends leaves the others, and the loads before it are late.
LEMMA WithoutIs ==
  ASSUME readers \in Seq(ReaderStates), NEW i \in DOMAIN readers
  PROVE  /\ Without(i) \in Seq(ReaderStates) /\ Len(Without(i)) = Len(readers) - 1
         /\ Len(readers) \in Nat \ {0}
         /\ \A j \in 1..Len(readers) - 1 :
              /\ Old(i, j) \in DOMAIN readers
              /\ SameRead(Without(i)[j], readers[Old(i, j)])
              /\ Without(i)[j].wait = readers[Old(i, j)].wait
              /\ Without(i)[j].shown = readers[Old(i, j)].shown
              /\ Without(i)[j].late =
                   (\/ readers[Old(i, j)].late
                    \/ readers[i].kind = "load" /\ j < i /\ readers[Old(i, j)].kind = "load")
<1> DEFINE n == Len(readers)
           late(k) == readers[k].late
                      \/ (readers[i].kind = "load" /\ k < i /\ readers[k].kind = "load")
           fs == [k \in DOMAIN readers |-> [readers[k] EXCEPT !.late = late(k)]]
<1>1. n \in Nat \ {0} /\ DOMAIN readers = 1..n /\ i \in 1..n
  OBVIOUS
<1>2. ASSUME NEW k \in 1..n
      PROVE  /\ fs[k] \in ReaderStates /\ SameRead(fs[k], readers[k])
             /\ fs[k].wait = readers[k].wait /\ fs[k].shown = readers[k].shown
             /\ fs[k].late = late(k)
  <2>1. fs[k] = [readers[k] EXCEPT !.late = late(k)]
    BY <1>1
  <2>2. readers[k] \in ReaderStates
    BY <1>1
  <2>3. late(k) \in BOOLEAN
    BY <2>2, ReaderFields
  <2> HIDE DEF fs, late
  <2> QED
    BY <2>1, <2>2, <2>3, LateSet
<1>3. fs \in [1..n -> ReaderStates]
  BY <1>1, <1>2
<1>4. fs \in Seq(ReaderStates) /\ Len(fs) = n /\ DOMAIN fs = 1..n
  BY <1>1, <1>3, FunctionIsSeq
<1>5. Without(i) = RemoveAt(fs, i)
  BY DEF Without
<1> HIDE DEF fs, late, n
<1>6. RemoveAt(fs, i) = SubSeq(fs, 1, i - 1) \o SubSeq(fs, i + 1, n)
  BY <1>4 DEF RemoveAt
<1>7. /\ SubSeq(fs, 1, i - 1) \in Seq(ReaderStates) /\ Len(SubSeq(fs, 1, i - 1)) = i - 1
      /\ \A j \in 1..i - 1 : SubSeq(fs, 1, i - 1)[j] = fs[j]
  BY <1>1, <1>4, SubSeqProperties
<1>8. /\ SubSeq(fs, i + 1, n) \in Seq(ReaderStates) /\ Len(SubSeq(fs, i + 1, n)) = n - i
      /\ \A j \in 1..n - i : SubSeq(fs, i + 1, n)[j] = fs[i + j]
  BY <1>1, <1>4, SubSeqProperties
<1>9. /\ Without(i) \in Seq(ReaderStates) /\ Len(Without(i)) = n - 1
      /\ \A j \in 1..n - 1 : Without(i)[j] = fs[Old(i, j)]
  <2> DEFINE s1 == SubSeq(fs, 1, i - 1)
             s2 == SubSeq(fs, i + 1, n)
  <2>1. /\ s1 \in Seq(ReaderStates) /\ Len(s1) = i - 1 /\ \A j \in 1..i - 1 : s1[j] = fs[j]
        /\ s2 \in Seq(ReaderStates) /\ Len(s2) = n - i /\ \A j \in 1..n - i : s2[j] = fs[i + j]
        /\ Without(i) = s1 \o s2
    BY <1>5, <1>6, <1>7, <1>8
  <2> HIDE DEF s1, s2
  <2>2. /\ s1 \o s2 \in Seq(ReaderStates) /\ Len(s1 \o s2) = Len(s1) + Len(s2)
        /\ \A j \in 1..Len(s1) + Len(s2) :
             (s1 \o s2)[j] = IF j <= Len(s1) THEN s1[j] ELSE s2[j - Len(s1)]
    BY <2>1, ConcatProperties
  <2>3. Len(s1) + Len(s2) = n - 1
    BY <1>1, <2>1
  <2>4. ASSUME NEW j \in 1..n - 1
        PROVE  (s1 \o s2)[j] = fs[Old(i, j)]
    <3>1. CASE j < i
      <4>1. j \in 1..i - 1 /\ j <= Len(s1) /\ j \in 1..Len(s1) + Len(s2)
        BY <1>1, <2>1, <2>3, <3>1
      <4>2. (s1 \o s2)[j] = s1[j]
        BY <2>2, <4>1
      <4> QED
        BY <2>1, <3>1, <4>1, <4>2 DEF Old
    <3>2. CASE ~(j < i)
      <4>1. ~(j <= Len(s1)) /\ j \in 1..Len(s1) + Len(s2)
        BY <1>1, <2>1, <2>3, <3>2
      <4>4. j - (i - 1) \in 1..n - i
        BY <1>1, <3>2
      <4>5. i + (j - (i - 1)) = j + 1
        BY <1>1
      <4>2. (s1 \o s2)[j] = s2[j - (i - 1)]
        BY <2>1, <2>2, <4>1
      <4>3. s2[j - (i - 1)] = fs[i + (j - (i - 1))]
        BY <2>1, <4>4
      <4> QED
        BY <3>2, <4>2, <4>3, <4>5 DEF Old
    <3> QED
      BY <3>1, <3>2
  <2> QED
    BY <2>1, <2>2, <2>3, <2>4
<1>10. ASSUME NEW j \in 1..n - 1
       PROVE  /\ Old(i, j) \in 1..n /\ (Old(i, j) < i <=> j < i)
  BY <1>1 DEF Old
<1>11. ASSUME NEW j \in 1..n - 1
       PROVE  /\ SameRead(Without(i)[j], readers[Old(i, j)])
              /\ Without(i)[j].wait = readers[Old(i, j)].wait
              /\ Without(i)[j].shown = readers[Old(i, j)].shown
              /\ Without(i)[j].late = late(Old(i, j))
  BY <1>2, <1>9, <1>10
<1>12. ASSUME NEW j \in 1..n - 1
       PROVE  late(Old(i, j)) =
                   (\/ readers[Old(i, j)].late
                    \/ readers[i].kind = "load" /\ j < i /\ readers[Old(i, j)].kind = "load")
  BY <1>10 DEF late
<1> QED
  BY <1>1, <1>9, <1>10, <1>11, <1>12 DEF n

\* The readers of an unchanged or of a mapped sequence fit.
LEMMA AllFit ==
  ASSUME NEW rs \in Seq(ReaderStates), readers' = rs,
         \A i \in DOMAIN rs : Fits(rs[i], Len(chain'), Appending', Readable')
  PROVE  ReaderInv'
BY DEF ReaderInv

\* Readers that fit, and the load of a screen that is notified.
LEMMA NotifiedFits ==
  ASSUME NEW rs \in Seq(ReaderStates), readers' = Notified(rs, chain'),
         \A i \in DOMAIN rs : Fits(rs[i], Len(chain'), Appending', Readable'),
         screen \in ScreenStates, ChainInv', broken \in BOOLEAN
  PROVE  ReaderInv'
<1> DEFINE r == Reader("load", screen.filter, chain')
<1>1. screen.filter \in Filters
  BY DEF ScreenStates
<1>2. /\ chain' \in Seq({"append", "clear"}) /\ Len(chain') <= MaxLinks
      /\ (Appending' => chain' # <<>>) /\ Appending' \in BOOLEAN
  BY DEF ChainInv, Appending
<1>3. r \in ReaderStates
  BY <1>1, <1>2, ReaderIs
<1>4. Fits(r, Len(chain'), Appending', Readable')
  BY <1>1, <1>2, ReaderFits
<1>5. readers' = IF screen.mounted THEN Append(rs, r) ELSE rs
  BY DEF Notified
<1> HIDE DEF r
<1>6. CASE screen.mounted
  BY <1>3, <1>4, <1>5, <1>6, OneMoreFits
<1>7. CASE ~screen.mounted
  BY <1>5, <1>7, AllFit
<1> QED
  BY <1>6, <1>7

\* The append was the only link all readers awaited; one more asks for its event.
LEMMA ReadersAppendDone ==
  ASSUME FileInv, ReaderInv, AppendDone
  PROVE  ReaderInv'
<1>1. /\ chain # <<>> /\ Head(chain) = "append" /\ chain' = Tail(chain)
      /\ readers' = Append(Advanced, Reader("log", "every", chain'))
  BY DEF AppendDone
<1>2. Appending /\ Len(chain') = Len(chain) - 1 /\ broken \in BOOLEAN /\ Len(chain) \in Nat
  BY <1>1, ChainHead DEF FileInv, ChainInv
<1>3. ~Appending' /\ ChainInv'
  BY FileAppendDone DEF FileInv
<1>4. /\ Advanced \in Seq(ReaderStates) /\ DOMAIN Advanced = DOMAIN readers
      /\ \A i \in DOMAIN readers :
           /\ SameRead(Advanced[i], readers[i])
           /\ Advanced[i].wait = IF readers[i].wait = 0 THEN 0 ELSE readers[i].wait - 1
  BY AdvancedIs DEF ReaderInv
<1>5. ASSUME NEW i \in DOMAIN Advanced
      PROVE  Fits(Advanced[i], Len(chain'), Appending', Readable')
  <2>1. Fits(readers[i], Len(chain), Appending, Readable) /\ readers[i] \in ReaderStates
    BY <1>4 DEF ReaderInv
  <2>2. /\ readers[i].stage = "first" /\ readers[i].wait > 0 /\ readers[i].wait <= Len(chain)
        /\ (readers[i].kind = "archive" => readers[i].filter = "every")
        /\ readers[i].wait \in Nat
    BY <1>2, <2>1, ReaderFields DEF Fits
  <2>3. /\ Advanced[i].stage = "first"
        /\ Advanced[i].kind = "archive" => Advanced[i].filter = "every"
    BY <1>4, <2>2 DEF SameRead
  <2>4. Advanced[i].wait <= Len(chain')
    BY <1>2, <1>4, <2>2
  <2> QED
    BY <1>3, <2>3, <2>4 DEF Fits
<1>6. chain' \in Seq({"append", "clear"}) /\ Len(chain') <= MaxLinks
  BY <1>3 DEF ChainInv
<1> DEFINE r == Reader("log", "every", chain')
<1>7. r \in ReaderStates /\ Fits(r, Len(chain'), Appending', Readable')
  <2>1. "log" \in {"log", "load", "archive"} /\ "every" \in Filters
    BY DEF Filters
  <2>4. Appending' \in BOOLEAN
    BY DEF Appending
  <2>2. r \in ReaderStates
    BY <1>2, <1>6, <2>1, ReaderIs
  <2>3. Fits(r, Len(chain'), Appending', Readable')
    BY <1>2, <1>3, <1>6, <2>1, <2>4, ReaderFits
  <2> QED
    BY <2>2, <2>3
<1>8. readers' = Append(Advanced, r)
  BY <1>1
<1> HIDE DEF r
<1> QED
  BY <1>4, <1>5, <1>7, <1>8, OneMoreFits

\* After a clear there is nothing that an archive could have missed.
LEMMA ReadersClearDone ==
  ASSUME FileInv, ReaderInv, screen \in ScreenStates, ClearDone
  PROVE  ReaderInv'
<1>1. /\ chain # <<>> /\ Head(chain) = "clear" /\ chain' = Tail(chain)
      /\ readers' = Notified(Advanced, chain')
  BY DEF ClearDone
<1>2. Len(chain') = Len(chain) - 1 /\ Len(chain) \in Nat \ {0} /\ broken \in BOOLEAN
  BY <1>1, ChainHead DEF FileInv, ChainInv
<1>3. ~Appending' /\ ChainInv' /\ Readable' = {}
  BY FileClearDone DEF FileInv, Readable
<1>4. /\ Advanced \in Seq(ReaderStates) /\ DOMAIN Advanced = DOMAIN readers
      /\ \A i \in DOMAIN readers :
           /\ SameRead(Advanced[i], readers[i])
           /\ Advanced[i].wait = IF readers[i].wait = 0 THEN 0 ELSE readers[i].wait - 1
  BY AdvancedIs DEF ReaderInv
<1>5. ASSUME NEW i \in DOMAIN Advanced
      PROVE  Fits(Advanced[i], Len(chain'), Appending', Readable')
  <2>1. Fits(readers[i], Len(chain), Appending, Readable) /\ readers[i] \in ReaderStates
    BY <1>4 DEF ReaderInv
  <2>2. /\ readers[i].wait <= Len(chain) /\ readers[i].wait \in Nat
        /\ (readers[i].kind = "archive" => readers[i].filter = "every")
    BY <2>1, ReaderFields, Bounds DEF Fits
  <2>3. Advanced[i].kind = "archive" => Advanced[i].filter = "every"
    BY <1>4, <2>2 DEF SameRead
  <2>4. Advanced[i].wait <= Len(chain')
    BY <1>2, <1>4, <2>2
  <2> QED
    BY <1>3, <2>3, <2>4 DEF Fits
<1> QED
  BY <1>1, <1>2, <1>3, <1>4, <1>5, NotifiedFits

\* What a failed or a cut link leaves of what archives have read.
LEMMA ReadableAfterCut ==
  ASSUME FileInv, chain # <<>>, LinkCutOff
  PROVE  Appending \/ Readable' = {} \/ Readable' = Readable
<1>1. CASE Head(chain) = "append"
  BY <1>1, ChainHead DEF FileInv
<1>2. CASE Head(chain) = "clear" /\ Truncates
  BY <1>2 DEF Truncates, Readable
<1>3. CASE UNCHANGED <<disk, acked>>
  BY <1>3 DEF disk, Readable
<1> QED
  BY <1>1, <1>2, <1>3 DEF LinkCutOff

\* All readers awaited a link of the chain, or none of those that failed.
LEMMA ReadersLinkFails ==
  ASSUME FileInv, ReaderInv, LinkFails
  PROVE  ReaderInv'
<1> DEFINE rs == [i \in DOMAIN readers |->
                   [readers[i] EXCEPT !.doomed = @ \/ readers[i].wait > 0, !.wait = 0]]
<1>1. chain # <<>> /\ LinkCutOff /\ chain' = <<>> /\ readers' = rs
  BY DEF LinkFails
<1>2. Len(readers) \in Nat /\ DOMAIN readers = 1..Len(readers)
  BY DEF ReaderInv
<1>8. Len(chain') = 0
  BY <1>1
<1>3. ~Appending' /\ (Appending \/ Readable' = {} \/ Readable' = Readable)
  BY <1>1, FileLinkFails, ReadableAfterCut
<1>4. ASSUME NEW i \in 1..Len(readers)
      PROVE  rs[i] \in ReaderStates /\ SameRead(rs[i], readers[i]) /\ rs[i].wait = 0
  <2>1. readers[i] \in ReaderStates
    BY <1>2 DEF ReaderInv
  <2>2. (readers[i].doomed \/ readers[i].wait > 0) \in BOOLEAN
    BY <2>1, ReaderFields
  <2>3. rs[i] = [readers[i] EXCEPT !.doomed = readers[i].doomed \/ readers[i].wait > 0, !.wait = 0]
    BY <1>2, <2>1 DEF ReaderStates
  <2> HIDE DEF rs
  <2> QED
    BY <2>1, <2>2, <2>3, FailedSet
<1>5. rs \in [1..Len(readers) -> ReaderStates]
  BY <1>2, <1>4
<1>6. rs \in Seq(ReaderStates) /\ DOMAIN rs = 1..Len(readers)
  BY <1>2, <1>5, FunctionIsSeq
<1> HIDE DEF rs
<1>7. ASSUME NEW i \in DOMAIN rs
      PROVE  Fits(rs[i], Len(chain'), Appending', Readable')
  <2>1. /\ Fits(readers[i], Len(chain), Appending, Readable)
        /\ SameRead(rs[i], readers[i]) /\ rs[i].wait = 0
    BY <1>2, <1>4, <1>6 DEF ReaderInv
  <2>2. rs[i].kind = "archive" => rs[i].filter = "every"
    BY <2>1 DEF Fits, SameRead
  <2>3. rs[i].kind = "archive" /\ rs[i].stage = "second" => rs[i].got = Readable' \/ Readable' = {}
    BY <1>3, <2>1 DEF Fits, SameRead
  <2> QED
    BY <1>3, <1>8, <2>1, <2>2, <2>3 DEF Fits
<1> QED
  BY <1>1, <1>6, <1>7, AllFit

\* What a step that leaves the file and the chain alone leaves of a reader's place.
LEMMA FitsUnchanged ==
  ASSUME FileInv, session' = session, UNCHANGED log, NEW r
  PROVE  Fits(r, Len(chain'), Appending', Readable') <=> Fits(r, Len(chain), Appending, Readable)
<1>1. chain' = chain /\ (Appending' <=> Appending) /\ Readable' = Readable
  BY FileUnchanged DEF log
<1> QED
  BY <1>1 DEF Fits

\* A reader that reads does so after the append.
LEMMA ReadsLater ==
  ASSUME ReaderInv, NEW i \in DOMAIN readers, readers[i].wait = 0
  PROVE  ~Appending
<1>1. Fits(readers[i], Len(chain), Appending, Readable)
  BY DEF ReaderInv
<1> QED
  BY <1>1 DEF Fits

\* The readers that go on when one ends.
LEMMA RestFits ==
  ASSUME FileInv, ReaderInv, session' = session, UNCHANGED log, NEW i \in DOMAIN readers
  PROVE  /\ Without(i) \in Seq(ReaderStates)
         /\ \A j \in DOMAIN Without(i) : Fits(Without(i)[j], Len(chain'), Appending', Readable')
<1>1. /\ Without(i) \in Seq(ReaderStates) /\ Len(Without(i)) = Len(readers) - 1
      /\ \A j \in 1..Len(readers) - 1 :
           /\ Old(i, j) \in DOMAIN readers
           /\ SameRead(Without(i)[j], readers[Old(i, j)])
           /\ Without(i)[j].wait = readers[Old(i, j)].wait
  BY WithoutIs DEF ReaderInv
<1>2. DOMAIN Without(i) = 1..Len(readers) - 1
  BY <1>1
<1>3. ASSUME NEW j \in DOMAIN Without(i)
      PROVE  Fits(Without(i)[j], Len(chain'), Appending', Readable')
  <2>1. Fits(readers[Old(i, j)], Len(chain), Appending, Readable)
    BY <1>1, <1>2 DEF ReaderInv
  <2>2. Fits(Without(i)[j], Len(chain), Appending, Readable)
    BY <1>1, <1>2, <2>1 DEF Fits, SameRead
  <2> QED
    BY <2>2, FitsUnchanged
<1> QED
  BY <1>1, <1>3

\* The first of the two reads of a load or an export takes what the file holds.
LEMMA ReadersFirstRead ==
  ASSUME FileInv, ReaderInv, screen \in ScreenStates, NEW i \in DOMAIN readers, FirstRead(i)
  PROVE  ReaderInv'
<1>1. /\ session' = session /\ UNCHANGED log /\ chain' = chain /\ readers[i].wait = 0
  BY DEF FirstRead, CanRead, log
<1>2. FileInv' /\ broken \in BOOLEAN
  BY <1>1, FileUnchanged DEF FileInv, ChainInv
<1>3. ~Appending /\ ~Appending' /\ Readable' = Readable
  BY <1>1, ReadsLater, FileUnchanged
<1>4. CASE readers[i].kind = "log"
  <2>1. readers' = Notified(Without(i), chain')
    BY <1>1, <1>4 DEF FirstRead
  <2> QED
    BY <1>1, <1>2, <2>1, RestFits, NotifiedFits DEF FileInv
<1>5. CASE readers[i].kind # "log"
  <2> DEFINE q == [readers[i] EXCEPT !.stage = "second",
                                     !.got = Passes(readers[i].filter, Readable),
                                     !.wait = Len(chain), !.doomed = broken]
  <2>1. readers' = [readers EXCEPT ![i] = q] /\ readers \in Seq(ReaderStates)
    BY <1>5 DEF FirstRead, ReaderInv
  <2>2. readers[i] \in ReaderStates /\ Fits(readers[i], Len(chain), Appending, Readable)
    BY DEF ReaderInv
  <2>3. Len(chain) \in 0..MaxLinks /\ Passes(readers[i].filter, Readable) \in SUBSET Entries
    BY DEF FileInv, FileType, ChainInv, Passes, Readable
  <2>4. q \in ReaderStates
    BY <1>2, <2>2, <2>3 DEF ReaderStates
  <2>5. /\ q.kind = readers[i].kind /\ q.filter = readers[i].filter /\ q.wait = Len(chain)
        /\ q.got = Passes(readers[i].filter, Readable)
    BY <2>2 DEF ReaderStates
  <2> HIDE DEF q
  <2>6. Fits(q, Len(chain'), Appending', Readable')
    BY <1>1, <1>3, <2>2, <2>3, <2>5 DEF Fits, Passes
  <2>7. readers' \in Seq(ReaderStates) /\ DOMAIN readers' = DOMAIN readers
    BY <2>1, <2>4
  <2>8. ASSUME NEW j \in DOMAIN readers'
        PROVE  Fits(readers'[j], Len(chain'), Appending', Readable')
    <3>1. CASE j = i
      BY <2>1, <2>6, <3>1
    <3>2. CASE j # i
      <4>1. readers'[j] = readers[j] /\ Fits(readers[j], Len(chain), Appending, Readable)
        BY <2>1, <2>7, <3>2 DEF ReaderInv
      <4> QED
        BY <1>1, <4>1, FitsUnchanged
    <3> QED
      BY <3>1, <3>2
  <2> QED
    BY <2>7, <2>8, AllFit
<1> QED
  BY <1>4, <1>5

\* The other ends of a reader.
LEMMA ReadersEnd ==
  ASSUME FileInv, ReaderInv, session' = session, UNCHANGED log, NEW i \in DOMAIN readers,
         readers' = Without(i)
  PROVE  ReaderInv'
BY RestFits, AllFit

\* A load or an export that starts.
LEMMA ReadersStart ==
  ASSUME FileInv, ReaderInv, session' = session, UNCHANGED log,
         NEW kind \in {"load", "archive"}, NEW filter \in Filters,
         kind = "archive" => filter = "every", Starts(Reader(kind, filter, chain))
  PROVE  ReaderInv'
<1> DEFINE r == Reader(kind, filter, chain)
<1>1. readers' = Append(readers, r) /\ readers \in Seq(ReaderStates) /\ chain' = chain
  BY DEF Starts, ReaderInv, log
<1>2. /\ chain \in Seq({"append", "clear"}) /\ Len(chain) <= MaxLinks
      /\ (Appending => chain # <<>>) /\ Appending \in BOOLEAN /\ broken \in BOOLEAN
  BY DEF FileInv, ChainInv, Appending
<1>3. r \in ReaderStates
  BY <1>2, ReaderIs
<1>4. Fits(r, Len(chain), Appending, Readable)
  BY <1>2, ReaderFits
<1> HIDE DEF r
<1>5. Fits(r, Len(chain'), Appending', Readable')
  BY <1>4, FitsUnchanged
<1>6. \A i \in DOMAIN readers : Fits(readers[i], Len(chain'), Appending', Readable')
  BY FitsUnchanged DEF ReaderInv
<1> QED
  BY <1>1, <1>3, <1>5, <1>6, OneMoreFits

\* The readers of a screen that is left go on.
LEMMA ReadersLeave ==
  ASSUME FileInv, ReaderInv, Leave
  PROVE  ReaderInv'
<1> DEFINE rs == [i \in DOMAIN readers |-> [readers[i] EXCEPT !.shown = FALSE]]
<1>1. session' = session /\ UNCHANGED log /\ readers' = rs
  BY DEF Leave
<1>2. Len(readers) \in Nat /\ DOMAIN readers = 1..Len(readers)
  BY DEF ReaderInv
<1>3. ASSUME NEW i \in 1..Len(readers)
      PROVE  rs[i] \in ReaderStates /\ SameRead(rs[i], readers[i]) /\ rs[i].wait = readers[i].wait
  <2>1. readers[i] \in ReaderStates /\ rs[i] = [readers[i] EXCEPT !.shown = FALSE]
    BY <1>2 DEF ReaderInv
  <2> HIDE DEF rs
  <2> QED
    BY <2>1, HiddenSet
<1>4. rs \in [1..Len(readers) -> ReaderStates]
  BY <1>2, <1>3
<1>5. rs \in Seq(ReaderStates) /\ DOMAIN rs = 1..Len(readers)
  BY <1>2, <1>4, FunctionIsSeq
<1> HIDE DEF rs
<1>6. ASSUME NEW i \in DOMAIN rs
      PROVE  Fits(rs[i], Len(chain'), Appending', Readable')
  <2>1. Fits(readers[i], Len(chain), Appending, Readable)
    BY <1>2, <1>5 DEF ReaderInv
  <2>2. Fits(rs[i], Len(chain), Appending, Readable)
    BY <1>3, <1>5, <2>1 DEF Fits, SameRead
  <2> QED
    BY <1>1, <2>2, FitsUnchanged
<1> QED
  BY <1>1, <1>5, <1>6, AllFit

\* The readers do not await a clear chained after their call.
LEMMA ReadersConfirmClear ==
  ASSUME FileInv, ReaderInv, ConfirmClear
  PROVE  ReaderInv'
<1>1. /\ readers' = readers /\ lines' = lines
      /\ chain' = IF broken THEN <<>> ELSE Append(chain, "clear")
  BY DEF ConfirmClear, disk
<1>2. (Appending' <=> Appending) /\ Readable' = Readable
  BY <1>1, FileConfirmClear DEF Readable
<1>3. /\ chain \in Seq({"append", "clear"}) /\ (broken => chain = <<>>)
      /\ Len(chain) \in Nat /\ Len(chain') \in Nat /\ Len(chain) <= Len(chain')
  <2>1. chain \in Seq({"append", "clear"}) /\ (broken => chain = <<>>) /\ broken \in BOOLEAN
    BY DEF FileInv, ChainInv
  <2>2. CASE broken
    <3>1. chain' = chain
      BY <1>1, <2>1, <2>2
    <3> QED
      BY <2>1, <3>1
  <2>3. CASE ~broken
    <3>1. chain' = Append(chain, "clear")
      BY <1>1, <2>3
    <3> QED
      BY <2>1, <3>1
  <2> QED
    BY <2>1, <2>2, <2>3
<1>4. ASSUME NEW i \in DOMAIN readers
      PROVE  Fits(readers[i], Len(chain'), Appending', Readable')
  <2>1. /\ Fits(readers[i], Len(chain), Appending, Readable) /\ readers[i].wait \in Nat
    BY ReaderFields, Bounds DEF ReaderInv
  <2>2. readers[i].wait <= Len(chain')
    BY <1>3, <2>1 DEF Fits
  <2> QED
    BY <1>2, <2>1, <2>2 DEF Fits
<1> QED
  BY <1>1, <1>4 DEF ReaderInv

-----------------------------------------------------------------------------
(* The screen *)

\* What the file holds can be counted.
LEMMA ReadableCount ==
  ASSUME FileType
  PROVE  Cardinality(Readable) \in 0..MaxSessions /\ Readable \in SUBSET Entries
<1>1. Readable \in SUBSET (1..MaxSessions)
  BY Bounds DEF FileType, Readable
<1>2. /\ IsFiniteSet(1..MaxSessions) /\ Cardinality(1..MaxSessions) = MaxSessions
      /\ MaxSessions \in Nat
  BY Bounds, FS_Interval
<1>3. IsFiniteSet(Readable) /\ Cardinality(Readable) <= MaxSessions
  BY <1>1, <1>2, FS_Subset
<1>4. Cardinality(Readable) \in Nat
  BY <1>3, FS_CardinalityType
<1> QED
  BY <1>1, <1>2, <1>3, <1>4, Bounds

\* What the logs screen displays.
SameView ==
  /\ screen'.mounted = screen.mounted /\ screen'.filter = screen.filter
  /\ screen'.entries = screen.entries /\ screen'.total = screen.total
  /\ screen'.overtaken = screen.overtaken

\* A load that has just started is the last one, and the screen waits for it.
LEMMA FreshLoad ==
  ASSUME NEW rs \in Seq(ReaderStates), NEW r \in ReaderStates, readers' = Append(rs, r),
         IsLoad(r), r.stage = "first", r.filter = screen'.filter
  PROVE  LoadInv' /\ CurrentInv'
<1>1. /\ Len(rs) \in Nat /\ DOMAIN readers' = 1..Len(rs) + 1 /\ readers'[Len(rs) + 1] = r
  BY AppendProperties
<1>2. Len(rs) + 1 \in DOMAIN readers'
  BY <1>1
<1>3. ~NoLoad'
  BY <1>1, <1>2 DEF NoLoad, IsLoad
<1>4. ASSUME NEW i \in DOMAIN readers', LastLoad(i)'
      PROVE  readers'[i].filter = screen'.filter /\ readers'[i].stage = "first"
  <2>1. Len(rs) + 1 <= i
    BY <1>1, <1>2, <1>4 DEF LastLoad
  <2>2. i = Len(rs) + 1
    BY <1>1, <2>1
  <2> QED
    BY <1>1, <2>2
<1>5. LoadInv'
  BY <1>4 DEF LoadInv
<1>6. CurrentInv'
  BY <1>3 DEF CurrentInv, ShownIsCurrent
<1> QED
  BY <1>5, <1>6

\* A screen that has been left, or a failed chain, promises nothing.
LEMMA NoScreen ==
  ASSUME ~screen'.mounted \/ broken'
  PROVE  LoadInv' /\ CurrentInv'
BY DEF LoadInv, CurrentInv, ShownIsCurrent

\* The load started last is the same one as before.
LEMMA LoadsKept ==
  ASSUME LoadInv, screen'.mounted = screen.mounted, screen'.filter = screen.filter,
         broken' = broken, Readable' = Readable,
         \A j \in DOMAIN readers' : LastLoad(j)' /\ ~readers'[j].late =>
           \E k \in DOMAIN readers :
             LastLoad(k) /\ ~readers[k].late /\ SameRead(readers'[j], readers[k])
  PROVE  LoadInv'
<1> SUFFICES ASSUME screen'.mounted, ~broken', NEW j \in DOMAIN readers', LastLoad(j)',
                    ~readers'[j].late
             PROVE  /\ readers'[j].filter = screen'.filter
                    /\ readers'[j].stage = "second" =>
                         readers'[j].got = Passes(screen'.filter, Readable')
  BY DEF LoadInv
<1>1. PICK k \in DOMAIN readers :
        LastLoad(k) /\ ~readers[k].late /\ SameRead(readers'[j], readers[k])
  OBVIOUS
<1>2. /\ readers[k].filter = screen.filter
      /\ readers[k].stage = "second" => readers[k].got = Passes(screen.filter, Readable)
  BY <1>1 DEF LoadInv
<1> QED
  BY <1>1, <1>2 DEF SameRead, Passes

\* The screen shows what it showed.
LEMMA CurrentKept ==
  ASSUME CurrentInv, SameView, screen'.error = screen.error \/ screen'.error = TRUE,
         broken' = broken, Readable' = Readable, Appending' <=> Appending, NoLoad' => NoLoad
  PROVE  CurrentInv'
<1> SUFFICES ASSUME screen'.mounted, NoLoad', ~screen'.overtaken, ~screen'.error, ~broken'
             PROVE  /\ screen'.entries = Passes(screen'.filter, Readable')
                    /\ screen'.total = Cardinality(Readable') /\ ~Appending'
  BY DEF CurrentInv, ShownIsCurrent
<1>1. screen.mounted /\ NoLoad /\ ~screen.overtaken /\ ~screen.error /\ ~broken
  BY DEF SameView
<1>2. /\ screen.entries = Passes(screen.filter, Readable)
      /\ screen.total = Cardinality(Readable) /\ ~Appending
  BY <1>1 DEF CurrentInv, ShownIsCurrent
<1> QED
  BY <1>2 DEF SameView, Passes

\* The readers are the same.
LEMMA ViewKept ==
  ASSUME LoadInv, CurrentInv, SameView, screen'.error = screen.error, readers' = readers,
         broken' = broken, Readable' = Readable, Appending' <=> Appending
  PROVE  LoadInv' /\ CurrentInv'
<1>1. NoLoad' => NoLoad
  BY DEF NoLoad
<1>2. \A j \in DOMAIN readers' : LastLoad(j)' /\ ~readers'[j].late =>
        \E k \in DOMAIN readers :
          LastLoad(k) /\ ~readers[k].late /\ SameRead(readers'[j], readers[k])
  BY DEF LastLoad, SameRead
<1> QED
  BY <1>1, <1>2, LoadsKept, CurrentKept DEF SameView

\* An export or a query for an event is no load.
LEMMA OtherAppended ==
  ASSUME NEW rs \in Seq(ReaderStates), NEW r \in ReaderStates, readers' = Append(rs, r),
         readers \in Seq(ReaderStates), DOMAIN rs = DOMAIN readers, Len(rs) = Len(readers),
         \A i \in DOMAIN readers : /\ SameRead(rs[i], readers[i]) /\ rs[i].shown = readers[i].shown
                                   /\ rs[i].late = readers[i].late,
         r.kind # "load"
  PROVE  /\ NoLoad' => NoLoad
         /\ \A j \in DOMAIN readers' : LastLoad(j)' =>
              /\ j \in DOMAIN readers /\ LastLoad(j) /\ SameRead(readers'[j], readers[j])
              /\ readers'[j].late = readers[j].late
<1>1. /\ Len(rs) \in Nat /\ DOMAIN readers = 1..Len(rs) /\ DOMAIN readers' = 1..Len(rs) + 1
      /\ readers'[Len(rs) + 1] = r
  BY AppendProperties
<1>2. \A i \in 1..Len(rs) : readers'[i] = rs[i]
  BY AppendProperties
<1>3. \A i \in DOMAIN readers :
        /\ i \in DOMAIN readers' /\ (IsLoad(readers'[i]) <=> IsLoad(readers[i]))
        /\ SameRead(readers'[i], readers[i]) /\ readers'[i].late = readers[i].late
  BY <1>1, <1>2 DEF IsLoad, SameRead
<1>4. NoLoad' => NoLoad
  BY <1>3 DEF NoLoad, IsLoad
<1>5. ASSUME NEW j \in DOMAIN readers', LastLoad(j)'
      PROVE  j \in DOMAIN readers /\ LastLoad(j)
  <2>1. IsLoad(readers'[j]) /\ \A k \in DOMAIN readers' : IsLoad(readers'[k]) => k <= j
    BY <1>5 DEF LastLoad
  <2>2. j # Len(rs) + 1
    BY <1>1, <2>1 DEF IsLoad
  <2>3. j \in DOMAIN readers
    BY <1>1, <2>2
  <2> QED
    BY <1>3, <2>1, <2>3 DEF LastLoad
<1> QED
  BY <1>3, <1>4, <1>5

\* When a reader ends, the load started last either stays the last one or was it;
\* in this case those before it are late.
LEMMA LoadsLeft ==
  ASSUME ReaderInv, NEW i \in DOMAIN readers, readers' = Without(i)
  PROVE  /\ NoLoad' => \A k \in DOMAIN readers : IsLoad(readers[k]) => k = i
         /\ \A j \in DOMAIN readers' : LastLoad(j)' /\ ~readers'[j].late =>
              \E k \in DOMAIN readers :
                LastLoad(k) /\ ~readers[k].late /\ SameRead(readers'[j], readers[k])
<1>1. /\ readers' \in Seq(ReaderStates) /\ Len(readers') = Len(readers) - 1
      /\ Len(readers) \in Nat \ {0} /\ readers \in Seq(ReaderStates)
      /\ \A j \in 1..Len(readers) - 1 :
           /\ Old(i, j) \in DOMAIN readers
           /\ SameRead(readers'[j], readers[Old(i, j)])
           /\ readers'[j].shown = readers[Old(i, j)].shown
           /\ readers'[j].late =
                (\/ readers[Old(i, j)].late
                 \/ readers[i].kind = "load" /\ j < i /\ readers[Old(i, j)].kind = "load")
  BY WithoutIs DEF ReaderInv
<1>2. /\ DOMAIN readers' = 1..Len(readers) - 1 /\ DOMAIN readers = 1..Len(readers)
      /\ i \in 1..Len(readers)
  BY <1>1
<1>3. \A j \in DOMAIN readers' : IsLoad(readers'[j]) <=> IsLoad(readers[Old(i, j)])
  BY <1>1, <1>2 DEF IsLoad, SameRead
<1>4. ASSUME NEW k \in DOMAIN readers, k # i
      PROVE  \E j \in DOMAIN readers' : Old(i, j) = k
  <2>1. CASE k < i
    BY <1>1, <1>2, <2>1 DEF Old
  <2>2. CASE ~(k < i)
    <3>1. k - 1 \in DOMAIN readers' /\ Old(i, k - 1) = k
      BY <1>1, <1>2, <1>4, <2>2 DEF Old
    <3> QED
      BY <3>1
  <2> QED
    BY <2>1, <2>2
<1>5. NoLoad' => \A k \in DOMAIN readers : IsLoad(readers[k]) => k = i
  <2> SUFFICES ASSUME NoLoad', NEW k \in DOMAIN readers, IsLoad(readers[k]), k # i
               PROVE  FALSE
    OBVIOUS
  <2>1. PICK j \in DOMAIN readers' : Old(i, j) = k
    BY <1>4
  <2>2. IsLoad(readers'[j])
    BY <1>3, <2>1
  <2> QED
    BY <2>2 DEF NoLoad, IsLoad
<1>6. ASSUME NEW j \in DOMAIN readers', LastLoad(j)', ~readers'[j].late
      PROVE  LastLoad(Old(i, j)) /\ ~readers[Old(i, j)].late
  <2>1. /\ IsLoad(readers'[j]) /\ Old(i, j) \in DOMAIN readers /\ IsLoad(readers[Old(i, j)])
    BY <1>1, <1>2, <1>3, <1>6 DEF LastLoad
  <2>2. ~readers[Old(i, j)].late /\ ~(readers[i].kind = "load" /\ j < i)
    BY <1>1, <1>2, <1>6, <2>1 DEF IsLoad
  <2>3. ASSUME NEW k \in DOMAIN readers, IsLoad(readers[k])
        PROVE  k <= Old(i, j)
    <3>1. CASE k = i
      BY <1>2, <2>2, <2>3, <3>1 DEF Old, IsLoad
    <3>2. CASE k # i
      <4>1. PICK m \in DOMAIN readers' : Old(i, m) = k
        BY <1>4, <3>2
      <4>2. IsLoad(readers'[m])
        BY <1>3, <2>3, <4>1
      <4>3. m <= j
        BY <1>6, <4>2 DEF LastLoad
      <4> QED
        BY <1>2, <4>1, <4>3 DEF Old
    <3> QED
      BY <3>1, <3>2
  <2> QED
    BY <2>1, <2>2, <2>3 DEF LastLoad
<1>7. \A j \in DOMAIN readers' :
        Old(i, j) \in DOMAIN readers /\ SameRead(readers'[j], readers[Old(i, j)])
  BY <1>1, <1>2
<1> QED
  BY <1>5, <1>6, <1>7

-----------------------------------------------------------------------------
(* The steps *)

\* Where there is a link, a call or a screen the application runs, and goes on.
LEMMA Running ==
  ASSUME DownInv, up' = up,
         chain # <<>> \/ readers # <<>> \/ screen.mounted \/ screen.dialog # "closed"
  PROVE  DownInv'
BY DEF DownInv, Left

\* Nothing else changes an archive that was saved.
LEMMA ArchiveKept ==
  ASSUME ArchiveInv, archive' = archive
  PROVE  ArchiveInv'
BY DEF ArchiveInv, ReportCountsTheLogs

\* The screen that is not on display is one of the screen's states.
LEMMA LeftIsScreen == Left \in ScreenStates
<1>1. 0 \in 0..MaxSessions
  BY Bounds
<1> QED
  BY <1>1 DEF Left, ScreenStates, Filters

\* What is displayed besides the readers.
ViewInv == DownInv /\ ScreenInv /\ ArchiveInv

\* The application starts without a screen and without calls.
LEMMA ViewLaunch ==
  ASSUME FileInv, ViewInv, Launch
  PROVE  ViewInv' /\ readers' = <<>>
<1>1. /\ ~up /\ up' = TRUE /\ UNCHANGED <<readers, screen, archive>> /\ readers = <<>>
      /\ screen = Left
  BY DEF Launch, ViewInv, DownInv
<1>2. DownInv'
  BY <1>1 DEF DownInv
<1>3. screen' = Left /\ ~screen'.mounted
  BY <1>1 DEF Left
<1>4. ScreenInv'
  BY <1>3, LeftIsScreen, NoScreen DEF ScreenInv
<1> QED
  BY <1>1, <1>2, <1>4, ArchiveKept DEF ViewInv

\* It takes the screen and the calls with it when it ends.
LEMMA ViewEnds ==
  ASSUME FileInv, ViewInv, Ends
  PROVE  ViewInv' /\ readers' = <<>>
<1>1. /\ up' = FALSE /\ chain' = <<>> /\ readers' = <<>> /\ screen' = Left /\ archive' = archive
  BY DEF Ends
<1>2. DownInv'
  BY <1>1 DEF DownInv
<1>3. ~screen'.mounted
  BY <1>1 DEF Left
<1>4. ScreenInv'
  BY <1>1, <1>3, LeftIsScreen, NoScreen DEF ScreenInv
<1> QED
  BY <1>1, <1>2, <1>4, ArchiveKept DEF ViewInv

\* No load has read the file before the append, and no screen is up to date.
LEMMA ViewAppendDone ==
  ASSUME FileInv, ReaderInv, ViewInv, AppendDone
  PROVE  ViewInv'
<1> DEFINE r == Reader("log", "every", chain')
<1>1. /\ chain # <<>> /\ Head(chain) = "append" /\ UNCHANGED <<up, broken, screen, archive>>
      /\ readers' = Append(Advanced, r)
  BY DEF AppendDone
<1>2. Appending /\ broken \in BOOLEAN
  BY <1>1, ChainHead DEF FileInv, ChainInv
<1>3. chain' \in Seq({"append", "clear"}) /\ Len(chain') <= MaxLinks
  BY FileAppendDone DEF FileInv, ChainInv
<1>4. r \in ReaderStates /\ r.kind = "log"
  <2>1. "log" \in {"log", "load", "archive"} /\ "every" \in Filters
    BY DEF Filters
  <2> QED
    BY <1>2, <1>3, <2>1, ReaderIs
<1> HIDE DEF r
<1>5. /\ Advanced \in Seq(ReaderStates) /\ DOMAIN Advanced = DOMAIN readers
      /\ Len(Advanced) = Len(readers) /\ readers \in Seq(ReaderStates)
      /\ \A i \in DOMAIN readers :
           /\ SameRead(Advanced[i], readers[i]) /\ Advanced[i].shown = readers[i].shown
           /\ Advanced[i].late = readers[i].late
  BY AdvancedIs DEF ReaderInv
<1>6. r.kind # "load"
  BY <1>4
<1>7. /\ NoLoad' => NoLoad
      /\ \A j \in DOMAIN readers' : LastLoad(j)' =>
           /\ j \in DOMAIN readers /\ LastLoad(j) /\ SameRead(readers'[j], readers[j])
           /\ readers'[j].late = readers[j].late
  BY <1>1, <1>4, <1>5, <1>6, OtherAppended
<1>8. LoadInv'
  <2> SUFFICES ASSUME screen'.mounted, ~broken', NEW j \in DOMAIN readers', LastLoad(j)',
                      ~readers'[j].late
               PROVE  readers'[j].filter = screen'.filter /\ readers'[j].stage = "first"
    BY DEF LoadInv
  <2>1. /\ j \in DOMAIN readers /\ LastLoad(j) /\ SameRead(readers'[j], readers[j])
        /\ ~readers[j].late
    BY <1>7
  <2>2. readers[j].filter = screen.filter
    BY <1>1, <2>1 DEF LoadInv, ViewInv, ScreenInv
  <2>3. readers[j].stage = "first"
    BY <1>2, <2>1 DEF ReaderInv, Fits
  <2> QED
    BY <1>1, <2>1, <2>2, <2>3 DEF SameRead
<1>9. CurrentInv'
  <2>1. ~(screen.mounted /\ NoLoad /\ ~screen.overtaken /\ ~screen.error /\ ~broken)
    BY <1>2 DEF ViewInv, ScreenInv, CurrentInv
  <2>2. ~(screen'.mounted /\ NoLoad' /\ ~screen'.overtaken /\ ~screen'.error /\ ~broken')
    BY <1>1, <1>7, <2>1
  <2> QED
    BY <2>2 DEF CurrentInv, ShownIsCurrent
<1> QED
  BY <1>1, <1>8, <1>9, Running, ArchiveKept DEF ViewInv, ScreenInv

\* A load that the screen on display starts for a change event.
LEMMA NotifiedView ==
  ASSUME NEW rs \in Seq(ReaderStates), readers' = Notified(rs, chain'), screen' = screen,
         screen \in ScreenStates, ChainInv', broken \in BOOLEAN
  PROVE  LoadInv' /\ CurrentInv'
<1> DEFINE r == Reader("load", screen.filter, chain')
<1>1. "load" \in {"log", "load", "archive"} /\ screen.filter \in Filters
  BY DEF ScreenStates
<1>2. chain' \in Seq({"append", "clear"}) /\ Len(chain') <= MaxLinks
  BY DEF ChainInv
<1>3. /\ r \in ReaderStates /\ r.kind = "load" /\ r.shown /\ r.stage = "first"
      /\ r.filter = screen'.filter
  BY <1>1, <1>2, ReaderIs
<1>4. screen.mounted => readers' = Append(rs, r)
  BY DEF Notified
<1> HIDE DEF r
<1>5. IsLoad(r)
  BY <1>3 DEF IsLoad
<1>6. CASE screen.mounted
  BY <1>3, <1>4, <1>5, <1>6, FreshLoad
<1>7. CASE ~screen.mounted
  BY <1>7, NoScreen
<1> QED
  BY <1>6, <1>7

\* A clear that is done makes the screen load.
LEMMA ViewClearDone ==
  ASSUME FileInv, ReaderInv, ViewInv, ClearDone
  PROVE  ViewInv'
<1>1. /\ chain # <<>> /\ UNCHANGED <<up, broken, screen, archive>>
      /\ readers' = Notified(Advanced, chain')
  BY DEF ClearDone
<1>2. broken \in BOOLEAN /\ ChainInv' /\ Advanced \in Seq(ReaderStates)
  BY FileClearDone, AdvancedIs DEF FileInv, ChainInv, ReaderInv
<1>3. LoadInv' /\ CurrentInv'
  BY <1>1, <1>2, NotifiedView DEF ViewInv, ScreenInv
<1> QED
  BY <1>1, <1>3, Running, ArchiveKept DEF ViewInv, ScreenInv

\* A link that fails is the end of what the screen promises.
LEMMA ViewLinkFails ==
  ASSUME ViewInv, LinkFails
  PROVE  ViewInv'
<1>1. chain # <<>> /\ UNCHANGED <<up, screen, archive>> /\ broken'
  BY DEF LinkFails
<1> QED
  BY <1>1, NoScreen, Running, ArchiveKept DEF ViewInv, ScreenInv

\* The first read of the last load takes what the screen's filter selects.
LEMMA ViewFirstRead ==
  ASSUME FileInv, ReaderInv, ViewInv, NEW i \in DOMAIN readers, FirstRead(i)
  PROVE  ViewInv'
<1>1. /\ session' = session /\ UNCHANGED log /\ UNCHANGED <<up, screen, archive>>
      /\ broken' = broken /\ chain' = chain
  BY DEF FirstRead, log
<1>2. ChainInv' /\ broken \in BOOLEAN /\ Readable' = Readable /\ (Appending' <=> Appending)
  BY <1>1, FileUnchanged DEF FileInv, ChainInv
<1>3. readers \in Seq(ReaderStates) /\ readers # <<>>
  BY DEF ReaderInv
<1>4. LoadInv' /\ CurrentInv'
  <2>1. CASE readers[i].kind = "log"
    <3>1. readers' = Notified(Without(i), chain')
      BY <1>1, <2>1 DEF FirstRead
    <3>2. Without(i) \in Seq(ReaderStates)
      BY <1>3, WithoutIs
    <3> QED
      BY <1>1, <1>2, <3>1, <3>2, NotifiedView DEF ViewInv, ScreenInv
  <2>2. CASE readers[i].kind # "log"
    <3> DEFINE q == [readers[i] EXCEPT !.stage = "second",
                                       !.got = Passes(readers[i].filter, Readable),
                                       !.wait = Len(chain), !.doomed = broken]
    <3>1. readers' = [readers EXCEPT ![i] = q]
      BY <2>2 DEF FirstRead
    <3>2. /\ q.kind = readers[i].kind /\ q.filter = readers[i].filter
          /\ q.got = Passes(readers[i].filter, Readable)
          /\ q.late = readers[i].late /\ q.shown = readers[i].shown
      <4>1. readers[i] \in ReaderStates
        BY <1>3
      <4> QED
        BY <4>1 DEF ReaderStates
    <3> HIDE DEF q
    <3>3. /\ DOMAIN readers' = DOMAIN readers /\ readers'[i] = q
          /\ \A j \in DOMAIN readers : j # i => readers'[j] = readers[j]
      BY <1>3, <3>1
    <3>4. ASSUME NEW j \in DOMAIN readers
          PROVE  /\ readers'[j].kind = readers[j].kind /\ readers'[j].filter = readers[j].filter
                 /\ readers'[j].shown = readers[j].shown /\ readers'[j].late = readers[j].late
      BY <3>2, <3>3
    <3>5. \A j \in DOMAIN readers : LastLoad(j)' => LastLoad(j)
      BY <3>3, <3>4 DEF LastLoad, IsLoad
    <3>6. NoLoad' => NoLoad
      BY <3>3, <3>4 DEF NoLoad
    <3>7. LoadInv'
      <4> SUFFICES ASSUME screen'.mounted, ~broken', NEW j \in DOMAIN readers', LastLoad(j)',
                          ~readers'[j].late
                   PROVE  /\ readers'[j].filter = screen'.filter
                          /\ readers'[j].stage = "second" =>
                               readers'[j].got = Passes(screen'.filter, Readable')
        BY DEF LoadInv
      <4>1. j \in DOMAIN readers /\ LastLoad(j) /\ ~readers[j].late
        BY <3>3, <3>4, <3>5
      <4>2. /\ readers[j].filter = screen.filter
            /\ readers[j].stage = "second" => readers[j].got = Passes(screen.filter, Readable)
        BY <1>1, <4>1 DEF LoadInv, ViewInv, ScreenInv
      <4>3. CASE j = i
        BY <1>1, <1>2, <3>2, <3>3, <4>2, <4>3 DEF Passes
      <4>4. CASE j # i
        BY <1>1, <1>2, <3>3, <4>1, <4>2, <4>4 DEF Passes
      <4> QED
        BY <4>3, <4>4
    <3>8. CurrentInv'
      BY <1>1, <1>2, <3>6, CurrentKept DEF ViewInv, ScreenInv, SameView
    <3> QED
      BY <3>7, <3>8
  <2> QED
    BY <2>1, <2>2
<1> QED
  BY <1>1, <1>3, <1>4, Running, ArchiveKept DEF ViewInv, ScreenInv

\* The load started last leaves the screen up to date when it ends.
LEMMA ViewLoadEnds ==
  ASSUME FileInv, ReaderInv, ViewInv, NEW i \in DOMAIN readers, LoadEnds(i)
  PROVE  ViewInv'
<1>1. /\ session' = session /\ UNCHANGED log /\ UNCHANGED <<up, archive>>
      /\ broken' = broken /\ readers' = Without(i) /\ readers[i].wait = 0
      /\ readers[i].kind = "load" /\ readers[i].stage = "second"
  BY DEF LoadEnds, CanRead, log
<1>2. Readable' = Readable /\ ~Appending /\ ~Appending'
  BY <1>1, ReadsLater, FileUnchanged
<1>3. readers # <<>> /\ readers[i] \in ReaderStates
  BY DEF ReaderInv
<1>4. /\ NoLoad' => \A k \in DOMAIN readers : IsLoad(readers[k]) => k = i
      /\ \A j \in DOMAIN readers' : LastLoad(j)' /\ ~readers'[j].late =>
           \E k \in DOMAIN readers :
             LastLoad(k) /\ ~readers[k].late /\ SameRead(readers'[j], readers[k])
  BY <1>1, LoadsLeft
<1>5. CASE readers[i].shown
  <2>1. screen' = [screen EXCEPT !.entries = readers[i].got, !.total = Cardinality(Readable),
                                 !.loading = FALSE, !.error = FALSE,
                                 !.overtaken = readers[i].late]
    BY <1>5 DEF LoadEnds
  <2>2. Cardinality(Readable) \in 0..MaxSessions /\ screen \in ScreenStates
    BY ReadableCount DEF FileInv, ViewInv, ScreenInv
  <2>3. readers[i].got \in SUBSET Entries /\ readers[i].late \in BOOLEAN
    BY <1>3, ReaderFields
  <2>4. screen' \in ScreenStates
    BY <2>1, <2>2, <2>3 DEF ScreenStates
  <2>5. /\ screen'.mounted = screen.mounted /\ screen'.filter = screen.filter
        /\ screen'.entries = readers[i].got /\ screen'.total = Cardinality(Readable)
        /\ screen'.overtaken = readers[i].late
    BY <2>1, <2>2 DEF ScreenStates
  <2>6. LoadInv'
    BY <1>1, <1>2, <1>4, <2>5, LoadsKept DEF ViewInv, ScreenInv
  <2>7. CurrentInv'
    <3> SUFFICES ASSUME screen'.mounted, NoLoad', ~screen'.overtaken, ~broken'
                 PROVE  /\ screen'.entries = Passes(screen'.filter, Readable')
                        /\ screen'.total = Cardinality(Readable') /\ ~Appending'
      BY DEF CurrentInv, ShownIsCurrent
    <3>1. LastLoad(i)
      BY <1>1, <1>4, <1>5 DEF LastLoad, IsLoad, ReaderInv
    <3>2. screen.mounted /\ ~broken /\ ~readers[i].late
      BY <1>1, <2>5
    <3>3. readers[i].got = Passes(screen.filter, Readable)
      BY <1>1, <3>1, <3>2 DEF LoadInv, ViewInv, ScreenInv
    <3> QED
      BY <1>2, <2>5, <3>3 DEF Passes
  <2> QED
    BY <1>1, <1>3, <2>4, <2>6, <2>7, Running, ArchiveKept DEF ViewInv, ScreenInv
<1>6. CASE ~readers[i].shown
  <2>1. screen' = screen
    BY <1>6 DEF LoadEnds
  <2>2. NoLoad' => NoLoad
    BY <1>4, <1>6 DEF NoLoad, IsLoad
  <2>3. LoadInv'
    BY <1>1, <1>2, <1>4, <2>1, LoadsKept DEF ViewInv, ScreenInv
  <2>4. CurrentInv'
    BY <1>1, <1>2, <2>1, <2>2, CurrentKept DEF ViewInv, ScreenInv, SameView
  <2> QED
    BY <1>1, <1>3, <2>1, <2>3, <2>4, Running, ArchiveKept DEF ViewInv, ScreenInv
<1> QED
  BY <1>5, <1>6

\* When a reader ends that no screen shows as its load.
LEMMA OtherEnds ==
  ASSUME FileInv, ReaderInv, ViewInv, NEW i \in DOMAIN readers, readers' = Without(i),
         session' = session, UNCHANGED log, SameView, screen'.error \in {screen.error, TRUE},
         ~IsLoad(readers[i])
  PROVE  LoadInv' /\ CurrentInv'
<1>1. /\ NoLoad' => \A k \in DOMAIN readers : IsLoad(readers[k]) => k = i
      /\ \A j \in DOMAIN readers' : LastLoad(j)' /\ ~readers'[j].late =>
           \E k \in DOMAIN readers :
             LastLoad(k) /\ ~readers[k].late /\ SameRead(readers'[j], readers[k])
  BY LoadsLeft
<1>2. Readable' = Readable /\ (Appending' <=> Appending) /\ broken' = broken
  BY FileUnchanged DEF log
<1>3. NoLoad' => NoLoad
  BY <1>1 DEF NoLoad, IsLoad
<1>4. LoadInv'
  BY <1>1, <1>2, LoadsKept DEF ViewInv, ScreenInv, SameView
<1>5. CurrentInv'
  BY <1>2, <1>3, CurrentKept DEF ViewInv, ScreenInv
<1> QED
  BY <1>4, <1>5

\* An archive counts what the file holds at its second read.
LEMMA ViewArchiveEnds ==
  ASSUME FileInv, ReaderInv, ViewInv, NEW i \in DOMAIN readers, ArchiveEnds(i)
  PROVE  ViewInv'
<1>1. /\ session' = session /\ UNCHANGED log /\ up' = up /\ readers' = Without(i)
      /\ readers[i].kind = "archive" /\ readers[i].stage = "second"
      /\ archive' = [logs |-> readers[i].got, total |-> Cardinality(Readable)]
      /\ screen' = IF readers[i].shown THEN [screen EXCEPT !.exporting = FALSE] ELSE screen
  BY DEF ArchiveEnds
<1>2. readers # <<>> /\ readers[i] \in ReaderStates /\ screen \in ScreenStates
  BY DEF ReaderInv, ViewInv, ScreenInv
<1>3. screen' \in ScreenStates /\ SameView /\ screen'.error = screen.error
  <2>1. CASE readers[i].shown
    BY <1>1, <1>2, <2>1 DEF ScreenStates, SameView
  <2>2. CASE ~readers[i].shown
    BY <1>1, <1>2, <2>2 DEF SameView
  <2> QED
    BY <2>1, <2>2
<1>4. LoadInv' /\ CurrentInv'
  BY <1>1, <1>3, OtherEnds DEF IsLoad
<1>5. ArchiveInv'
  <2>1. readers[i].got \in SUBSET Entries /\ Cardinality(Readable) \in 0..MaxSessions
    BY <1>2, ReaderFields, ReadableCount DEF FileInv
  <2>2. readers[i].got = Readable \/ Readable = {}
    BY <1>1 DEF ReaderInv, Fits
  <2>3. Cardinality(Readable) \in {Cardinality(readers[i].got), 0}
    BY <2>2, FS_EmptySet
  <2>4. archive'.logs = readers[i].got /\ archive'.total = Cardinality(Readable)
    BY <1>1
  <2>5. ReportCountsTheLogs'
    BY <2>3, <2>4 DEF ReportCountsTheLogs
  <2> QED
    BY <1>1, <2>1, <2>5 DEF ArchiveInv
<1> QED
  BY <1>1, <1>2, <1>3, <1>4, <1>5, Running DEF ViewInv, ScreenInv

\* A failed load leaves an error and a failed export too.
LEMMA ViewReadFails ==
  ASSUME FileInv, ReaderInv, ViewInv, NEW i \in DOMAIN readers, ReadFails(i)
  PROVE  ViewInv'
<1>1. /\ session' = session /\ UNCHANGED log /\ up' = up /\ archive' = archive
      /\ readers' = Without(i)
  BY DEF ReadFails
<1>2. readers # <<>> /\ readers[i] \in ReaderStates /\ screen \in ScreenStates
  BY DEF ReaderInv, ViewInv, ScreenInv
<1>3. screen' \in ScreenStates /\ LoadInv' /\ CurrentInv'
  <2>1. CASE readers[i].kind = "load" /\ readers[i].shown
    <3>1. screen' = [screen EXCEPT !.loading = FALSE, !.error = TRUE,
                                   !.overtaken = readers[i].late]
      BY <2>1 DEF ReadFails
    <3>2. readers[i].late \in BOOLEAN
      BY <1>2, ReaderFields
    <3>3. screen' \in ScreenStates
      BY <1>2, <3>1, <3>2 DEF ScreenStates
    <3>4. screen'.error /\ screen'.mounted = screen.mounted /\ screen'.filter = screen.filter
      BY <1>2, <3>1 DEF ScreenStates
    <3>5. CurrentInv'
      BY <3>4 DEF CurrentInv, ShownIsCurrent
    <3>6. Readable' = Readable /\ broken' = broken
      BY <1>1, FileUnchanged DEF log
    <3>7. LoadInv'
      BY <1>1, <3>4, <3>6, LoadsLeft, LoadsKept DEF ViewInv, ScreenInv
    <3> QED
      BY <3>3, <3>5, <3>7
  <2>2. CASE readers[i].kind = "archive" /\ readers[i].shown
    <3>1. screen' = [screen EXCEPT !.exporting = FALSE, !.error = TRUE]
      BY <2>2 DEF ReadFails
    <3>2. screen' \in ScreenStates /\ SameView /\ screen'.error = TRUE
      BY <1>2, <3>1 DEF ScreenStates, SameView
    <3>3. ~IsLoad(readers[i])
      BY <2>2 DEF IsLoad
    <3> QED
      BY <1>1, <3>2, <3>3, OtherEnds
  <2>3. CASE ~(readers[i].kind = "load" /\ readers[i].shown)
             /\ ~(readers[i].kind = "archive" /\ readers[i].shown)
    <3>1. screen' = screen
      BY <2>3 DEF ReadFails
    <3>2. SameView /\ ~IsLoad(readers[i])
      BY <2>3, <3>1 DEF SameView, IsLoad
    <3> QED
      BY <1>1, <1>2, <3>1, <3>2, OtherEnds
  <2> QED
    BY <2>1, <2>2, <2>3
<1> QED
  BY <1>1, <1>2, <1>3, Running, ArchiveKept DEF ViewInv, ScreenInv

\* A load that the screen starts by itself.
LEMMA StartedView ==
  ASSUME FileInv, ReaderInv, NEW filter \in Filters, Starts(Reader("load", filter, chain)),
         screen'.filter = filter
  PROVE  LoadInv' /\ CurrentInv'
<1> DEFINE r == Reader("load", filter, chain)
<1>1. "load" \in {"log", "load", "archive"}
  OBVIOUS
<1>2. /\ chain \in Seq({"append", "clear"}) /\ Len(chain) <= MaxLinks /\ broken \in BOOLEAN
      /\ readers \in Seq(ReaderStates)
  BY DEF FileInv, ChainInv, ReaderInv
<1>3. /\ r \in ReaderStates /\ r.kind = "load" /\ r.shown /\ r.stage = "first"
      /\ r.filter = screen'.filter
  BY <1>1, <1>2, ReaderIs
<1>4. readers' = Append(readers, r)
  BY DEF Starts
<1> HIDE DEF r
<1>5. IsLoad(r)
  BY <1>3 DEF IsLoad
<1> QED
  BY <1>2, <1>3, <1>4, <1>5, FreshLoad

\* The screen loads when it is opened.
LEMMA ViewOpen ==
  ASSUME FileInv, ReaderInv, ViewInv, Open
  PROVE  ViewInv'
<1>1. /\ up /\ up' = up /\ archive' = archive
      /\ screen' = [Left EXCEPT !.mounted = TRUE, !.loading = TRUE]
      /\ Starts(Reader("load", "every", chain))
  BY DEF Open
<1>2. screen' \in ScreenStates /\ screen'.filter = "every"
  <2>1. Left.filter = "every"
    BY DEF Left
  <2> QED
    BY <1>1, <2>1, LeftIsScreen DEF ScreenStates
<1>3. "every" \in Filters
  BY DEF Filters
<1>4. LoadInv' /\ CurrentInv'
  BY <1>1, <1>2, <1>3, StartedView
<1>5. DownInv'
  BY <1>1 DEF ViewInv, DownInv
<1> QED
  BY <1>1, <1>2, <1>4, <1>5, ArchiveKept DEF ViewInv, ScreenInv

\* A screen that is left displays nothing.
LEMMA ViewLeave ==
  ASSUME ViewInv, Leave
  PROVE  ViewInv'
<1>1. screen.mounted /\ up' = up /\ archive' = archive /\ screen' = Left
  BY DEF Leave
<1>2. ~screen'.mounted
  BY <1>1 DEF Left
<1> QED
  BY <1>1, <1>2, LeftIsScreen, NoScreen, Running, ArchiveKept DEF ViewInv, ScreenInv

\* A changed filter starts a load that selects by it.
LEMMA ViewChangeFilter ==
  ASSUME FileInv, ReaderInv, ViewInv, NEW f \in Filters, ChangeFilter(f)
  PROVE  ViewInv'
<1>1. /\ screen.mounted /\ up' = up /\ archive' = archive
      /\ screen' = [screen EXCEPT !.filter = f] /\ Starts(Reader("load", f, chain))
  BY DEF ChangeFilter
<1>2. screen' \in ScreenStates /\ screen'.filter = f
  BY <1>1 DEF ViewInv, ScreenInv, ScreenStates
<1>3. LoadInv' /\ CurrentInv'
  BY <1>1, <1>2, StartedView
<1> QED
  BY <1>1, <1>2, <1>3, Running, ArchiveKept DEF ViewInv, ScreenInv

\* The dialogs of the screen change nothing it displays.
LEMMA ViewDialog ==
  ASSUME FileInv, ViewInv, PressClear \/ PressExport \/ Cancel
  PROVE  ViewInv' /\ session' = session /\ UNCHANGED log /\ readers' = readers
<1>1. /\ session' = session /\ up' = up /\ archive' = archive /\ UNCHANGED log
      /\ readers' = readers /\ broken' = broken
      /\ \E d \in {"closed", "clear", "export"} : screen' = [screen EXCEPT !.dialog = d]
      /\ screen.mounted \/ screen.dialog # "closed"
  BY DEF PressClear, PressExport, Cancel, log
<1>2. screen' \in ScreenStates /\ SameView /\ screen'.error = screen.error
  BY <1>1 DEF ViewInv, ScreenInv, ScreenStates, SameView
<1>3. Readable' = Readable /\ (Appending' <=> Appending)
  BY <1>1, FileUnchanged
<1>4. LoadInv' /\ CurrentInv'
  BY <1>1, <1>2, <1>3, ViewKept DEF ViewInv, ScreenInv
<1> QED
  BY <1>1, <1>2, <1>4, Running, ArchiveKept DEF ViewInv, ScreenInv

\* To ask for a clear changes nothing yet.
LEMMA ViewConfirmClear ==
  ASSUME FileInv, ViewInv, ConfirmClear
  PROVE  ViewInv'
<1>1. /\ UNCHANGED <<up, broken, archive, readers>> /\ lines' = lines
      /\ screen' = [screen EXCEPT !.dialog = "closed"] /\ screen.dialog # "closed"
  BY DEF ConfirmClear, disk
<1>2. screen' \in ScreenStates /\ SameView /\ screen'.error = screen.error
  BY <1>1 DEF ViewInv, ScreenInv, ScreenStates, SameView
<1>3. Readable' = Readable /\ (Appending' <=> Appending)
  BY <1>1, FileConfirmClear DEF Readable
<1>4. LoadInv' /\ CurrentInv'
  BY <1>1, <1>2, <1>3, ViewKept DEF ViewInv, ScreenInv
<1> QED
  BY <1>1, <1>2, <1>4, Running, ArchiveKept DEF ViewInv, ScreenInv

\* An export that starts is no load.
LEMMA ViewConfirmExport ==
  ASSUME FileInv, ReaderInv, ViewInv, ConfirmExport
  PROVE  ViewInv'
<1> DEFINE r == Reader("archive", "every", chain)
<1>1. /\ session' = session /\ up' = up /\ archive' = archive /\ UNCHANGED log /\ broken' = broken
      /\ screen' = [screen EXCEPT !.dialog = "closed", !.exporting = TRUE]
      /\ screen.dialog # "closed" /\ readers' = Append(readers, r)
  BY DEF ConfirmExport, Starts, log
<1>2. screen' \in ScreenStates /\ SameView /\ screen'.error = screen.error
  BY <1>1 DEF ViewInv, ScreenInv, ScreenStates, SameView
<1>3. Readable' = Readable /\ (Appending' <=> Appending)
  BY <1>1, FileUnchanged
<1>4. /\ chain \in Seq({"append", "clear"}) /\ Len(chain) <= MaxLinks /\ broken \in BOOLEAN
      /\ readers \in Seq(ReaderStates)
  BY DEF FileInv, ChainInv, ReaderInv
<1>5. r \in ReaderStates /\ r.kind # "load"
  <2>1. "archive" \in {"log", "load", "archive"} /\ "every" \in Filters
    BY DEF Filters
  <2>2. r \in ReaderStates /\ r.kind = "archive"
    BY <1>4, <2>1, ReaderIs
  <2> QED
    BY <2>2
<1> HIDE DEF r
<1>6. \A i \in DOMAIN readers : SameRead(readers[i], readers[i])
  BY DEF SameRead
<1>7. /\ NoLoad' => NoLoad
      /\ \A j \in DOMAIN readers' : LastLoad(j)' =>
           /\ j \in DOMAIN readers /\ LastLoad(j) /\ SameRead(readers'[j], readers[j])
           /\ readers'[j].late = readers[j].late
  BY <1>1, <1>4, <1>5, <1>6, OtherAppended
<1>8. LoadInv'
  <2>1. \A j \in DOMAIN readers' : LastLoad(j)' /\ ~readers'[j].late =>
          \E k \in DOMAIN readers :
            LastLoad(k) /\ ~readers[k].late /\ SameRead(readers'[j], readers[k])
    BY <1>7
  <2> QED
    BY <1>1, <1>2, <1>3, <2>1, LoadsKept DEF ViewInv, ScreenInv, SameView
<1>9. CurrentInv'
  BY <1>1, <1>2, <1>3, <1>7, CurrentKept DEF ViewInv, ScreenInv
<1> QED
  BY <1>1, <1>2, <1>8, <1>9, Running, ArchiveKept DEF ViewInv, ScreenInv

-----------------------------------------------------------------------------
(* The theorems *)

\* It holds when nothing has been started yet.
LEMMA LogInit == Init => LogIInv
<1> SUFFICES ASSUME Init
             PROVE  LogIInv
  OBVIOUS
<1>1. /\ session = 0 /\ up = FALSE /\ lines = <<>> /\ open = FALSE /\ chain = <<>>
      /\ broken = FALSE /\ readers = <<>> /\ screen = Left /\ archive = NoArchive /\ acked = {}
  BY DEF Init
<1>2. FileType
  <2>1. lines \in Seq(Entries \cup {Damaged}) /\ Len(lines) = 0
    BY <1>1
  <2>2. session \in 0..MaxSessions /\ Len(lines) <= session
    BY <1>1, <2>1, Bounds
  <2> QED
    BY <1>1, <2>1, <2>2 DEF FileType
<1>3. DamageInv
  <2>1. acked \ Readable = {} /\ Closed = {}
    BY <1>1 DEF Closed
  <2>2. Cardinality(acked \ Readable) <= Cardinality(Closed)
    BY <2>1, FS_EmptySet
  <2> QED
    BY <1>1, <2>2 DEF DamageInv
<1>4. ChainInv
  <2>1. chain \in Seq({"append", "clear"}) /\ Len(chain) = 0 /\ DOMAIN chain = {}
    BY <1>1
  <2>2. Len(chain) <= MaxLinks
    BY <2>1, Bounds
  <2> QED
    BY <1>1, <2>1, <2>2 DEF ChainInv, Appending
<1>5. DownInv /\ ReaderInv
  <2>1. readers \in Seq(ReaderStates) /\ DOMAIN readers = {}
    BY <1>1
  <2>2. ReaderInv
    BY <2>1 DEF ReaderInv
  <2> QED
    BY <1>1, <2>2 DEF DownInv
<1>6. ScreenInv
  <2>1. ~screen.mounted
    BY <1>1 DEF Left
  <2> QED
    BY <1>1, <2>1, LeftIsScreen DEF ScreenInv, LoadInv, CurrentInv, ShownIsCurrent
<1>7. ArchiveInv
  <2>1. archive.logs = {} /\ archive.total = 0 /\ 0 \in 0..MaxSessions
    BY <1>1, Bounds DEF NoArchive
  <2>2. archive \in [logs : SUBSET Entries, total : 0..MaxSessions]
    BY <1>1, <2>1 DEF NoArchive
  <2> QED
    BY <2>1, <2>2 DEF ArchiveInv, ReportCountsTheLogs
<1> QED
  BY <1>2, <1>3, <1>4, <1>5, <1>6, <1>7 DEF LogIInv, FileInv

\* Every step of the application, the file and the screen keeps it.
LEMMA LogStep == LogIInv /\ [Next]_vars => LogIInv'
<1> SUFFICES ASSUME LogIInv, [Next]_vars
             PROVE  LogIInv'
  OBVIOUS
<1> USE DEF LogIInv
<1>0. ViewInv /\ screen \in ScreenStates
  BY DEF ViewInv, ScreenInv
<1>1. ASSUME FileInv', ReaderInv', ViewInv'
      PROVE  LogIInv'
  BY <1>1 DEF ViewInv
<1>2. ASSUME readers' = <<>>
      PROVE  ReaderInv'
  BY <1>2 DEF ReaderInv
<1> USE <1>0
<1>3. CASE Launch
  BY <1>1, <1>2, <1>3, FileLaunch, ViewLaunch
<1>4. CASE Ends
  BY <1>1, <1>2, <1>4, FileEnds, ViewEnds
<1>5. CASE AppendDone
  BY <1>1, <1>5, FileAppendDone, ReadersAppendDone, ViewAppendDone
<1>6. CASE ClearDone
  BY <1>1, <1>6, FileClearDone, ReadersClearDone, ViewClearDone
<1>7. CASE LinkFails
  BY <1>1, <1>7, FileLinkFails, ReadersLinkFails, ViewLinkFails
<1>8. ASSUME NEW i \in DOMAIN readers, FirstRead(i)
      PROVE  LogIInv'
  <2>1. session' = session /\ UNCHANGED log
    BY <1>8 DEF FirstRead
  <2> QED
    BY <1>1, <1>8, <2>1, FileUnchanged, ReadersFirstRead, ViewFirstRead
<1>9. ASSUME NEW i \in DOMAIN readers, LoadEnds(i)
      PROVE  LogIInv'
  <2>1. session' = session /\ UNCHANGED log /\ readers' = Without(i)
    BY <1>9 DEF LoadEnds
  <2> QED
    BY <1>1, <1>9, <2>1, FileUnchanged, ReadersEnd, ViewLoadEnds
<1>10. ASSUME NEW i \in DOMAIN readers, ArchiveEnds(i)
       PROVE  LogIInv'
  <2>1. session' = session /\ UNCHANGED log /\ readers' = Without(i)
    BY <1>10 DEF ArchiveEnds
  <2> QED
    BY <1>1, <1>10, <2>1, FileUnchanged, ReadersEnd, ViewArchiveEnds
<1>11. ASSUME NEW i \in DOMAIN readers, ReadFails(i)
       PROVE  LogIInv'
  <2>1. session' = session /\ UNCHANGED log /\ readers' = Without(i)
    BY <1>11 DEF ReadFails
  <2> QED
    BY <1>1, <1>11, <2>1, FileUnchanged, ReadersEnd, ViewReadFails
<1>12. CASE Open
  <2>1. session' = session /\ UNCHANGED log /\ Starts(Reader("load", "every", chain))
    BY <1>12 DEF Open
  <2>2. "every" \in Filters /\ "load" \in {"load", "archive"}
    BY DEF Filters
  <2>3. ReaderInv'
    BY <2>1, <2>2, ReadersStart
  <2> QED
    BY <1>1, <1>12, <2>1, <2>3, FileUnchanged, ViewOpen
<1>13. CASE Leave
  <2>1. session' = session /\ UNCHANGED log
    BY <1>13 DEF Leave
  <2> QED
    BY <1>1, <1>13, <2>1, FileUnchanged, ReadersLeave, ViewLeave
<1>14. ASSUME NEW f \in Filters, ChangeFilter(f)
       PROVE  LogIInv'
  <2>1. session' = session /\ UNCHANGED log /\ Starts(Reader("load", f, chain))
    BY <1>14 DEF ChangeFilter
  <2>2. ReaderInv'
    BY <2>1, ReadersStart
  <2> QED
    BY <1>1, <1>14, <2>1, <2>2, FileUnchanged, ViewChangeFilter
<1>15. CASE PressClear \/ PressExport \/ Cancel
  <2>1. ViewInv' /\ session' = session /\ UNCHANGED log /\ readers' = readers
    BY <1>15, ViewDialog
  <2>2. ReaderInv'
    BY <2>1, FitsUnchanged DEF ReaderInv
  <2> QED
    BY <1>1, <2>1, <2>2, FileUnchanged
<1>16. CASE ConfirmClear
  BY <1>1, <1>16, FileConfirmClear, ReadersConfirmClear, ViewConfirmClear
<1>17. CASE ConfirmExport
  <2>1. session' = session /\ UNCHANGED log /\ Starts(Reader("archive", "every", chain))
    BY <1>17 DEF ConfirmExport
  <2>2. "every" \in Filters /\ "archive" \in {"load", "archive"}
    BY DEF Filters
  <2>3. ReaderInv'
    BY <2>1, <2>2, ReadersStart
  <2> QED
    BY <1>1, <1>17, <2>1, <2>3, FileUnchanged, ViewConfirmExport
<1>18. CASE UNCHANGED vars
  <2>1. /\ session' = session /\ UNCHANGED log /\ UNCHANGED <<up, readers, screen, archive>>
        /\ chain' = chain /\ broken' = broken
    BY <1>18 DEF vars, log
  <2>2. FileInv' /\ (Appending' <=> Appending) /\ Readable' = Readable
    BY <2>1, FileUnchanged
  <2>3. ReaderInv'
    BY <2>1, FitsUnchanged DEF ReaderInv
  <2>4. LoadInv' /\ CurrentInv'
    BY <2>1, <2>2, ViewKept DEF ViewInv, ScreenInv, SameView
  <2>5. DownInv' /\ ArchiveInv'
    BY <2>1, ArchiveKept DEF DownInv
  <2> QED
    BY <2>1, <2>2, <2>3, <2>4, <2>5 DEF ScreenInv
<1> QED
  BY <1>3, <1>4, <1>5, <1>6, <1>7, <1>8, <1>9, <1>10, <1>11, <1>12, <1>13, <1>14, <1>15,
     <1>16, <1>17, <1>18 DEF Next, Reads

\* It is an invariant.
LEMMA LogAlways == Spec => []LogIInv
<1>1. LogIInv /\ [Next]_vars => LogIInv'
  BY LogStep
<1> QED
  BY <1>1, LogInit, PTL DEF Spec

\* The invariant says more than the type and the damage.
LEMMA LogIInvTypes == LogIInv => LogInv
<1> SUFFICES ASSUME LogIInv
             PROVE  LogInv
  OBVIOUS
<1>1. FileType /\ DamageInv /\ ChainInv /\ DownInv /\ ReaderInv /\ ScreenInv /\ ArchiveInv
  BY DEF LogIInv, FileInv
<1>2. TypeOK
  <2>1. Len(lines) <= MaxSessions /\ acked \in SUBSET Entries
    BY <1>1, Bounds DEF FileType
  <2>2. \A i \in DOMAIN readers : readers[i].wait <= Len(chain)
    BY <1>1 DEF ReaderInv, Fits
  <2> QED
    BY <1>1, <2>1, <2>2 DEF TypeOK, FileType, ChainInv, DownInv, ReaderInv, ScreenInv, ArchiveInv
<1>3. DamageIsLocal
  <2> DEFINE D == {i \in DOMAIN lines : lines[i] = Damaged}
  <2>1. IsFiniteSet(acked \ Readable) /\ IsFiniteSet(Closed)
    BY <1>1, FilesFinite
  <2>2. D \subseteq 1..Len(lines) /\ Closed \subseteq D /\ Len(lines) \in Nat
    BY <1>1 DEF FileType, Closed
  <2>6. IsFiniteSet(1..Len(lines))
    BY <2>2, FS_Interval
  <2>3. IsFiniteSet(D)
    BY <2>2, <2>6, FS_Subset
  <2>4. Cardinality(acked \ Readable) <= Cardinality(Closed)
    BY <1>1 DEF DamageInv
  <2>5. Cardinality(acked \ Readable) <= Cardinality(D)
    BY <2>1, <2>2, <2>3, <2>4, CountedStill
  <2> QED
    BY <2>5 DEF DamageIsLocal
<1> QED
  BY <1>2, <1>3 DEF LogInv

\* The state is well-formed, and writes that were cut, by failures or by the end
\* of the application, cost no acknowledged entry but one for each damaged line
\* (append of platform_diagnostics.dart).
THEOREM LogIsKept == Spec => []LogInv
BY LogAlways, LogIInvTypes, PTL

\* The logs screen shows the file through overlapping loads, clears and changes of
\* the filter (_load of logs_screen.dart).
THEOREM ScreenIsCurrent == Spec => []ShownIsCurrent
<1>1. LogIInv => ShownIsCurrent
  BY DEF LogIInv, ScreenInv, CurrentInv
<1> QED
  BY <1>1, LogAlways, PTL

\* An archive's report counts the entries it holds (createArchive of
\* diagnostics.dart), although it reads the file twice.
THEOREM ReportIsConsistent == Spec => []ReportCountsTheLogs
<1>1. LogIInv => ReportCountsTheLogs
  BY DEF LogIInv, ArchiveInv
<1> QED
  BY <1>1, LogAlways, PTL

\* While the chain is broken nothing runs that writes (_pending of
\* platform_diagnostics.dart), until the application is started again.
THEOREM FailureStopsWriting == Spec => NothingWrittenAfterFailure
<1>1. LogIInv /\ [Next]_vars => [broken => UNCHANGED disk]_vars
  <2> SUFFICES ASSUME LogIInv, [Next]_vars, broken
               PROVE  UNCHANGED disk
    OBVIOUS
  <2>1. chain = <<>>
    BY DEF LogIInv, FileInv, ChainInv
  <2>2. CASE Launch \/ Open \/ Leave \/ PressClear \/ ConfirmClear \/ PressExport
             \/ ConfirmExport \/ Cancel \/ UNCHANGED vars
    BY <2>2 DEF Launch, Open, Leave, PressClear, ConfirmClear, PressExport, ConfirmExport,
                Cancel, vars, log
  <2>3. CASE Ends
    BY <2>1, <2>3 DEF Ends
  <2>4. CASE AppendDone \/ ClearDone \/ LinkFails
    BY <2>1, <2>4 DEF AppendDone, ClearDone, LinkFails
  <2>5. CASE \E i \in DOMAIN readers : Reads(i)
    BY <2>5 DEF Reads, FirstRead, LoadEnds, ArchiveEnds, ReadFails, log
  <2>6. CASE \E f \in Filters : ChangeFilter(f)
    BY <2>6 DEF ChangeFilter, log
  <2> QED
    BY <2>2, <2>3, <2>4, <2>5, <2>6 DEF Next
<1> QED
  BY <1>1, LogAlways, PTL DEF Spec, NothingWrittenAfterFailure
=============================================================================
