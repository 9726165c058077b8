------------------------------ MODULE LogStore ------------------------------
(***************************************************************************)
(* The client's log: the JSON lines file of apps/desktop/.../platform_     *)
(* diagnostics.dart, whose appends and clears are chained on one future;   *)
(* RedactingDiagnostics of packages/kenai_core/.../diagnostics.dart, which *)
(* reads it for the logs screen and for the exported archive; and the logs *)
(* screen, every change of which starts one more load.  The only event the *)
(* application logs is APP_STARTED, once in each session, so that a        *)
(* session's number stands for its entry, and a filter lets all of them    *)
(* through or none.  Writes are cut anywhere by failures and by the end of *)
(* the application.                                                        *)
(***************************************************************************)
EXTENDS Naturals, FiniteSets, Sequences, SequencesExt

CONSTANTS MaxSessions,      \* bound: sessions of the application
          MaxReaders,       \* bound: readers and links when one more is asked for
          MaxLinks          \* bound: appends and clears under way

ASSUME BoundsAssumption == {MaxSessions, MaxReaders, MaxLinks} \subseteq Nat \ {0}

VARIABLES session,          \* the sessions so far
          up,               \* the application runs
          lines,            \* client.jsonl, line by line
          open,             \* its last line lacks the end of line
          chain,            \* _pending: the links that have not completed
          broken,           \* _pending completed with an error
          readers,          \* the readAll calls under way, in their order
          screen,           \* the logs screen
          archive,          \* the last archive saved to Downloads
          acked             \* history: appended with success, not cleared since

disk == <<lines, open>>
log  == <<disk, chain, broken, acked>>
vars == <<session, up, log, readers, screen, archive>>

Entries == 1..MaxSessions
Damaged == 0                \* a line that does not decode
Filters == {"every", "none"}

Readable == {lines[i] : i \in DOMAIN lines} \ {Damaged}

\* One query, summary or createArchive: the first readAll and the second.
\* wait: the links before it; doomed: it awaits a future that failed; late: a
\* load started after this one has ended; shown: its screen is on display.
ReaderStates ==
  [kind : {"log", "load", "archive"}, stage : {"first", "second"},
   wait : 0..MaxLinks, doomed : BOOLEAN, filter : Filters,
   got : SUBSET Entries, late : BOOLEAN, shown : BOOLEAN]

\* overtaken: history, the load that ended last had been overtaken.
ScreenStates ==
  [mounted : BOOLEAN, filter : Filters, entries : SUBSET Entries,
   total : 0..MaxSessions, loading : BOOLEAN, error : BOOLEAN,
   exporting : BOOLEAN, dialog : {"closed", "clear", "export"},
   overtaken : BOOLEAN]

NoArchive == [logs |-> {}, total |-> 0]

Left == [mounted |-> FALSE, filter |-> "every", entries |-> {}, total |-> 0,
         loading |-> FALSE, error |-> FALSE, exporting |-> FALSE,
         dialog |-> "closed", overtaken |-> FALSE]

TypeOK ==
  /\ session \in 0..MaxSessions /\ up \in BOOLEAN
  /\ lines \in Seq(Entries \cup {Damaged}) /\ Len(lines) <= MaxSessions
  /\ open \in BOOLEAN /\ (open => lines # <<>>)
  /\ chain \in Seq({"append", "clear"}) /\ Len(chain) <= MaxLinks
  /\ broken \in BOOLEAN /\ (broken => chain = <<>>)
  /\ readers \in Seq(ReaderStates)
  /\ \A i \in DOMAIN readers : readers[i].wait <= Len(chain)
  /\ screen \in ScreenStates
  /\ archive \in [logs : SUBSET Entries, total : 0..MaxSessions]
  /\ acked \in SUBSET Entries

Init ==
  /\ session = 0 /\ up = FALSE
  /\ lines = <<>> /\ open = FALSE
  /\ chain = <<>> /\ broken = FALSE
  /\ readers = <<>> /\ screen = Left /\ archive = NoArchive
  /\ acked = {}

-----------------------------------------------------------------------------
(* The file *)

\* Mutant: FileMode.write.
WritesOver(entry, ended) == lines' = <<entry>> /\ open' = ~ended

\* FileMode.append: what follows an unended line becomes part of it.
Writes(entry, ended) ==
  /\ lines' = IF open THEN [lines EXCEPT ![Len(lines)] = Damaged]
                      ELSE Append(lines, entry)
  /\ open' = ~ended

\* An append that fails, or dies with the application, has written nothing, a
\* part of the entry, all of it but the end of line, or everything.
WritesPartly ==
  \/ UNCHANGED disk
  \/ Writes(Damaged, FALSE)
  \/ \E ended \in BOOLEAN : Writes(session, ended)

Truncates == lines' = <<>> /\ open' = FALSE /\ acked' = {}

-----------------------------------------------------------------------------
(* Readers *)

\* readAll awaits the links there are when it is called.
Reader(kind, filter, ch) ==
  [kind |-> kind, stage |-> "first", wait |-> Len(ch), doomed |-> broken,
   filter |-> filter, got |-> {}, late |-> FALSE, shown |-> TRUE]

Passes(filter, entries) == IF filter = "every" THEN entries ELSE {}

\* A change event makes the screen on display load again.
Notified(rs, ch) ==
  IF screen.mounted THEN Append(rs, Reader("load", screen.filter, ch)) ELSE rs

\* What is left when reader i has ended: the loads before it are late.
Without(i) ==
  LET ends == readers[i].kind = "load"
      Overtaken(j, r) == [r EXCEPT !.late = r.late \/ (ends /\ j < i /\ r.kind = "load")]
  IN RemoveAt([j \in DOMAIN readers |-> Overtaken(j, readers[j])], i)

\* Mutant: a reader awaits also what is chained after its call.
AdvancedNever == readers

\* The link at the head has completed.
Advanced == [i \in DOMAIN readers |->
               [readers[i] EXCEPT !.wait = IF @ = 0 THEN 0 ELSE @ - 1]]

-----------------------------------------------------------------------------
(* Sessions *)

\* bootstrap.dart: the store is made anew and logs APP_STARTED.
Launch ==
  /\ ~up /\ session < MaxSessions
  /\ up' = TRUE /\ session' = session + 1
  /\ chain' = <<"append">> /\ broken' = FALSE
  /\ UNCHANGED <<disk, acked, readers, screen, archive>>

\* What is left of a link that fails or is cut off.
LinkCutOff ==
  \/ Head(chain) = "append" /\ WritesPartly /\ UNCHANGED acked
  \/ Head(chain) = "clear" /\ Truncates
  \/ UNCHANGED <<disk, acked>>

\* The application is closed or killed, at any time.
Ends ==
  /\ up /\ session < MaxSessions
  /\ IF chain = <<>> THEN UNCHANGED <<disk, acked>> ELSE LinkCutOff
  /\ up' = FALSE
  /\ chain' = <<>> /\ broken' = FALSE /\ readers' = <<>> /\ screen' = Left
  /\ UNCHANGED <<session, archive>>

-----------------------------------------------------------------------------
(* The chain *)

\* log goes on to query the store for its change event.
AppendDone ==
  /\ chain # <<>> /\ Head(chain) = "append"
  /\ Writes(session, TRUE)
  /\ acked' = acked \cup {session}
  /\ chain' = Tail(chain)
  /\ readers' = Append(Advanced, Reader("log", "every", chain'))
  /\ UNCHANGED <<session, up, broken, screen, archive>>

\* Mutant: no change event.
ClearDoneSilently ==
  /\ chain # <<>> /\ Head(chain) = "clear"
  /\ Truncates
  /\ chain' = Tail(chain)
  /\ readers' = Advanced
  /\ UNCHANGED <<session, up, broken, screen, archive>>

\* clear announces an empty log.
ClearDone ==
  /\ chain # <<>> /\ Head(chain) = "clear"
  /\ Truncates
  /\ chain' = Tail(chain)
  /\ readers' = Notified(Advanced, chain')
  /\ UNCHANGED <<session, up, broken, screen, archive>>

\* Mutant: whenComplete instead of then.
LinkFailsAlone ==
  /\ chain # <<>>
  /\ LinkCutOff
  /\ chain' = Tail(chain) /\ broken' = TRUE
  /\ readers' = Advanced
  /\ UNCHANGED <<session, up, screen, archive>>

\* Everything chained on a link that failed fails with it, and so will whatever
\* is chained later.  Nothing is announced; the exception of a clear is not
\* caught by the screen.
LinkFails ==
  /\ chain # <<>>
  /\ LinkCutOff
  /\ chain' = <<>> /\ broken' = TRUE
  /\ readers' = [i \in DOMAIN readers |->
                   [readers[i] EXCEPT !.doomed = @ \/ readers[i].wait > 0, !.wait = 0]]
  /\ UNCHANGED <<session, up, screen, archive>>

-----------------------------------------------------------------------------
(* readAll *)

CanRead(i) == readers[i].wait = 0 /\ ~readers[i].doomed

\* query ends; a load and an archive go on to summary, which reads once more.
FirstRead(i) ==
  /\ CanRead(i) /\ readers[i].stage = "first"
  /\ readers' = IF readers[i].kind = "log" THEN Notified(Without(i), chain)
                ELSE [readers EXCEPT ![i].stage = "second",
                                     ![i].got = Passes(readers[i].filter, Readable),
                                     ![i].wait = Len(chain), ![i].doomed = broken]
  /\ UNCHANGED <<session, up, log, screen, archive>>

\* The end of _load.
LoadEnds(i) ==
  /\ CanRead(i) /\ readers[i].stage = "second" /\ readers[i].kind = "load"
  /\ screen' = IF readers[i].shown
               THEN [screen EXCEPT !.entries = readers[i].got,
                                   !.total = Cardinality(Readable),
                                   !.loading = FALSE, !.error = FALSE,
                                   !.overtaken = readers[i].late]
               ELSE screen
  /\ readers' = Without(i)
  /\ UNCHANGED <<session, up, log, archive>>

\* The end of createArchive, and its save.
ArchiveEnds(i) ==
  /\ CanRead(i) /\ readers[i].stage = "second" /\ readers[i].kind = "archive"
  /\ archive' = [logs |-> readers[i].got, total |-> Cardinality(Readable)]
  /\ screen' = IF readers[i].shown THEN [screen EXCEPT !.exporting = FALSE] ELSE screen
  /\ readers' = Without(i)
  /\ UNCHANGED <<session, up, log>>

\* Mutant: the exception is left to the caller.
ReadFailsUncaught(i) ==
  /\ readers[i].wait = 0
  /\ readers' = Without(i)
  /\ UNCHANGED <<session, up, log, screen, archive>>

\* A read fails because it awaited a failed future or by itself, or the save
\* of the archive fails.
ReadFails(i) ==
  /\ readers[i].wait = 0
  /\ screen' = CASE readers[i].kind = "load" /\ readers[i].shown ->
                      [screen EXCEPT !.loading = FALSE, !.error = TRUE,
                                     !.overtaken = readers[i].late]
                 [] readers[i].kind = "archive" /\ readers[i].shown ->
                      [screen EXCEPT !.exporting = FALSE, !.error = TRUE]
                 [] OTHER -> screen
  /\ readers' = Without(i)
  /\ UNCHANGED <<session, up, log, archive>>

Reads(i) == FirstRead(i) \/ LoadEnds(i) \/ ArchiveEnds(i) \/ ReadFails(i)

-----------------------------------------------------------------------------
(* The screen *)

Room == Len(readers) + Len(chain) < MaxReaders

Starts(reader) == readers' = Append(readers, reader)

\* initState
Open ==
  /\ up /\ ~screen.mounted /\ Room
  /\ screen' = [Left EXCEPT !.mounted = TRUE, !.loading = TRUE]
  /\ Starts(Reader("load", "every", chain))
  /\ UNCHANGED <<session, up, log, archive>>

\* dispose: its loads and its export go on; what they bring is dropped.
Leave ==
  /\ screen.mounted /\ screen.dialog = "closed"
  /\ screen' = Left
  /\ readers' = [i \in DOMAIN readers |-> [readers[i] EXCEPT !.shown = FALSE]]
  /\ UNCHANGED <<session, up, log, archive>>

\* The search field and the two menus: every change of them, also one that
\* selects the same entries.
ChangeFilter(f) ==
  /\ screen.mounted /\ screen.dialog = "closed" /\ Room
  /\ screen' = [screen EXCEPT !.filter = f]
  /\ Starts(Reader("load", f, chain))
  /\ UNCHANGED <<session, up, log, archive>>

PressClear ==
  /\ screen.mounted /\ screen.dialog = "closed"
  /\ screen.entries # {}
  /\ screen' = [screen EXCEPT !.dialog = "clear"]
  /\ UNCHANGED <<session, up, log, readers, archive>>

\* A clear chained on a failed future fails at once.
ConfirmClear ==
  /\ screen.dialog = "clear"
  /\ Room /\ Len(chain) < MaxLinks
  /\ screen' = [screen EXCEPT !.dialog = "closed"]
  /\ chain' = IF broken THEN <<>> ELSE Append(chain, "clear")
  /\ UNCHANGED <<session, up, disk, broken, acked, readers, archive>>

PressExport ==
  /\ screen.mounted /\ screen.dialog = "closed"
  /\ ~screen.exporting
  /\ screen' = [screen EXCEPT !.dialog = "export"]
  /\ UNCHANGED <<session, up, log, readers, archive>>

\* Mutant: the archive holds what the screen selects.
ConfirmFilteredExport ==
  /\ screen.dialog = "export" /\ Room
  /\ screen' = [screen EXCEPT !.dialog = "closed", !.exporting = TRUE]
  /\ Starts(Reader("archive", screen.filter, chain))
  /\ UNCHANGED <<session, up, log, archive>>

ConfirmExport ==
  /\ screen.dialog = "export" /\ Room
  /\ screen' = [screen EXCEPT !.dialog = "closed", !.exporting = TRUE]
  /\ Starts(Reader("archive", "every", chain))
  /\ UNCHANGED <<session, up, log, archive>>

Cancel ==
  /\ screen.dialog # "closed"
  /\ screen' = [screen EXCEPT !.dialog = "closed"]
  /\ UNCHANGED <<session, up, log, readers, archive>>

Next ==
  \/ Launch \/ Ends
  \/ AppendDone \/ ClearDone \/ LinkFails
  \/ \E i \in DOMAIN readers : Reads(i)
  \/ Open \/ Leave
  \/ \E f \in Filters : ChangeFilter(f)
  \/ PressClear \/ ConfirmClear \/ PressExport \/ ConfirmExport \/ Cancel

Links == AppendDone \/ ClearDone \/ LinkFails
ReadsOf(kind) == \E i \in DOMAIN readers : readers[i].kind = kind /\ Reads(i)

\* Every call on the file ends, one way or the other.
Fairness == /\ WF_vars(Links)
            /\ \A kind \in {"log", "load", "archive"} : WF_vars(ReadsOf(kind))

Spec == Init /\ [][Next]_vars /\ Fairness

-----------------------------------------------------------------------------
(* Properties *)

NoLoad == \A i \in DOMAIN readers : readers[i].kind # "load" \/ ~readers[i].shown

\* Unless it is loading, the logs screen shows what its filter selects of the
\* file, with the summary of the same file, through filters changed during
\* loads, clears, errors of single reads and returns to the screen.  The two
\* exceptions the code leaves: a load overtaken by the one after it, whose
\* older result is then shown, and a failed clear, of which no screen learns.
ShownIsCurrent ==
  screen.mounted /\ NoLoad /\ ~screen.overtaken /\ ~screen.error /\ ~broken =>
    /\ screen.entries = Passes(screen.filter, Readable)
    /\ screen.total = Cardinality(Readable)

\* A write that was cut costs no more than the one entry written onto it in a
\* later session: an entry whose append succeeded and that nobody cleared can be
\* read, but for one in each damaged line.
DamageIsLocal ==
  Cardinality(acked \ Readable) <= Cardinality({i \in DOMAIN lines : lines[i] = Damaged})

LogInv == TypeOK /\ DamageIsLocal

\* The report of an archive counts the entries the archive holds, unless all of
\* them were cleared between the two readAll of createArchive: no mixture of two
\* states of the file is exported.
ReportCountsTheLogs == archive.total \in {Cardinality(archive.logs), 0}

\* After a write has failed nothing is written until the application is started
\* again, so that what a cut append left is not continued by the calls that were
\* already chained after it.
NothingWrittenAfterFailure == [][broken => UNCHANGED disk]_vars

\* The progress indicators of the logs screen go away, whatever fails: every
\* load and every export ends, also those behind a failed write.
ScreenIsReadyAgain ==
  /\ screen.loading ~> ~screen.loading
  /\ screen.exporting ~> ~screen.exporting
=============================================================================
