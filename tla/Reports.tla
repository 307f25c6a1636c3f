------------------------------ MODULE Reports -------------------------------
(***************************************************************************)
(* What is shown of an archive: the issues that list and verify print, in  *)
(* text and in JSON (src/src/diagnostics.cc), and the report of            *)
(* src/src/report.cc with its status, its tables and, if it is compact,    *)
(* its selection of issues.                                                *)
(***************************************************************************)
EXTENDS Listings

CONSTANTS
    Formats,         \* the DiagnosticFormatOptions used
    RowLimits        \* ReportOptions::entry_limit and the like

Severity == {"note", "info", "warning", "error"}

\* severityRank
SeverityRank == [note |-> 0, info |-> 1, warning |-> 2, error |-> 3]

\* max = 0 is no limit.
Format == [enabled : SUBSET Severity, max : Nat]

ASSUME ReportsAssumption == Formats \subseteq Format /\ RowLimits \subseteq Nat

\* Nothing reports a note.
SeverityOf(issue) ==
    CASE issue.code \in ErrorCodes -> "error"
      [] issue.code \in InfoCodes -> "info"
      [] OTHER -> "warning"

BySeverity(issues, severity) ==
    Within(issues, {d \in ToSet(issues) : SeverityOf(d) = severity})

\* Diagnostics::summary
Summary(issues) ==
    FoldLeft(LAMBDA counts, d : [counts EXCEPT ![SeverityOf(d)] = @ + 1],
             [s \in Severity |-> 0], issues)

Total(counts) == MapThenSumSet(LAMBDA s : counts[s], Severity)

MaxSeverity(s, t) == IF SeverityRank[s] >= SeverityRank[t] THEN s ELSE t

HighestSeverity(issues) ==
    FoldLeft(LAMBDA highest, d : MaxSeverity(highest, SeverityOf(d)), "note", issues)

\* The loop of formatDiagnostics and diagnosticsToJson; omitted is what the last
\* line of the text says.
NothingShown == [shown |-> <<>>, stopped |-> FALSE, omitted |-> 0]

\* Mutant: the limit is tested too late.
IssueShownLate(text, issue, format, size) ==
    CASE text.stopped \/ SeverityOf(issue) \notin format.enabled -> text
      [] OTHER ->
           IF format.max # 0 /\ Len(text.shown) > format.max
             THEN [text EXCEPT !.stopped = TRUE, !.omitted = size - Len(text.shown)]
             ELSE [text EXCEPT !.shown = Append(text.shown, issue)]

IssueShown(text, issue, format, size) ==
    CASE text.stopped \/ SeverityOf(issue) \notin format.enabled -> text
      [] OTHER ->
           IF format.max # 0 /\ Len(text.shown) >= format.max
             THEN [text EXCEPT !.stopped = TRUE, !.omitted = size - Len(text.shown)]
             ELSE [text EXCEPT !.shown = Append(text.shown, issue)]

FormatDiagnostics(issues, format) ==
    FoldLeft(LAMBDA text, d : IssueShown(text, d, format, Len(issues)), NothingShown, issues)

\* The JSON does not say that something is omitted.
DiagnosticsToJson(issues, format) ==
    [issues |-> FormatDiagnostics(issues, format).shown, summary |-> Summary(issues)]

\* renderDiagnosticsSection
CompactFormat == [enabled |-> {"warning", "error"}, max |-> 12]
FullFormat == [enabled |-> Severity, max |-> 0]

\* reportEntryTable and reportLayoutTable
Table(list, limit) ==
    IF limit # 0 /\ limit < Len(list)
      THEN [rows |-> SubSeq(list, 1, limit), omitted |-> Len(list) - limit]
      ELSE [rows |-> list, omitted |-> 0]

\* reportStatusLine
StatusLine == [ok |-> Verified, entries |-> stats.all.count, summary |-> Summary(diagnostics)]

\* reportTopEntries, by original size
TopEntries(limit) == {Table(s, limit) : s \in BySize}

-----------------------------------------------------------------------------
(* Properties.                                                             *)

\* Issues are shown in the order they were reported, up to the limit, and if some
\* are not, the text says so.  It says how many if no severity is left out; else
\* it counts those left out, too (diagnostics.cc:295).
ShownOrCounted(issues, format) ==
    LET text == FormatDiagnostics(issues, format)
        enabled == Within(issues, {d \in ToSet(issues) : SeverityOf(d) \in format.enabled})
        hidden == Len(issues) - Len(enabled)
    IN  /\ IsPrefix(text.shown, enabled)
        /\ format.max # 0 => Len(text.shown) <= format.max
        /\ text.omitted = 0 => text.shown = enabled
        /\ text.omitted # 0 => Len(text.shown) + text.omitted = Len(enabled) + hidden
        /\ format = FullFormat => Len(text.shown) = Total(Summary(issues))
        /\ DiagnosticsToJson(issues, format).issues = text.shown

\* What is shown accounts for what was found.  The status of a report is that of
\* the issues it counts, and a failed archive never has a report without a line
\* of its own, however compact; whatever list shows, verify shows before all
\* else; and rows and omitted rows are the entries of the status line.
ReportAccounts ==
    phase = "done" =>
       /\ \A format \in Formats \cup {CompactFormat, FullFormat} :
             /\ ShownOrCounted(InspectionDiagnostics, format)
             /\ ShownOrCounted(diagnostics, format)
             /\ IsPrefix(FormatDiagnostics(InspectionDiagnostics, format).shown,
                         FormatDiagnostics(diagnostics, format).shown)
       /\ Verified <=> StatusLine.summary["error"] = 0
       /\ Verified <=> HighestSeverity(diagnostics) # "error"
       /\ ~Verified => /\ BySeverity(diagnostics, "error") # <<>>
                       /\ FormatDiagnostics(diagnostics, CompactFormat).shown # <<>>
       /\ \A limit \in RowLimits : \A t \in TopEntries(limit) :
             /\ Len(t.rows) + t.omitted = StatusLine.entries
             /\ t.rows # <<>> => Head(t.rows).original = stats.largest

=============================================================================
