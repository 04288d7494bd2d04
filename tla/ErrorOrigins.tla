--------------------------- MODULE ErrorOrigins ---------------------------
(***************************************************************************)
(* What becomes of an error on its way up: EndWithCause (span.go) stamps   *)
(* it with the span it comes from, and a test that reports it puts its     *)
(* text, cleaned (oteltestctx/trace.go), into the status of its span.      *)
(*                                                                         *)
(* A text is a sequence of pieces: a word, or the stamp of a span. A       *)
(* message is a sequence of lines, each with its text and its form: a      *)
(* "section" of testify's report and its name, a line that continues one   *)
(* ("more"), a line that has one tab but is no section ("tab"), or "line". *)
(***************************************************************************)
EXTENDS Naturals, Sequences, SequencesExt

Word(w) == <<"word", w>>
Stamp(s) == <<"traceparent", s>>
IsStamp(piece) == piece[1] = "traceparent"
NilError == <<>>

\* ErrorOriginRegex, over a whole text.
ParseErrorOrigins(text) ==
    LET stamps == SelectSeq(text, IsStamp) IN [i \in DOMAIN stamps |-> stamps[i][2]]
Unstamped(text) == SelectSeq(text, LAMBDA piece : ~IsStamp(piece))
TrackOrigin(err, s) == Append(err, Stamp(s))

\* Mutant: every function on the way stamps the error.
EndWithCauseAgain(s, err) ==
    [status |-> IF err = NilError THEN "ok" ELSE "error", desc |-> Unstamped(err),
     links |-> SelectSeq(ParseErrorOrigins(err), LAMBDA o : o # s),
     err |-> IF err = NilError THEN err ELSE TrackOrigin(err, s)]

\* The status, description and links of the span, and what *errPtr is afterwards.
EndWithCause(s, err) ==
    LET origins == ParseErrorOrigins(err)
    IN  IF err = NilError
        THEN [status |-> "ok", desc |-> <<>>, links |-> <<>>, err |-> err]
        ELSE IF origins # <<>>
        THEN [status |-> "error", desc |-> Unstamped(err), err |-> err,
              links |-> SelectSeq(origins, LAMBDA o : o # s)]
        ELSE [status |-> "error", desc |-> err, links |-> <<>>, err |-> TrackOrigin(err, s)]

-----------------------------------------------------------------------------
MsgLine(form, name, text) == [form |-> form, name |-> name, text |-> text]
PlainLine(text) == MsgLine("line", "", text)
Blank(line) == line.form = "line" /\ line.text = <<>>

TrimSpace(msg) ==
    LET solid == {i \in DOMAIN msg : ~Blank(msg[i])}
        first == CHOOSE i \in solid : \A j \in solid : i <= j
        last == CHOOSE i \in solid : \A j \in solid : i >= j
    IN  IF solid = {} THEN <<>> ELSE SubSeq(msg, first, last)

\* Line i belongs to the section of the last line up to it that starts one, or
\* to none if that line only has its tab.
InWanted(msg, i) ==
    \E j \in 1 .. i :
        /\ msg[j].form = "section" /\ msg[j].name \in {"Error", "Messages"}
        /\ \A k \in j + 1 .. i : msg[k].form \notin {"section", "tab"}

cleanErrorMessage(msg) ==
    LET testify == \E i \in DOMAIN msg : msg[i].form \in {"section", "tab"} /\ msg[i].name = "Error"
        kept == {i \in DOMAIN msg : msg[i].form \in {"section", "more"} /\ msg[i].text # <<>>
                                      /\ InWanted(msg, i)}
        result == [n \in 1 .. Len(msg) |-> IF n \in kept THEN <<PlainLine(msg[n].text)>> ELSE <<>>]
    IN  IF testify /\ kept # {} THEN FlattenSeq(result) ELSE TrimSpace(msg)
=============================================================================
