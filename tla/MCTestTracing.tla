--------------------------- MODULE MCTestTracing ---------------------------
(* A test with two subtests that may be parallel, and a test that calls    *)
(* functions; what the spans say of them.                                  *)
EXTENDS TestTracing

MCParentTest == [t \in Tests |-> IF t \in {"child", "other"} THEN "test" ELSE Main]

\* t.Error(err), require.NoError(t, err, "..."), and text that only looks like
\* a section.
Section(name, text) == MsgLine("section", name, text)
More(text) == MsgLine("more", "", text)
Testify(err) ==
    <<PlainLine(<<>>), Section("Error Trace", <<Word("trace")>>), More(<<Word("trace")>>),
      Section("Error", <<Word("unexpected")>>), More(err), More(<<>>),
      Section("Test", <<Word("name")>>), Section("Messages", <<Word("more")>>), PlainLine(<<>>)>>
MCForms(err) ==
    {<<PlainLine(err), PlainLine(<<>>)>>, Testify(err),
     <<MsgLine("tab", "Error", <<Word("like")>>), More(err)>>}

\* Two parallel subtests; a helper that outlives its function; nested functions.
Counts(ts) == [t \in Tests |-> IF t \in ts THEN 1 ELSE 0]
MCPrograms ==
    {[run |-> {"test", "child", "other"}, errors |-> Counts({"child", "other"}), helpers |-> {}, ends |-> {"test"}],
     [run |-> {"test", "child"}, errors |-> Counts({"test", "child"}), helpers |-> {"test", "child"},
      ends |-> {"child"}],
     [run |-> {"test", "f", "g", "h"}, errors |-> Counts({"test"}), helpers |-> {}, ends |-> {}]}

-----------------------------------------------------------------------------
Texts(msg) == [i \in DOMAIN msg |-> msg[i].text]

\* An error, wrapped, joined and reported, leads to the functions it came from:
\* a function that failed with errors of others has links to these functions'
\* spans, to no other, and a description without stamps; the one an error came
\* from has none. The exception is a function that joined an error of its own
\* with one it was returned: EndWithCause finds a stamp there and adds none, so
\* that its own error is in the text and no link leads to it. A test that failed
\* before its span ended describes every error reported to it, with its stamps,
\* once and in order, without testify's trace.
Makers(text) == {f \in Functions : Contains(text, Word(f))}
Stamps(g) == Makers(span[g].desc) = {g}
OriginsTraced ==
    /\ \A f \in Functions : span[f].status = "error" =>
         /\ Range(span[f].links) = {g \in Makers(span[f].desc) \ {f} : Stamps(g)}
         /\ Unstamped(span[f].desc) = span[f].desc
    /\ \A t \in Tests : \A i \in DOMAIN span[t].desc :
         LET text == span[t].desc[i].text
         IN  Range(ParseErrorOrigins(text)) = {g \in Makers(text) : Stamps(g)}
    /\ \A t \in Tests : Own(t) /\ t \in failed \ late /\ returns[Returned(t)].err = "" =>
         LET texts == Texts(span[t].desc)
         IN  /\ SelectSeq(texts, LAMBDA x : x \in Range(reported[t])) = reported[t]
             /\ {<<Word("trace")>>, <<Word("name")>>} \cap Range(texts) = {}
=============================================================================
