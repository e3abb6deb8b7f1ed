----------------------------- MODULE PageEnhance -----------------------------
(***************************************************************************)
(* Rewriting of responses in the reverse proxy (internal/pageenhance):     *)
(* ApplyResponseWithMeta runs the configured transforms and then the       *)
(* custom transformers that match a response, each of which may change     *)
(* headers and body, be skipped, or fail.                                  *)
(*                                                                         *)
(* A body is the sequence of the changes made to it, <<>> for what the     *)
(* upstream sent; a Content-Length is the length of the body it was        *)
(* computed for.  Edits of headers are of others than Content-Length and   *)
(* ETag.                                                                   *)
(***************************************************************************)
EXTENDS Naturals, Sequences, Functions

CONSTANTS
    Transforms,     \* [name, header, body]: which of the two it works on
    Customs,        \* [name, body]: body is NeedsBody()
    OnErrors        \* the on_error settings in use

ASSUME PageAssumption ==
    /\ \A i \in DOMAIN Transforms : {Transforms[i].header, Transforms[i].body} \subseteq BOOLEAN
    /\ \A i \in DOMAIN Customs : Customs[i].body \in BOOLEAN
    /\ OnErrors \subseteq {"pass_through", "fail_closed"}

VARIABLES
    onError,    \* Pipeline.cfg.OnError
    page        \* the response and one run of ApplyResponseWithMeta

pageVars == <<onError, page>>

Original == [edits |-> {}, etag |-> TRUE, length |-> 0]

\* header, sent, status and cut belong to the response: its headers, its body,
\* its status code, and whether reading the body has consumed it.  body and kept
\* are the local variables body and originalBody.  byHand is history: a custom
\* transformer has changed something else than headers without reporting it.
NoPage == [pc |-> "idle", left |-> <<>>, customs |-> <<>>,
           header |-> Original, sent |-> <<>>, status |-> "upstream", cut |-> FALSE,
           byHand |-> FALSE,
           body |-> <<>>, kept |-> <<>>, loaded |-> FALSE, modified |-> FALSE,
           failed |-> FALSE, result |-> "none"]

PageInit == onError \in OnErrors /\ page = NoPage

-----------------------------------------------------------------------------

\* setResponseBody
SetBody(p, body) == [p EXCEPT !.sent = body, !.header.length = Len(body)]

\* Defect: restore uses the body the transforms worked on.
RestoreCurrent(p) ==
    LET q == [p EXCEPT !.header = Original]
    IN IF p.loaded THEN SetBody(q, p.body) ELSE q

\* restore: the headers as they came and, once it was read, the body.
RestoreResponse(p) ==
    LET q == [p EXCEPT !.header = Original]
    IN IF p.loaded THEN SetBody(q, p.kept) ELSE q

\* An error on the way.
Fail(p) ==
    LET q == [p EXCEPT !.pc = "done", !.failed = TRUE]
    IN IF onError = "fail_closed" THEN [q EXCEPT !.result = "error"]
         ELSE [RestoreResponse(q) EXCEPT !.result = "nil"]

SetPage(p) == page' = p /\ UNCHANGED onError

\* matchingTransforms and matchingCustomTransformers; nothing else happens when
\* none matches.
MatchResponse ==
    /\ page.pc = "idle"
    /\ \E ts \in SUBSET Range(Transforms), cs \in SUBSET Range(Customs) :
          LET needsBody == \E t \in ts \cup cs : t.body
          IN SetPage([page EXCEPT
                    !.left = SelectSeq(Transforms, LAMBDA t : t \in ts),
                    !.customs = SelectSeq(Customs, LAMBDA t : t \in cs),
                    !.pc = CASE ts \cup cs = {} -> "done"
                             [] needsBody -> "read"
                             [] OTHER -> "apply",
                    !.result = IF ts \cup cs = {} THEN "nil" ELSE "none"])

\* readBody: the whole body, copied before anything changes it; or left in place
\* (none, encoded, or over max_body_size, when what was read is put back); or an
\* error, after which the body is closed.
ReadBody ==
    /\ page.pc = "read"
    /\ \/ SetPage([page EXCEPT !.pc = "apply", !.loaded = TRUE])
       \/ SetPage([page EXCEPT !.pc = "apply"])
       \/ SetPage(Fail([page EXCEPT !.cut = TRUE]))

\* A body returned as modified.
NewBody(p, name) == [p EXCEPT !.body = Append(@, name), !.modified = TRUE]

\* One configured transform: applyHeaders, then applyBodyTransform, which may
\* find nothing to change or fail.
ApplyTransform ==
    /\ page.pc = "apply" /\ page.left # <<>>
    /\ LET t == Head(page.left)
           p == [page EXCEPT !.left = Tail(@),
                    !.header.edits = IF t.header THEN @ \cup {t.name} ELSE @]
       IN \/ SetPage(p)
          \/ /\ t.body /\ page.loaded
             /\ \/ SetPage(Fail(p))
                \/ SetPage(NewBody(p, t.name))

\* What a custom transformer may do with the response and the bytes of the body
\* it has in its hands: change headers, the Body or StatusCode of the response, or
\* the bytes in place.
Handled(p, name, headers, sent, status, bytes) ==
    [p EXCEPT !.header.edits = IF headers THEN @ \cup {name} ELSE @,
              !.sent = IF sent THEN Append(@, name) ELSE @,
              !.status = IF status THEN name ELSE @,
              !.body = IF bytes THEN Append(@, name) ELSE @,
              !.byHand = @ \/ sent \/ status \/ bytes]

\* One custom transformer, skipped without the body it needs: whatever it does to
\* the response, it then fails, returns, or returns another body.
ApplyCustom ==
    /\ page.pc = "apply" /\ page.left = <<>> /\ page.customs # <<>>
    /\ LET name == Head(page.customs).name
           p == [page EXCEPT !.customs = Tail(@)]
       IN \/ Head(page.customs).body /\ ~page.loaded /\ SetPage(p)
          \/ /\ Head(page.customs).body => page.loaded
             /\ \E headers, sent, status, bytes \in BOOLEAN :
                   LET q == Handled(p, name, headers, sent, status, bytes)
                   IN /\ bytes => page.loaded
                      /\ SetPage(q) \/ SetPage(Fail(q)) \/ SetPage(NewBody(q, name))

\* The end: a changed body goes into the response without the validators of the
\* old one; a body that was read goes back.
FinishResponse ==
    /\ page.pc = "apply" /\ page.left = <<>> /\ page.customs = <<>>
    /\ LET p == [page EXCEPT !.pc = "done", !.result = "nil"]
       IN SetPage(CASE page.modified -> [SetBody(p, p.body) EXCEPT !.header.etag = FALSE]
                [] ~page.modified /\ page.loaded -> SetBody(p, p.body)
                [] OTHER -> p)

PageNext == MatchResponse \/ ReadBody \/ ApplyTransform \/ ApplyCustom \/ FinishResponse

PageSpec == PageInit /\ [][PageNext]_pageVars

-----------------------------------------------------------------------------

\* After a failure under on_error: pass_through the headers are the original
\* ones, whatever the transforms before it, or the failing one, had changed.  The
\* body is the original one as well if it had been read, or if no custom
\* transformer had put another in its place; restore leaves such a body alone,
\* and the status code.  Without a failure, under the same conditions, the
\* Content-Length is that of the body, and an ETag is there only for the body the
\* upstream computed it for unless a custom transformer changed one unreported.
\* If reading the body failed (cut) the body is gone and only the headers are back.
PassedOnWhole(p) ==
    p.pc = "done" /\ p.result = "nil" =>
        /\ p.failed => p.header = Original
        /\ ~p.cut /\ (p.loaded \/ ~p.byHand) =>
              /\ p.failed => p.sent = <<>>
              /\ p.header.length = Len(p.sent)
        /\ ~p.byHand => /\ p.status = "upstream"
                        /\ p.header.etag => p.sent = <<>>

\* A response that is passed on is whole, in this sense.
ResponseWhole == PassedOnWhole(page)
=============================================================================
