----------------------------- MODULE VoiceTurns -----------------------------
(* Who may speak next on a voice call (src/src/voice/broker.ts).           *)
(* The relay watches a call over a sideband socket and asks the provider   *)
(* for every response of a browser call: the greeting, the answer to what  *)
(* the person said or typed, the continuation after a tool, and the        *)
(* relay's own nudges. What it knows of the call arrives in events that    *)
(* cross its requests. On a telephone call ("mcp") the provider answers    *)
(* the person by itself and runs the tools; the relay greets, continues    *)
(* after tools and nudges.                                                 *)
(* A response makes at most one tool call and lends it its number.         *)
EXTENDS Integers, Sequences, FiniteSets

CONSTANTS MaxSpeech,        \* times the person speaks
          MaxTyped,         \* texts typed into a browser call
          MaxNudges,        \* lines the relay injects
          MaxTools,         \* tool calls the model makes
          MaxFailures,      \* responses that end without completing by themselves
          MaxRepeats,       \* response.done events that arrive a second time
          MaxRestarts,      \* restarts of the relay
          MaxSpent,         \* all of these together
          MaxLag            \* events on their way to the relay

VARIABLES stored,   \* the stored record: the call survives a restart through it
          rt,       \* the relay's runtime for the call
          prov,     \* the provider's side of the call
          up, down, \* requests and events on their way
          begun,    \* tool calls this relay process began
          cutOver,  \* responses spoken over, and nothing typed since
          used      \* what has been spent of each bound

voiceVars == <<stored, rt, prov, up, down, begun, cutOver, used>>

-----------------------------------------------------------------------------
NoCall == [mode |-> "none", ready |-> FALSE, greeted |-> FALSE]

NoRuntime == [live |-> FALSE]

\* A runtime starts from the stored record and knows nothing of what the
\* provider was doing before.
Fresh(c) ==
    [live |-> TRUE, open |-> FALSE, ready |-> c.ready, toolsReady |-> c.mode = "function",
     greeted |-> c.greeted, started |-> c.greeted, active |-> FALSE, done |-> FALSE,
     hadTool |-> FALSE, respId |-> 0, epoch |-> 0, speaking |-> FALSE, waiting |-> FALSE,
     turn |-> FALSE, finished |-> {}, playing |-> FALSE, typed |-> 0, pending |-> 0,
     tools |-> {}, handled |-> {}]

Managed == stored.mode = "function"   \* the relay schedules every response

QuietProvider ==
    [resp |-> 0, next |-> 1, stage |-> 0, cut |-> FALSE, user |-> "quiet", owed |-> FALSE,
     sound |-> "none", listed |-> FALSE, mcp |-> {}, last |-> 0]

Nothing == [speech |-> 0, typed |-> 0, nudges |-> 0, tools |-> 0,
            failures |-> 0, repeats |-> 0, restarts |-> 0]

VoiceInit ==
    /\ stored = NoCall /\ rt = NoRuntime /\ prov = QuietProvider
    /\ up = <<>> /\ down = <<>>
    /\ begun = {} /\ cutOver = {} /\ used = Nothing

Spent == used.speech + used.typed + used.nudges + used.tools
            + used.failures + used.repeats + used.restarts

Spend(what) == Spent < MaxSpent /\ used' = [used EXCEPT ![what] = @ + 1]

-----------------------------------------------------------------------------
(* The relay. A handler takes the runtime and the requests already sent    *)
(* and returns both: m = [r |-> runtime, out |-> requests].                *)

Sends(m, op) == IF m.r.open THEN [m EXCEPT !.out = Append(@, [op |-> op])] ELSE m

MayCreate(r) == ~r.active /\ ~r.speaking /\ ~r.waiting /\ r.open

CreateResponse(m) ==
    IF MayCreate(m.r)
    THEN Sends([m EXCEPT !.r.active = TRUE, !.r.done = FALSE, !.r.hadTool = FALSE], "create")
    ELSE m

MaybeStart(m) ==
    IF m.r.open /\ m.r.ready /\ m.r.toolsReady /\ ~m.r.started
    THEN LET c == CreateResponse(m) IN [c EXCEPT !.r.started = MayCreate(m.r)]
    ELSE m

\* A nudge waits for the tools, the greeting, the person and the speaker.
Flush(m) ==
    IF /\ m.r.toolsReady /\ m.r.greeted /\ MayCreate(m.r) /\ ~m.r.playing
       /\ m.r.pending > 0
    THEN CreateResponse([m EXCEPT !.r.pending = @ - 1])
    ELSE m

RunningNow(r) == {t \in r.tools : t.epoch = r.epoch}

ContinueAfterTools(m) ==
    IF /\ m.r.done /\ m.r.hadTool /\ ~m.r.speaking /\ ~m.r.waiting
       /\ RunningNow(m.r) = {}
    THEN CreateResponse([m EXCEPT !.r.done = FALSE, !.r.hadTool = FALSE])
    ELSE m

FlushTyped(m) ==
    IF ~m.r.active /\ m.r.typed > 0
    THEN CreateResponse([m EXCEPT !.r.typed = 0])
    ELSE m

RespondToUser(m) ==
    IF m.r.turn
    THEN LET c == CreateResponse(m) IN [c EXCEPT !.r.turn = ~MayCreate(m.r)]
    ELSE m

-----------------------------------------------------------------------------
(* Tools. A browser call's tool is announced by up to three events and run *)
(* by the relay; of = 0 when the announcing event names no response.       *)

NeverTooLate(r, of) == FALSE

TooLate(r, of) ==
    \/ r.speaking \/ r.waiting
    \/ of # 0 /\ (of \in r.finished \/ (r.respId # 0 /\ of # r.respId))

\* A tool that is too late is answered "interrupted" and not run.
StartFunction(m, id, of) ==
    IF id \in m.r.handled THEN m
    ELSE LET h == [m EXCEPT !.r.handled = @ \cup {id}]
         IN  IF TooLate(m.r, of) THEN h
             ELSE [h EXCEPT !.r.tools = @ \cup {[id |-> id, epoch |-> m.r.epoch]},
                            !.r.hadTool = TRUE]

\* A tool the provider ran itself has ended.
FinishTool(m, id) ==
    LET known == {t \in m.r.tools : t.id = id}
        f     == [m EXCEPT !.r.tools = @ \ known]
    IN  IF \E t \in known : t.epoch = m.r.epoch
        THEN ContinueAfterTools([f EXCEPT !.r.hadTool = TRUE])
        ELSE f

-----------------------------------------------------------------------------
(* What each event does to the runtime.                                    *)

SpeechStarted(m) ==
    [m EXCEPT !.r.epoch = @ + 1, !.r.speaking = TRUE, !.r.waiting = TRUE,
              !.r.done = FALSE, !.r.hadTool = FALSE]

CommittedAnswersNow(m) == IF Managed THEN CreateResponse([m EXCEPT !.r.waiting = FALSE]) ELSE m

Committed(m) ==
    IF Managed THEN RespondToUser([m EXCEPT !.r.waiting = FALSE, !.r.turn = TRUE]) ELSE m

Created(m, e) ==
    LET c == [m EXCEPT !.r.active = TRUE, !.r.respId = e.id,
                       !.r.done = FALSE, !.r.hadTool = FALSE]
    IN  IF ~Managed THEN [c EXCEPT !.r.waiting = FALSE]
        ELSE IF m.r.speaking \/ m.r.waiting THEN Sends(c, "cancel")
        ELSE c

\* The response is over for the runtime: first what the person wants, then
\* the tools it called, then a nudge.
AfterResponse(m, e) ==
    LET c == IF ~e.call THEN m
             ELSE IF Managed THEN StartFunction(m, e.id, 0)
             ELSE [m EXCEPT !.r.hadTool = TRUE]
    IN  IF m.r.typed > 0 THEN FlushTyped(m)
        ELSE IF m.r.turn THEN RespondToUser(m)
        ELSE IF ~m.r.done \/ m.r.waiting THEN [m EXCEPT !.r.hadTool = FALSE]
        ELSE IF c.r.hadTool THEN ContinueAfterTools(c)
        ELSE Flush([c EXCEPT !.r.done = FALSE, !.r.greeted = TRUE])

CountsAgain(r, e) == r.respId = 0 \/ e.id = r.respId

\* The end of a response counts once, and only of the response under way.
Counts(r, e) == e.id \notin r.finished /\ CountsAgain(r, e)

ResponseDone(m, e) ==
    LET f == [m EXCEPT !.r.finished = @ \cup {e.id}]
    IN  IF Counts(m.r, e)
        THEN AfterResponse([f EXCEPT !.r.active = FALSE, !.r.respId = 0, !.r.done = e.ok], e)
        ELSE f

Handle(m, e) ==
    CASE e.t = "speech_started" -> SpeechStarted(m)
      [] e.t = "speech_stopped" -> [m EXCEPT !.r.speaking = FALSE]
      [] e.t = "committed"      -> Committed(m)
      [] e.t = "audio_started"  -> [m EXCEPT !.r.playing = TRUE]
      [] e.t = "audio_stopped"  -> Flush([m EXCEPT !.r.playing = FALSE])
      [] e.t = "tools_listed"   -> Flush(MaybeStart([m EXCEPT !.r.toolsReady = TRUE]))
      [] e.t = "created"        -> Created(m, e)
      [] e.t = "function_call"  -> StartFunction(m, e.id, e.id)
      [] e.t = "mcp_started"    -> [m EXCEPT !.r.hadTool = TRUE,
                                     !.r.tools = @ \cup {[id |-> e.id, epoch |-> m.r.epoch]}]
      [] e.t = "mcp_ended"      -> FinishTool(m, e.id)
      [] e.t = "done"           -> ResponseDone(m, e)

Runtime == [r |-> rt, out |-> up]

\* A handler ran to its end; a tool it added began if the relay runs tools.
Becomes(m) ==
    /\ rt' = m.r /\ up' = m.out
    /\ stored' = [stored EXCEPT !.greeted = @ \/ m.r.greeted, !.ready = @ \/ m.r.ready]
    /\ begun' = IF Managed THEN begun \cup {t.id : t \in m.r.tools} ELSE begun

-----------------------------------------------------------------------------
(* The relay's actions.                                                    *)

Live == rt.live

\* registerWebRtc, or accept for a telephone call; the record is stored and
\* the sideband attached.
Registers(mode) ==
    /\ stored = NoCall /\ used = Nothing /\ prov.next = 1 /\ ~prov.listed
    /\ stored' = [mode |-> mode, ready |-> mode = "mcp", greeted |-> FALSE]
    /\ rt' = Fresh(stored')
    /\ prov' = [prov EXCEPT !.listed = mode = "function"]
    /\ UNCHANGED <<up, down, begun, cutOver, used>>

Opens ==
    /\ Live /\ ~rt.open
    /\ LET m == [Runtime EXCEPT !.r.open = TRUE] IN Becomes(Flush(MaybeStart(m)))
    /\ UNCHANGED <<prov, down, cutOver, used>>

\* beginWebRtc: the browser has the answer and the greeting may start. The
\* record is ready even while no runtime is attached.
Begins ==
    /\ stored.mode = "function" /\ ~stored.ready
    /\ IF Live
       THEN Becomes(MaybeStart([Runtime EXCEPT !.r.ready = TRUE]))
       ELSE stored' = [stored EXCEPT !.ready = TRUE] /\ UNCHANGED <<rt, up, begun>>
    /\ UNCHANGED <<prov, down, cutOver, used>>

\* onEvent: the next event of the sideband.
Hears ==
    /\ Live /\ down # <<>>
    /\ LET e == Head(down)
       IN  /\ Becomes(Handle(Runtime, e))
           /\ cutOver' = IF e.t = "speech_started" /\ rt.respId # 0
                         THEN cutOver \cup {rt.respId} ELSE cutOver
    /\ down' = Tail(down)
    /\ UNCHANGED <<prov, used>>

\* The promise of a function tool settles: its output is sent and the model
\* continues, unless the person has said something meanwhile.
ToolReturns ==
    /\ Live /\ Managed
    /\ \E t \in rt.tools :
        LET m == [Runtime EXCEPT !.r.tools = @ \ {t}]
        IN  Becomes(IF t.epoch = rt.epoch THEN ContinueAfterTools(m) ELSE m)
    /\ UNCHANGED <<prov, down, cutOver, used>>

\* sendText: what is typed interrupts what is being said.
TypesText ==
    /\ Live /\ rt.open /\ rt.ready /\ Managed /\ used.typed < MaxTyped
    /\ LET m == [Runtime EXCEPT !.r.epoch = @ + 1, !.r.speaking = FALSE, !.r.waiting = FALSE,
                                !.r.turn = FALSE, !.r.done = FALSE, !.r.hadTool = FALSE,
                                !.r.typed = @ + 1]
           cleared   == Sends(m, "clear_input")
           cancelled == IF rt.active THEN Sends(cleared, "cancel") ELSE cleared
       IN  Becomes(FlushTyped(Sends(cancelled, "clear_output")))
    /\ Spend("typed") /\ cutOver' = {}
    /\ UNCHANGED <<prov, down>>

\* inject: the relay has something to say.
Injects ==
    /\ Live /\ used.nudges < MaxNudges
    /\ Becomes(Flush([Runtime EXCEPT !.r.pending = @ + 1]))
    /\ Spend("nudges")
    /\ UNCHANGED <<prov, down, cutOver>>

\* forget: the observer socket closed or the browser's call was hung up. The
\* call is over for the relay.
Ends ==
    /\ Live \/ Managed
    /\ stored' = NoCall /\ rt' = NoRuntime /\ up' = <<>> /\ down' = <<>>
    /\ prov' = [prov EXCEPT !.listed = TRUE]
    /\ UNCHANGED <<begun, cutOver, used>>

\* The relay stops; what was on its way in either direction is lost.
Stops ==
    /\ Live /\ used.restarts < MaxRestarts
    /\ rt' = NoRuntime /\ up' = <<>> /\ down' = <<>>
    /\ Spend("restarts")
    /\ UNCHANGED <<stored, prov, begun, cutOver>>

\* restore: the next relay attaches to the stored call.
Restores ==
    /\ ~Live /\ stored # NoCall
    /\ rt' = Fresh(stored) /\ begun' = {} /\ cutOver' = {}
    /\ UNCHANGED <<stored, prov, up, down, used>>

-----------------------------------------------------------------------------
(* The provider, as far as the relay's code depends on it: one response at *)
(* a time, events in order, speech cuts a response off, a request for a    *)
(* response is refused while one is under way.                             *)

InCall == stored # NoCall

Watched == Live /\ rt.open

\* Events reach an open sideband only; there is room for MaxLag of them.
Emits(p, es) ==
    /\ Watched => Len(down) + Len(es) <= MaxLag
    /\ prov' = p
    /\ down' = IF Watched THEN down \o es ELSE down

Answering == prov.resp # 0

Respond(p) ==
    [p EXCEPT !.resp = p.next, !.next = @ + 1, !.stage = 0, !.cut = FALSE, !.owed = FALSE,
              !.sound = IF @ = "over" THEN "none" ELSE @]

\* The provider takes the relay's next request.
ReadsCreate ==
    /\ up # <<>> /\ Head(up).op = "create"
    /\ IF Answering THEN Emits(prov, <<>>)
       ELSE Emits(Respond(prov), << [t |-> "created", id |-> prov.next] >>)
    /\ up' = Tail(up)
    /\ UNCHANGED <<stored, rt, begun, cutOver, used>>

ReadsCancel ==
    /\ up # <<>> /\ Head(up).op = "cancel"
    /\ Emits([prov EXCEPT !.cut = Answering], <<>>)
    /\ up' = Tail(up)
    /\ UNCHANGED <<stored, rt, begun, cutOver, used>>

\* What was said and not yet committed is dropped; so is what is played.
ReadsClear ==
    /\ up # <<>> /\ Head(up).op \in {"clear_input", "clear_output"}
    /\ IF Head(up).op = "clear_input"
       THEN Emits([prov EXCEPT !.user = "quiet", !.owed = FALSE], <<>>)
       ELSE Emits([prov EXCEPT !.sound = "over"],
                  IF prov.sound = "on" THEN << [t |-> "audio_stopped"] >> ELSE <<>>)
    /\ up' = Tail(up)
    /\ UNCHANGED <<stored, rt, begun, cutOver, used>>

\* A telephone call's tools are imported once.
ListsTools ==
    /\ InCall /\ ~prov.listed
    /\ Emits([prov EXCEPT !.listed = TRUE], << [t |-> "tools_listed"] >>)
    /\ UNCHANGED <<stored, rt, up, begun, cutOver, used>>

\* The sideband is attached before the browser has its answer, so the first
\* words find it open.
Speaks ==
    /\ InCall /\ prov.user = "quiet" /\ used.speech < MaxSpeech
    /\ Watched \/ used.restarts > 0
    /\ Emits([prov EXCEPT !.user = "speaking", !.cut = Answering],
             << [t |-> "speech_started"] >>)
    /\ Spend("speech")
    /\ UNCHANGED <<stored, rt, up, begun, cutOver>>

FallsSilent ==
    /\ InCall /\ prov.user = "speaking"
    /\ Emits([prov EXCEPT !.user = "quiet", !.owed = TRUE],
             << [t |-> "speech_stopped"], [t |-> "committed"] >>)
    /\ UNCHANGED <<stored, rt, up, begun, cutOver, used>>

\* Of a telephone call the provider answers a committed turn by itself.
AnswersTurn ==
    /\ InCall /\ ~Managed /\ prov.owed /\ ~Answering
    /\ Emits(Respond(prov), << [t |-> "created", id |-> prov.next] >>)
    /\ UNCHANGED <<stored, rt, up, begun, cutOver, used>>

\* The model calls a function: its arguments are done, then its item is. Of a
\* response that was cut off this is still on its way only while the person
\* speaks.
CallsFunction ==
    /\ InCall /\ Managed /\ Answering /\ prov.stage < 2
    /\ prov.cut => prov.user = "speaking"
    /\ IF prov.stage = 0 THEN used.tools < MaxTools /\ Spend("tools") ELSE UNCHANGED used
    /\ Emits([prov EXCEPT !.stage = @ + 1], << [t |-> "function_call", id |-> prov.resp] >>)
    /\ UNCHANGED <<stored, rt, up, begun, cutOver>>

\* The model calls a remote tool, which runs beside the response.
CallsRemoteTool ==
    /\ InCall /\ ~Managed /\ prov.listed /\ Answering /\ ~prov.cut /\ prov.stage = 0
    /\ used.tools < MaxTools
    /\ Emits([prov EXCEPT !.stage = 2, !.mcp = @ \cup {prov.resp}],
             << [t |-> "mcp_started", id |-> prov.resp] >>)
    /\ Spend("tools")
    /\ UNCHANGED <<stored, rt, up, begun, cutOver>>

RemoteToolEnds ==
    /\ InCall
    /\ \E id \in prov.mcp :
        Emits([prov EXCEPT !.mcp = @ \ {id}], << [t |-> "mcp_ended", id |-> id] >>)
    /\ UNCHANGED <<stored, rt, up, begun, cutOver, used>>

\* A response is played once, and may sound longer than it takes to make.
Plays ==
    /\ InCall /\ Answering /\ ~prov.cut /\ prov.sound = "none"
    /\ Emits([prov EXCEPT !.sound = "on"], << [t |-> "audio_started"] >>)
    /\ UNCHANGED <<stored, rt, up, begun, cutOver, used>>

FallsQuiet ==
    /\ InCall /\ prov.sound = "on"
    /\ Emits([prov EXCEPT !.sound = "over"], << [t |-> "audio_stopped"] >>)
    /\ UNCHANGED <<stored, rt, up, begun, cutOver, used>>

Over(ok) ==
    Emits([prov EXCEPT !.resp = 0, !.last = prov.resp],
          << [t |-> "done", id |-> prov.resp, ok |-> ok, call |-> prov.stage > 0] >>)

\* The response ends: as it should, cut off, or failed by itself.
Completes ==
    /\ InCall /\ Answering /\ ~prov.cut /\ prov.stage # 1
    /\ Over(TRUE)
    /\ UNCHANGED <<stored, rt, up, begun, cutOver, used>>

IsCutOff ==
    /\ InCall /\ Answering /\ prov.cut
    /\ Over(FALSE)
    /\ UNCHANGED <<stored, rt, up, begun, cutOver, used>>

Fails ==
    /\ InCall /\ Answering /\ ~prov.cut /\ used.failures < MaxFailures
    /\ Over(FALSE) /\ Spend("failures")
    /\ UNCHANGED <<stored, rt, up, begun, cutOver>>

\* The end of the last response is told a second time.
RepeatsDone ==
    /\ InCall /\ prov.last # 0 /\ used.repeats < MaxRepeats
    /\ Emits(prov, << [t |-> "done", id |-> prov.last, ok |-> FALSE, call |-> FALSE] >>)
    /\ Spend("repeats")
    /\ UNCHANGED <<stored, rt, up, begun, cutOver>>

-----------------------------------------------------------------------------
ProviderNext ==
    \/ ReadsCreate \/ ReadsCancel \/ ReadsClear \/ ListsTools
    \/ Speaks \/ FallsSilent \/ AnswersTurn
    \/ CallsFunction \/ CallsRemoteTool \/ RemoteToolEnds
    \/ Plays \/ FallsQuiet \/ Completes \/ IsCutOff \/ Fails \/ RepeatsDone

VoiceNext ==
    \/ \E mode \in {"function", "mcp"} : Registers(mode)
    \/ Opens \/ Begins \/ Hears \/ ToolReturns \/ TypesText \/ Injects
    \/ Ends \/ Stops \/ Restores
    \/ ProviderNext

VoiceSpec == VoiceInit /\ [][VoiceNext]_voiceVars

\* The event loop runs, the socket opens, the provider gets on with what it is
\* asked and a person stops speaking at some time. Nothing makes a person
\* speak, a tool be called or a response fail.
ProviderWorks ==
    \/ ReadsCreate \/ ReadsCancel \/ ReadsClear
    \/ FallsSilent \/ AnswersTurn \/ CallsFunction \/ Completes \/ IsCutOff

VoiceFairness == WF_voiceVars(Opens) /\ WF_voiceVars(Hears) /\ WF_voiceVars(ProviderWorks)

VoiceFairSpec == VoiceSpec /\ VoiceFairness

-----------------------------------------------------------------------------
NeverRestarted == used.restarts = 0

\* A browser call's provider is never asked for a response while one is under
\* way, whatever crosses whatever: the refusal would be silence. (A restarted
\* relay does not know whether one is.)
OneResponseAtATime ==
    Managed /\ NeverRestarted /\ up # <<>> /\ Head(up).op = "create" => ~Answering

\* However often a tool call is announced it is begun once, and not at all
\* when the person was heard to speak over its response and has typed nothing
\* since (what is typed lifts the bar that speech put up).
ToolBeginsOnce ==
    [][Hears /\ Managed =>
        /\ \A t \in rt'.tools \ rt.tools : t.id \notin begun
        /\ begun' \cap cutOver' \subseteq begun]_voiceVars

\* The next response waits for the tools: none is asked for, unless the
\* person wants it, while a tool of the current turn is running. (The comment
\* of continueAfterTools: "OpenAI may finish the response before or after its
\* tool calls. Both are a barrier.")
ToolsAreABarrier ==
    [][Len(up') > Len(up) /\ up'[Len(up')].op = "create"
       /\ rt'.epoch = rt.epoch /\ ~rt.turn /\ rt.typed = 0 /\ Live =>
          RunningNow(rt') = {}]_voiceVars

\* What a person said is answered, unless they type instead, the call ends or
\* the relay restarts.
TurnIsAnswered == prov.owed ~> (~prov.owed \/ ~InCall \/ ~NeverRestarted)
=============================================================================
