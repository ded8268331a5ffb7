-------------------------------- MODULE Startup --------------------------------
(***************************************************************************)
(* What the environment makes of the service: giljobe.server's __main__,   *)
(* app, config and token, the factories of the two measuring lanes, and    *)
(* the modes of the TurnWindower.  env maps the variables that are set,    *)
(* and the files and packages that are there, to their values; an          *)
(* exception is Refused.                                                   *)
(***************************************************************************)
EXTENDS Fractions

Refused == <<>>
IsSet(env, var) == var \in DOMAIN env

\* _build_transcriber, and GemmaNative for its None: a value that is none of
\* the three does not start.
BuildTranscriber(env) ==
  LET mode == Get(env, "STT", "gemma") IN
  CASE mode = "gemma" -> <<"gemma">>
    [] mode = "whisper" -> <<"whisper">>
    [] mode = "auto" -> <<"gemma", "whisper">>
    [] OTHER -> Refused

\* FasterWhisperTranscriber.transcribe, with a model that loads or does not.
Whisper(env, pcm, rate) ==
  IF pcm = <<>> THEN "" ELSE IF rate # 16 \/ ~IsSet(env, "faster_whisper") THEN "raises" ELSE "text"

\* maybe_vision_grounder: the detectors it runs.
VisionLane(env) ==
  LET models == Get(env, "VISION_MODELS_DIR", {}) IN
  IF Get(env, "VISION", "auto") = "off" \/ ~({"face", "pose"} \subseteq models) \/ ~IsSet(env, "mediapipe") THEN {}
  ELSE models \intersect {"face", "pose", "hand"}

\* maybe_prosody_extractor
ProsodyLane(env) == Get(env, "PROSODY", "auto") # "off" /\ IsSet(env, "parselmouth")

\* _make_lanes, at every start.
MakeLanes(env) == [vision |-> VisionLane(env), prosody |-> ProsodyLane(env)]

-----------------------------------------------------------------------------
RoomName(session) == <<"giljob-session-", session>>

\* subscriber_token: joins one room, unseen, and publishes nothing.
SubscriberToken(room) == [room |-> room, hidden |-> TRUE, grants |-> {"join", "subscribe"}]

\* Faulty variant: the room of the default session.
TokenForLocal(env, room) ==
  IF IsSet(env, "API_KEY") /\ IsSet(env, "API_SECRET") THEN SubscriberToken(RoomName("local")) ELSE None

\* resolve_token: one that was issued is used as it is, else one is made.
ResolveToken(env, room) ==
  IF IsSet(env, "TOKEN") THEN env.TOKEN
  ELSE IF IsSet(env, "API_KEY") /\ IsSet(env, "API_SECRET") THEN SubscriberToken(room)
  ELSE None

\* SubscriberConfig.from_env, for the session of a request.
FromEnv(env, session) ==
  [session_id |-> session, room |-> RoomName(session), token |-> ResolveToken(env, RoomName(session))]

-----------------------------------------------------------------------------
LaneNames == {"nv", "stt", "eval", "tail"}

\* The executors of a windower that is given some: with none for nv it makes
\* its own, of two threads, the tail's of one; else it takes all four or none.
Executors(given) ==
  IF "nv" \notin given THEN [l \in LaneNames |-> <<"own", IF l = "tail" THEN 1 ELSE 2>>]
  ELSE IF given # LaneNames THEN Refused
  ELSE [l \in LaneNames |-> <<"given">>]

\* Faulty variant: sentences are counted for an evaluation in every mode.
SentenceEvalAnyMode(external, grid) == grid = "sentence"

SentenceEval(external, grid) == external /\ grid = "sentence"

\* TurnWindower.__init__: its modes, and from them who hears the words and who
\* evaluates while the turn lasts (poll, _submit_sentences) and at its end.
Windower(source, grid, given) ==
  LET external == source = "external" IN
  [executors |-> Executors(given),
   tracker |-> external,
   words |-> IF external THEN {"sentences"} ELSE {"nv and stt grid"},
   evals |-> (IF SentenceEval(external, grid) \/ grid = "off" THEN {} ELSE {"wall grid"})
             \union (IF SentenceEval(external, grid) THEN {"sentence count"} ELSE {}),
   tail |-> grid # "off"]

\* build_subscriber, with the lanes of _make_lanes: what the environment does
\* not say is internal, on the wall grid, at one frame a second.
BuildSubscriber(env, session, given) ==
  [config |-> FromEnv(env, session),
   windower |-> Windower(Get(env, "TRANSCRIPT_SOURCE", "internal"), Get(env, "EVAL_GRID", "wall"), given),
   lanes |-> MakeLanes(env),
   fps |-> Get(env, "FRAME_FPS", 1)]

=============================================================================
