------------------------------ MODULE MCFronts ------------------------------
(* The frontends side by side: the HTTP server, its event fan-out and the  *)
(* chat terminal.  A behaviour moves one of them, focus; the others stay   *)
(* in their initial states.                                                *)
EXTENDS Naturals, FiniteSets

CONSTANTS
  Foci,                                                    \* the parts that may move
  Plain, Refs, Goals, MaxTurns, MaxReplies, MaxPrompts, MaxChan, MaxShown,   \* ChatTui
  Submits, Switches, Approvals, MaxAsks, Subs, Emitters, Buffer, MaxFrames   \* HttpServer

\* No line reads as an absent one, or as what the terminal says to a goal,
\* and no emitter as the absence of one.
ASSUME FrontsAssumption ==
  /\ MaxTurns \in Nat /\ {"none", "echo"} \cap (Plain \cup Refs \cup Goals) = {}
  /\ IsFiniteSet(Switches) /\ Buffer \in Nat /\ "nobody" \notin Emitters

VARIABLES
  focus,
  state, input, transcript, bubble, turnDiscarded, prompt, rewind, resolving, running, ending,
  cancelled, waiting, line, replies, askedBy, eventCh, heard, unsent, crossed,
  overtaken,
  ctrl, built, history, turn, asked, hWaiting, closed, retiring, saved, req, has, carry,
  shown, click, decided, raced,
  mu, left, emitted, tabs, since, buffer, got, dropped

Tui == INSTANCE ChatTui

Http == INSTANCE HttpServer WITH waiting <- hWaiting

tuiVars == <<state, input, transcript, bubble, turnDiscarded, prompt, rewind, resolving, running,
             ending, cancelled, waiting, line, replies, askedBy, eventCh, heard, unsent, crossed,
             overtaken>>
httpVars == <<ctrl, built, history, turn, asked, hWaiting, closed, retiring, saved, req, has,
              carry, shown, click, decided, raced>>
fanVars == <<mu, left, emitted, tabs, since, buffer, got, dropped>>
mcVars == <<focus, tuiVars, httpVars, fanVars>>

MCInit == focus \in Foci /\ Tui!Init /\ Http!Init /\ Http!FanInit

MCNext ==
  /\ UNCHANGED focus
  /\ \/ focus = "tui" /\ Tui!Next /\ UNCHANGED <<httpVars, fanVars>>
     \/ focus = "http" /\ Http!Next /\ UNCHANGED <<tuiVars, fanVars>>
     \/ focus = "fan" /\ Http!FanNext /\ UNCHANGED <<tuiVars, httpVars>>

MCSpec == MCInit /\ [][MCNext]_mcVars /\ Tui!Fairness /\ Http!Fairness

(* What a client sees is what the session did: TranscriptTrue of the       *)
(* terminal, until a turn is begun or refused behind its back, and InOrder *)
(* of the event stream.                                                    *)
ViewIsTrue == Tui!TranscriptTrue /\ Http!InOrder

(* A client's idea of which turn runs and which prompt waits is right, but *)
(* for turns that overtook the TurnDone before them and prompts of a       *)
(* cancelled turn, and its answer decides the prompt it was given to.      *)
CommandsMeetTheirTurn ==
  Tui!IdleMeansIdle /\ Tui!BusyMeansBusy /\ Tui!PromptIsLive /\ Http!DecidedAsShown

(* A switch of models loses neither the conversation, but for a prompt     *)
(* that joins it after the switch has read it, nor a controller.           *)
SwitchIsClean == Http!ConversationCarried /\ Http!OneCurrent

(* Nothing is sent into the channel of a client that has gone, while an    *)
(* emitter goes from tab to tab.                                           *)
NothingForTheGone == Http!NoSendAfterClose

(* The terminal settles, and a retired controller is closed.               *)
FrontsSettle == Tui!Settle /\ Http!RetiredAreClosed
=============================================================================
