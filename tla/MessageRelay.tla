---------------------------- MODULE MessageRelay ----------------------------
(***************************************************************************)
(* `deputyctl message-relay`: agents connect to a Unix socket, send one    *)
(* line, the relay runs the hook scripts of that kind one after the other, *)
(* answers with what failed and closes.  One connection at a time, inline; *)
(* reading the line has no time limit, a script has five seconds.          *)
(*                                                                         *)
(* A client's connection goes free, waiting (in the listener's backlog or  *)
(* held by the relay), and back to free when it ends; how it ended is kept *)
(* until the client connects again.                                        *)
(***************************************************************************)
EXTENDS Naturals, Sequences, FiniteSets

CONSTANTS Clients,
          Silent,     \* clients that connect and never send their line
          MaxScripts  \* executable files in a hook directory

VARIABLES listener,  \* is the relay process up and its socket bound
          backlog,   \* connections not yet accepted, oldest first
          serving,   \* the connection the relay is in, or "nobody"
          stage,     \* where it is in handle_connection
          scripts,   \* scripts of this request still to run
          script,    \* what the running script does
          errors,    \* has a script of this request failed
          conn,      \* per client: state of its connection
          line       \* per client: what it has sent

relayVars == <<listener, backlog, serving, stage, scripts, script, errors, conn, line>>

Nobody == "nobody"

(* quick exits with 0, fails with another code, slow never exits; deaf     *)
(* leaves its stdin unread with more payload than a pipe holds, holds      *)
(* exits while a child of its own keeps its stderr open.                   *)
ScriptKinds == {"quick", "fails", "slow", "deaf", "holds"}

RelayInit ==
  /\ listener = TRUE /\ backlog = <<>> /\ serving = Nobody /\ stage = "accept"
  /\ scripts = 0 /\ script = "none" /\ errors = FALSE
  /\ conn = [c \in Clients |-> "free"] /\ line = [c \in Clients |-> "none"]

(* The kernel completes the connection while the relay is elsewhere.       *)
Connect(c) ==
  /\ listener /\ conn[c] \in {"free", "ok", "failed", "closed"}
  /\ conn' = [conn EXCEPT ![c] = "waiting"]
  /\ line' = [line EXCEPT ![c] = "none"]
  /\ backlog' = Append(backlog, c)
  /\ UNCHANGED <<listener, serving, stage, scripts, script, errors>>

Speak(c) ==
  /\ conn[c] = "waiting" /\ line[c] = "none" /\ c \notin Silent
  /\ \E l \in {"request", "garbage"} : line' = [line EXCEPT ![c] = l]
  /\ UNCHANGED <<listener, backlog, serving, stage, scripts, script, errors, conn>>

(* A client leaves before it has spoken, or while its scripts run; leaving *)
(* between the two looks the same to the relay, which reads the line that  *)
(* the kernel kept.                                                        *)
HangUp(c) ==
  /\ conn[c] = "waiting"
  /\ \/ line[c] = "none"
     \/ serving = c /\ stage = "hooks" /\ line[c] # "gone"
  /\ line' = [line EXCEPT ![c] = "gone"]
  /\ UNCHANGED <<listener, backlog, serving, stage, scripts, script, errors, conn>>

(* serve_loop: the next connection, in the order they came.                *)
Accept ==
  /\ listener /\ stage = "accept" /\ backlog # <<>>
  /\ serving' = Head(backlog) /\ backlog' = Tail(backlog) /\ stage' = "read"
  /\ UNCHANGED <<listener, scripts, script, errors, conn, line>>

(* The connection ends, with or without an answer, and the loop goes on.   *)
CloseWith(how) ==
  /\ conn' = [conn EXCEPT ![serving] = how]
  /\ line' = [line EXCEPT ![serving] = "none"]
  /\ serving' = Nobody /\ stage' = "accept"

(* handle_connection: nothing to read ends it; a line that is not a request*)
(* is answered as such; a request is processed.                            *)
handle_connection ==
  /\ stage = "read" /\ line[serving] # "none"
  /\ \/ /\ line[serving] = "gone" /\ CloseWith("closed")
        /\ UNCHANGED <<scripts, errors>>
     \/ /\ line[serving] = "garbage" /\ CloseWith("failed")
        /\ UNCHANGED <<scripts, errors>>
     \/ /\ line[serving] = "request"
        /\ stage' = "hooks" /\ errors' = FALSE
        /\ scripts' \in 0 .. MaxScripts
        /\ UNCHANGED <<conn, line, serving>>
  /\ UNCHANGED <<listener, backlog, script>>

(* run_one: the script is started and given the payload.                   *)
run_one ==
  /\ stage = "hooks" /\ scripts > 0 /\ script = "none"
  /\ script' \in ScriptKinds
  /\ UNCHANGED <<listener, backlog, serving, stage, scripts, errors, conn, line>>

ScriptOver(failed) ==
  /\ script' = "none" /\ scripts' = scripts - 1 /\ errors' = (errors \/ failed)
  /\ UNCHANGED <<listener, backlog, serving, stage, conn, line>>

(* try_wait finds the exit and read_tail the end of stderr.                *)
ScriptExits ==
  /\ stage = "hooks" /\ script \in {"quick", "fails"} /\ ScriptOver(script = "fails")

(* Mutant of ScriptTimesOut: what timed out is tried again.                *)
ScriptTriedAgain ==
  /\ stage = "hooks" /\ script = "slow" /\ script' = "none"
  /\ UNCHANGED <<listener, backlog, serving, stage, scripts, errors, conn, line>>

(* Five seconds: killed, reported as timed out.                            *)
ScriptTimesOut == stage = "hooks" /\ script = "slow" /\ ScriptOver(TRUE)

(* The answer carries every failure; a client that left makes the write    *)
(* fail, which is logged.                                                  *)
AnswerRequest ==
  /\ stage = "hooks" /\ scripts = 0 /\ script = "none"
  /\ CloseWith(IF line[serving] = "gone" THEN "closed"
               ELSE IF errors THEN "failed" ELSE "ok")
  /\ UNCHANGED <<listener, backlog, scripts, script, errors>>

Held == {c \in Clients : conn[c] = "waiting"}

(* The relay dies: the kernel ends every connection.                       *)
RelayDies ==
  /\ listener
  /\ listener' = FALSE /\ backlog' = <<>> /\ serving' = Nobody /\ stage' = "accept"
  /\ script' = "none" /\ scripts' = 0 /\ errors' = FALSE
  /\ conn' = [c \in Clients |-> IF c \in Held THEN "closed" ELSE conn[c]]
  /\ line' = [c \in Clients |-> IF c \in Held THEN "none" ELSE line[c]]

(* bind removes the socket a dead relay left behind.                       *)
bind ==
  /\ ~listener /\ listener' = TRUE
  /\ UNCHANGED <<backlog, serving, stage, scripts, script, errors, conn, line>>

RelayStep == Accept \/ handle_connection \/ run_one \/ ScriptExits \/ ScriptTimesOut
             \/ AnswerRequest

ClientStep == \E c \in Clients : Connect(c) \/ Speak(c) \/ HangUp(c)

(* What stops the relay for good: a client that says nothing, or a script  *)
(* outside the reach of the five seconds.                                  *)
Stalled == \/ stage = "read" /\ serving \in Silent
           \/ stage = "hooks" /\ script \in {"deaf", "holds"}
=============================================================================
