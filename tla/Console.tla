------------------------------ MODULE Console -------------------------------
(* The command line of the shell (src/diag_shell.cpp): one buffer,           *)
(* line_buf_, and one position, line_pos_, which the main loop fills         *)
(* character by character and dispatches from, and which feedCommandLine,    *)
(* called from a Wi-Fi callback, overwrites and dispatches from, between any *)
(* two steps of the main loop. Reading the position, storing a character and *)
(* storing the position are such steps.                                      *)
(*                                                                           *)
(* A line is a command typed in two pieces: that is enough for it to be      *)
(* half there. What the commands do is left to DiagShell, but for the        *)
(* write protection, which is the dispatcher's own.                          *)
EXTENDS Naturals

CONSTANTS
  TypedCommands,  \* the lines a user types on the serial console
  WriteCommands   \* kWriteCommands

ASSUME WriteCommandsAssumption == WriteCommands \cap {"rw on", "rw off"} = {}

VARIABLES
  line_buf,    \* the text in line_buf_: how many pieces of which command
  line_pos,    \* line_pos_
  rw_enabled,
  main,        \* where the main loop is
  typed,       \* what the user has typed of the line he is at
  disturbed,   \* history: a callback ran a command since that line began
  refused      \* history: the command of the callback that ran last since the
               \* line passed the check was refused

console == <<line_buf, line_pos, rw_enabled, main, typed, disturbed, refused>>

Pieces == 2
Text(command, n) == [command |-> command, pieces |-> n]
Nothing == Text("", 0)
Garbage == Text("?", Pieces)   \* pieces of different commands

Reading == [at |-> "getchar"]
Storing(p) == [at |-> "store", pos |-> p]
Setting(p) == [at |-> "count", pos |-> p]   \* p is about to be the position
Passed == [at |-> "dispatch"]

ConsoleInit ==
  /\ line_buf = Nothing /\ line_pos = 0
  /\ rw_enabled = FALSE
  /\ main = Reading
  /\ typed = Nothing
  /\ disturbed = FALSE /\ refused = FALSE

----------------------------------------------------------------------------
(* The text once piece p + 1 of the command is stored behind the p pieces    *)
(* before it.                                                                *)
Stored(command, piece, p) ==
  IF /\ piece = p + 1
     /\ p = 0 \/ (line_buf.command = command /\ line_buf.pieces >= p)
  THEN Text(command, p + 1)
  ELSE Garbage

(* The command a terminated buffer holds. *)
Command(text) == IF text.pieces = Pieces THEN text.command ELSE "?"

Blocked(command) == command \in WriteCommands /\ ~rw_enabled

(* The chain of comparisons in processLine, and the command it finds. *)
Execute(command) ==
  rw_enabled' = CASE command = "rw on" -> TRUE
                  [] command = "rw off" -> FALSE
                  [] OTHER -> rw_enabled

(* readLine: a character has come, and line_pos_ is read.                    *)
GetChar(command) ==
  /\ main = Reading
  /\ typed = Nothing \/ (typed.command = command /\ typed.pieces < Pieces)
  /\ typed' = Text(command, typed.pieces + 1)
  /\ main' = IF line_pos < Pieces THEN Storing(line_pos) ELSE Reading
  /\ UNCHANGED <<line_buf, line_pos, rw_enabled, disturbed, refused>>

(* The character is stored at the position that was read, then the position  *)
(* behind it. The other order would make no difference: a callback resets    *)
(* the position, and of a line at position 0 nothing is read.                *)
StoreChar ==
  /\ main.at = "store"
  /\ line_buf' = Stored(typed.command, typed.pieces, main.pos)
  /\ main' = Setting(main.pos + 1)
  /\ UNCHANGED <<line_pos, rw_enabled, typed, disturbed, refused>>

SetPosition ==
  /\ main.at = "count"
  /\ line_pos' = main.pos
  /\ main' = Reading
  /\ UNCHANGED <<line_buf, rw_enabled, typed, disturbed, refused>>

(* readLine: a backspace has come. The user takes back the last piece, the   *)
(* code what is in front of the position it reads.                           *)
Backspace ==
  /\ main = Reading
  /\ typed # Nothing
  /\ typed' = IF typed.pieces = 1 THEN Nothing ELSE Text(typed.command, typed.pieces - 1)
  /\ disturbed' = (disturbed /\ typed.pieces > 1)
  /\ main' = IF line_pos > 0 THEN Setting(line_pos - 1) ELSE Reading
  /\ UNCHANGED <<line_buf, line_pos, rw_enabled, refused>>

(* The buffer with its terminator at the position. *)
Terminated ==
  IF line_pos < line_buf.pieces THEN Text(line_buf.command, line_pos) ELSE line_buf

(* The user is at a new line. *)
NewLine ==
  /\ typed' = Nothing
  /\ disturbed' = FALSE
  /\ refused' = FALSE

(* Enter without the write protection. *)
EnterUnchecked ==
  /\ main = Reading
  /\ IF line_pos = 0
     THEN NewLine /\ UNCHANGED <<line_buf, line_pos, main>>
     ELSE /\ line_buf' = Terminated
          /\ line_pos' = 0
          /\ main' = Passed
          /\ UNCHANGED <<typed, disturbed, refused>>
  /\ UNCHANGED rw_enabled

(* Enter on an empty line is skipped; otherwise the line is terminated and   *)
(* processLine begins: the position is reset, write commands are refused in  *)
(* read-only mode.                                                           *)
Enter ==
  /\ main = Reading
  /\ IF line_pos = 0
     THEN NewLine /\ UNCHANGED <<line_buf, line_pos, main>>
     ELSE /\ line_buf' = Terminated
          /\ line_pos' = 0
          /\ IF Blocked(Command(Terminated))
             THEN NewLine /\ UNCHANGED main
             ELSE main' = Passed /\ UNCHANGED <<typed, disturbed, refused>>
  /\ UNCHANGED rw_enabled

(* The rest of processLine compares the buffer with the commands. *)
Dispatch ==
  /\ main = Passed
  /\ Execute(Command(line_buf))
  /\ main' = Reading
  /\ NewLine
  /\ UNCHANGED <<line_buf, line_pos>>

MainLoop ==
  \/ \E c \in TypedCommands : GetChar(c)
  \/ StoreChar
  \/ SetPosition
  \/ Backspace
  \/ Enter
  \/ Dispatch

(* feedCommandLine that leaves the position behind the command it copied. *)
feedCommandLineKeeps(command) ==
  /\ line_buf' = Text(command, Pieces)
  /\ line_pos' = Pieces
  /\ disturbed' = (disturbed \/ typed # Nothing)
  /\ refused' = (main = Passed /\ Blocked(command))
  /\ IF Blocked(command) THEN UNCHANGED rw_enabled ELSE Execute(command)
  /\ UNCHANGED <<main, typed>>

(* feedCommandLine, from a callback: it runs to its end before the main loop *)
(* goes on.                                                                  *)
feedCommandLine(command) ==
  /\ line_buf' = Text(command, Pieces)
  /\ line_pos' = 0
  /\ disturbed' = (disturbed \/ typed # Nothing)
  /\ refused' = (main = Passed /\ Blocked(command))
  /\ IF Blocked(command) THEN UNCHANGED rw_enabled ELSE Execute(command)
  /\ UNCHANGED <<main, typed>>

----------------------------------------------------------------------------
ConsoleTypeOK ==
  /\ line_pos \in 0 .. Pieces
  /\ line_buf.pieces \in 0 .. Pieces
  /\ typed \in {Nothing} \cup [command : TypedCommands, pieces : 1 .. Pieces]
  /\ main \in {Reading, Passed} \cup {Storing(p) : p \in 0 .. Pieces - 1}
                                \cup {Setting(p) : p \in 0 .. Pieces}
  /\ rw_enabled \in BOOLEAN /\ disturbed \in BOOLEAN /\ refused \in BOOLEAN

(* The main loop runs a write command in read-only mode in one case only:    *)
(* between the check of its line and the dispatch, a callback put into the   *)
(* buffer a command which it was itself refused. In every other order of     *)
(* lines, callbacks, "rw on" and "rw off" the protection is what the comment *)
(* says, "enforced here rather than in the dashboard: the USB serial console *)
(* and any other client reach the same dispatch" (src/diag_shell.cpp:316).   *)
ReadOnlyHolds ==
  [][ main = Passed /\ main' = Reading /\ Blocked(Command(line_buf)) => refused ]_console

(* A line, its characters typed and taken back in any order, is dispatched   *)
(* as the user left it, unless a callback ran a command meanwhile.           *)
RunsAsTyped ==
  [][ main = Passed /\ main' = Reading
      => disturbed \/ Command(line_buf) = Command(typed) ]_console
=============================================================================
