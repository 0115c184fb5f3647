--------------------------- MODULE MainWindowProofs ---------------------------
(* Theorems about MainWindow, for any set of passwords.                      *)
EXTENDS MainWindow, TLAPS

USE PasswordAssumption, FileAssumption DEF At, InLoop, Loops

-----------------------------------------------------------------------------
(* Types                                                                    *)

\* A new process has no prompt open and nothing typed into it.
Fresh == app = "down" => screen = "event" /\ typed = DefaultPassword

TypeInv == TypeOK /\ Fresh

\* Every step keeps the types, and with them that gated prompts are open for
\* an authenticated user only: logging out takes the window's event loop.
LEMMA TypeStep == TypeInv /\ [Next]_vars => TypeInv'
<1> SUFFICES ASSUME TypeInv, [Next]_vars PROVE TypeInv'
  OBVIOUS
<1> USE DEF TypeInv, TypeOK, Fresh, auth, status, diagnostics
<1>1. CASE UNCHANGED vars
  BY <1>1 DEF vars
<1>2. CASE WritePassword
  <2>1. CASE WriteFails
    <3>1. CASE screen \in {"truncate", "dump"}
      BY <2>1, <3>1 DEF WriteFails
    <3>2. CASE screen \notin {"truncate", "dump"}
      BY <2>1, <3>2 DEF WriteFails, Exit
    <3> QED BY <3>1, <3>2
  <2>2. ASSUME NEW from, NEW to,
               <<from, to>> \in {<<"firstTruncate", "firstDump">>, <<"truncate", "dump">>},
               Truncate(from, to)
        PROVE  TypeInv'
    BY <2>2 DEF Truncate
  <2>3. ASSUME NEW from, NEW to,
               <<from, to>> \in {<<"firstDump", "launch">>, <<"dump", "message">>},
               Dump(from, to)
        PROVE  TypeInv'
    BY <2>3 DEF Dump
  <2> QED BY <1>2, <2>1, <2>2, <2>3 DEF WritePassword
<1>3. CASE Start
  BY <1>3 DEF Start, Exit, ClearLabels, StartsPolling
<1>4. CASE Launch
  BY <1>4 DEF Launch
<1>5. CASE CloseWindow \/ Killed
  BY <1>5 DEF CloseWindow, Killed, Exit
<1>6. CASE ClickLogin \/ OpenConfig \/ Dismiss
  BY <1>6 DEF ClickLogin, OpenConfig, Dismiss, Goto, Unlocked
<1>11. CASE Login
  BY <1>11 DEF Login, Goto, Accepts
<1>7. CASE ChangePassword
  BY <1>7 DEF ChangePassword, Goto, Unlocked
<1>8. CASE Restart
  BY <1>8 DEF Restart, ClearLabels, Aged
<1>9. CASE OpenDiagnostics \/ CloseDiagnostics \/ ClearTraffic \/ Refresh
  <2>1. Refreshed => shows' \in {"none", "current", "old"} /\ says' \in {"shown", "stopped"}
    BY DEF Refreshed, Shown
  <2>2. CASE OpenDiagnostics
    BY <2>1, <2>2 DEF OpenDiagnostics
  <2>3. CASE CloseDiagnostics
    BY <2>3 DEF CloseDiagnostics
  <2>4. CASE ClearTraffic \/ Refresh
    BY <2>1, <2>4 DEF ClearTraffic, Refresh
  <2> QED BY <1>9, <2>2, <2>3, <2>4
<1>10. CASE Poll \/ CardChanges
  BY <1>10 DEF Poll, CardChanges
<1> QED BY <1>1, <1>2, <1>3, <1>4, <1>5, <1>6, <1>7, <1>8, <1>9, <1>10,
        <1>11 DEF Next, GuiStep, User

\* Before the first launch everything is as the code initialises it.
LEMMA TypeInit == Init => TypeInv
BY DEF Init, TypeInv, TypeOK, Fresh

\* Every variable stays within its type, and the gated prompts (password,
\* configuration) are open for an authenticated user only.
THEOREM WindowTypeCorrect == Spec => []TypeOK
<1>1. TypeInv => TypeOK
  BY DEF TypeInv
<1> QED BY TypeInit, TypeStep, <1>1, PTL DEF Spec

-----------------------------------------------------------------------------
(* The password file                                                        *)

\* A file that is cut off has been noticed, or its writer is at work.
TornInv == file = TornFile => spoilt \/ screen \in {"firstDump", "dump"}

\* A file that does not exist yet stands for the default.
NoFileInv == file = NoFile => confirmed = DefaultPassword

\* A whole file holds the last password, or the default after a mishap.
WholeInv == file \in Passwords => file = confirmed \/ (spoilt /\ file = DefaultPassword)

\* ensure_password_set() writes the default only where that loses nothing, or
\* after a mishap.
FirstRunInv ==
  screen \in {"firstTruncate", "firstDump"} =>
    typed = DefaultPassword /\ (spoilt \/ confirmed = DefaultPassword)

FileInv == TypeInv /\ TornInv /\ NoFileInv /\ WholeInv /\ FirstRunInv

\* The invariant of the file is kept by each of its writers, and by the end
\* of the process between their two steps.
LEMMA FileStep == FileInv /\ [Next]_vars => FileInv'
<1> SUFFICES ASSUME FileInv, [Next]_vars PROVE FileInv'
  OBVIOUS
<1>0. TypeInv /\ TypeInv'
  BY TypeStep DEF FileInv
<1>a. file \in Passwords \cup {NoFile, TornFile} /\ spoilt \in BOOLEAN /\ Fresh
  BY <1>0 DEF TypeInv, TypeOK
<1> DEFINE Rest == TornInv /\ NoFileInv /\ WholeInv /\ FirstRunInv
<1>b. Rest
  BY DEF FileInv
<1>c. SUFFICES Rest'
  BY <1>0 DEF FileInv
<1> USE <1>a, <1>b DEF TornInv, NoFileInv, WholeInv, FirstRunInv, Fresh, auth
<1>1. CASE UNCHANGED vars
  BY <1>1 DEF vars
<1>2. CASE WritePassword
  <2>1. CASE WriteFails
    BY <2>1 DEF WriteFails, Exit
  <2>2. CASE Truncate("firstTruncate", "firstDump") \/ Truncate("truncate", "dump")
    BY <2>2 DEF Truncate
  <2>3. CASE Dump("firstDump", "launch") \/ Dump("dump", "message")
    BY <2>3, <1>0 DEF Dump, TypeInv, TypeOK
  <2> QED BY <1>2, <2>1, <2>2, <2>3 DEF WritePassword
<1>3. CASE Start
  BY <1>3 DEF Start, Exit
<1>4. CASE Launch
  BY <1>4 DEF Launch, NeedsDefault, Loads
<1>5. CASE CloseWindow \/ Killed
  BY <1>5 DEF CloseWindow, Killed, Exit
<1>6. CASE ClickLogin \/ Login \/ OpenConfig \/ Dismiss \/ ChangePassword
  BY <1>6 DEF ClickLogin, Login, OpenConfig, Dismiss, ChangePassword, Goto
<1>7. CASE Restart
  BY <1>7 DEF Restart
<1>8. CASE OpenDiagnostics \/ CloseDiagnostics \/ ClearTraffic \/ Refresh \/ Poll \/ CardChanges
  BY <1>8 DEF OpenDiagnostics, CloseDiagnostics, ClearTraffic, Refresh, Poll, CardChanges
<1> QED BY <1>1, <1>2, <1>3, <1>4, <1>5, <1>6, <1>7, <1>8 DEF Next, GuiStep, User

\* The last password set opens the gate, through any events; after a mishap
\* with the file at least the default does.
THEOREM PasswordIsKept == Spec => []PasswordKept
<1>1. Init => FileInv
  BY TypeInit DEF Init, FileInv, TornInv, NoFileInv, WholeInv, FirstRunInv
<1>2. FileInv => PasswordKept
  BY DEF FileInv, TypeInv, TypeOK, TornInv, NoFileInv, WholeInv, PasswordKept, Accepts, Loads
<1> QED BY <1>1, <1>2, FileStep, PTL DEF Spec

-----------------------------------------------------------------------------
(* The labels                                                               *)

\* The labels are of the runner there is, or blank: each way a runner goes
\* clears them, and the poll that fills them asks the runner there is.
THEOREM LabelsAreOfThisRunner == Spec => []LabelsOfThisRunner
<1>1. Init => LabelsOfThisRunner
  BY DEF Init, LabelsOfThisRunner
<1>2. LabelsOfThisRunner /\ [Next]_vars => LabelsOfThisRunner'
  <2> SUFFICES ASSUME LabelsOfThisRunner, [Next]_vars PROVE LabelsOfThisRunner'
    OBVIOUS
  <2> USE DEF LabelsOfThisRunner, status
  <2>1. CASE Restart
    BY <2>1 DEF Restart, ClearLabels
  <2>2. CASE Start
    BY <2>2 DEF Start, ClearLabels, Exit
  <2>3. CASE CloseWindow \/ Killed
    BY <2>3 DEF CloseWindow, Killed, Exit
  <2>4. CASE WritePassword
    BY <2>4 DEF WritePassword, Truncate, Dump, WriteFails, Exit
  <2>5. CASE Launch \/ ClickLogin \/ Login \/ ChangePassword \/ OpenConfig \/ Dismiss
    BY <2>5 DEF Launch, ClickLogin, Login, ChangePassword, OpenConfig, Dismiss, Goto
  <2>6. CASE Poll
    BY <2>6 DEF Poll
  <2>7. CASE OpenDiagnostics \/ CloseDiagnostics \/ ClearTraffic \/ Refresh \/ CardChanges
    BY <2>7 DEF OpenDiagnostics, CloseDiagnostics, ClearTraffic, Refresh, CardChanges
  <2>8. CASE UNCHANGED vars
    BY <2>8 DEF vars
  <2> QED BY <2>1, <2>2, <2>3, <2>4, <2>5, <2>6, <2>7, <2>8 DEF Next, GuiStep, User
<1> QED BY <1>1, <1>2, PTL DEF Spec
=============================================================================
