--------------------------- MODULE ShutdownProofs ---------------------------
(***************************************************************************)
(* What main, the signal handlers and the logger keep, for any number of   *)
(* lines of the event loop and any arrivals of the signals.                *)
(***************************************************************************)
EXTENDS Shutdown, SequenceTheorems, TLAPS

-----------------------------------------------------------------------------
(* The inductive invariant *)

\* main is at the bottom of the stack and handlers are on it; main logs its
\* first line before the signals are handled and its second one when it has
\* started.
StackShape ==
  /\ frames # << >> /\ frames[1].by = "main"
  /\ \A i \in 2 .. Len(frames) : frames[i].by \in Signals /\ frames[i].line = 0
  /\ stage = "init" => frames[1].line = 0
  /\ stage \in {"sigint", "sigterm", "start"} => frames[1].line = 1

\* The pointer and what it points at.  They disagree only while a frame is
\* between fclose and the reset of the pointer, and only what has interrupted
\* that frame can get at the closed file.
Resetting(i) == frames[i].at = "reset"
PointerSound ==
  /\ file = "open" => log_file
  /\ (\E i \in DOMAIN frames : Resetting(i)) => file = "closed"
  /\ log_file /\ file = "closed" => \E i \in DOMAIN frames : Resetting(i)
  /\ Top.at \in FileParts /\ file = "closed" =>
       \E i \in 1 .. Len(frames) - 1 : Resetting(i)

\* A handler that is past its plog has written its line, unless there is no
\* file or another handler has, and main gets there only when it has failed.
Said == finished \cap (Signals \X {0}) # {}
PastPlog == {"close_fd", "closing", "fclose", "reset", "exit"}
LoggedSound ==
  /\ file = "closed" => stage = "failed" \/ Said
  /\ \A i \in 2 .. Len(frames) :
       frames[i].at \in PastPlog /\ file # "none" => stage = "failed" \/ Said
  /\ frames[1].at \in PastPlog => stage = "failed"
  /\ ShutdownLogged

\* The pieces that the running plog has written are the last ones of the log.
Log == disk \o buffer
Wrote(k) == /\ Len(Log) >= k
            /\ k = 1 => Log[Len(Log)] = <<Line, "prefix">>
            /\ k = 2 => /\ Log[Len(Log) - 1] = <<Line, "prefix">>
                        /\ Log[Len(Log)] = <<Line, "body">>
            /\ k = 3 => /\ Log[Len(Log) - 2] = <<Line, "prefix">>
                        /\ Log[Len(Log) - 1] = <<Line, "body">>
                        /\ Log[Len(Log)] = <<Line, "newline">>
Written ==
  process = "runs" /\ file = "open" =>
    /\ Top.at = "body" => Wrote(1)
    /\ Top.at = "newline" => Wrote(2)
    /\ Top.at = "flush" => Wrote(3)

IInv == TypeOK /\ StackShape /\ PointerSound /\ LoggedSound /\ Written /\ LinesWhole
-----------------------------------------------------------------------------
(* The call stack *)

\* The last index of a stack.
LEMMA LastIndex ==
  ASSUME NEW n \in Nat \ {0}
  PROVE  /\ \A i \in 1 .. n : i \in 1 .. n - 1 \/ i = n
         /\ n # 1 => n \in 2 .. n
OBVIOUS

\* The running frame is a frame, and only main's can be the first one.
LEMMA TopTyped ==
  ASSUME frames \in Seq(Frames), frames # << >>
  PROVE  /\ Len(frames) \in Nat \ {0} /\ DOMAIN frames = 1 .. Len(frames)
         /\ \A i \in 1 .. Len(frames) : frames[i] \in Frames
         /\ Top \in Frames /\ Top = frames[Len(frames)]
<1>1. Len(frames) \in Nat \ {0} /\ DOMAIN frames = 1 .. Len(frames)
  BY LenProperties, EmptySeq
<1>2. \A i \in 1 .. Len(frames) : frames[i] \in Frames
  BY ElementOfSeq, Zenon
<1> QED BY <1>1, <1>2 DEF Top

\* A frame with another place, and a frame with another line.
LEMMA FrameAt ==
  ASSUME NEW r \in Frames, NEW w, NEW l
  PROVE  /\ [r EXCEPT !.at = w] = [by |-> r.by, at |-> w, line |-> r.line]
         /\ [r EXCEPT !.line = l] = [by |-> r.by, at |-> r.at, line |-> l]
<1>1. PICK A, B, C : r \in [by : A, at : B, line : C]
  BY Zenon DEF Frames
<1>2. [r EXCEPT !.at = w] = [by |-> r.by, at |-> w, line |-> r.line]
  BY <1>1
<1>3. [r EXCEPT !.line = l] = [by |-> r.by, at |-> r.at, line |-> l]
  BY <1>1
<1> QED BY <1>2, <1>3

\* A step of the running frame leaves all else on the stack as it was.
LEMMA Moves ==
  ASSUME frames \in Seq(Frames), frames # << >>, NEW w \in Places, GoTo(w)
  PROVE  /\ frames' \in Seq(Frames) /\ frames' # << >> /\ Len(frames') = Len(frames)
         /\ \A i \in 1 .. Len(frames) : /\ frames'[i].by = frames[i].by
                                        /\ frames'[i].line = frames[i].line
         /\ \A i \in 1 .. Len(frames) - 1 : frames'[i] = frames[i]
         /\ Top'.at = w /\ Top'.by = Top.by /\ Top'.line = Top.line /\ Line' = Line
<1> DEFINE n == Len(frames)
           f == [by |-> frames[n].by, at |-> w, line |-> frames[n].line]
<1>1. n \in 1 .. n /\ frames[n] \in Frames /\ DOMAIN frames = 1 .. n
  BY TopTyped
<1>2. f \in Frames /\ f.at = w /\ f.by = frames[n].by /\ f.line = frames[n].line
  BY <1>1 DEF Frames
<1>3. frames' = [frames EXCEPT ![n] = f]
  <2>1. [frames[n] EXCEPT !.at = w] = f
    BY <1>1, FrameAt, Zenon
  <2> QED BY <2>1, Zenon DEF GoTo
<1> HIDE DEF f
<1>4. /\ frames' \in Seq(Frames) /\ Len(frames') = n
      /\ \A i \in 1 .. n : frames'[i] = IF i = n THEN f ELSE frames[i]
  BY <1>1, <1>2, <1>3, ExceptSeq
<1>5. frames' # << >>
  BY <1>1, <1>4, EmptySeq
<1>6. Top' = f /\ Top = frames[n]
  BY <1>1, <1>4 DEF Top
<1>7. \A i \in 1 .. n : frames'[i].by = frames[i].by /\ frames'[i].line = frames[i].line
  BY <1>1, <1>2, <1>4
<1>8. \A i \in 1 .. n - 1 : frames'[i] = frames[i]
  <2>1. n \in Nat
    BY <1>1
  <2> HIDE DEF n
  <2>2. \A i \in 1 .. n - 1 : i \in 1 .. n /\ i # n
    BY <2>1
  <2> QED BY <1>4, <2>2
<1>9. Top'.at = w /\ Top'.by = Top.by /\ Top'.line = Top.line
  BY <1>2, <1>6
<1>10. Line' = Line
  BY <1>9, Zenon DEF Line
<1> QED BY <1>4, <1>5, <1>7, <1>8, <1>9, <1>10

\* A handler's frame comes on top of the stack.
LEMMA Pushes ==
  ASSUME frames \in Seq(Frames), frames # << >>, NEW f \in Frames, frames' = Append(frames, f)
  PROVE  /\ frames' \in Seq(Frames) /\ frames' # << >> /\ Len(frames') = Len(frames) + 1
         /\ \A i \in 1 .. Len(frames) : frames'[i] = frames[i]
         /\ Top' = f /\ frames'[Len(frames')] = f
<1>1. Len(frames) \in Nat
  BY TopTyped
<1> QED BY <1>1, AppendProperties DEF Top

\* main runs only while no handler has interrupted it.
LEMMA MainAlone ==
  ASSUME TypeOK, StackShape, At("ready")
  PROVE  Len(frames) = 1 /\ Top = frames[1]
<1>1. Len(frames) \in DOMAIN frames /\ Top = frames[Len(frames)]
  BY TopTyped DEF TypeOK, StackShape
<1> QED BY <1>1 DEF TypeOK, At

\* main logs: its one frame enters plog with the next line.
LEMMA Enters ==
  ASSUME TypeOK, StackShape, At("ready"), Logs, frames[1].line < LINES + 2
  PROVE  /\ frames' \in Seq(Frames) /\ frames' # << >> /\ Len(frames') = 1
         /\ frames'[1].by = "main" /\ frames'[1].line = frames[1].line + 1
         /\ frames'[1].at = "localtime" /\ Top' = frames'[1]
<1> DEFINE f == [by |-> frames[1].by, at |-> "localtime", line |-> frames[1].line + 1]
<1>1. /\ frames \in Seq(Frames) /\ Len(frames) = 1 /\ frames[1] \in Frames
      /\ DOMAIN frames = 1 .. 1 /\ frames[1].by = "main"
  BY TopTyped, MainAlone DEF TypeOK, StackShape
<1>2. /\ f \in Frames /\ f.at = "localtime" /\ f.by = "main"
      /\ f.line = frames[1].line + 1
  BY <1>1, ShutdownAssumption DEF Frames, Places
<1>3. frames' = [frames EXCEPT ![1] = f]
  <2>1. [frames[1] EXCEPT !.at = "localtime", !.line = frames[1].line + 1] = f
    <3> DEFINE g == [by |-> frames[1].by, at |-> "localtime", line |-> frames[1].line]
    <3>1. [frames[1] EXCEPT !.at = "localtime"] = g
      BY <1>1, FrameAt, Zenon
    <3>2. g \in Frames
      BY <1>1 DEF Frames, Places
    <3>3. [g EXCEPT !.line = frames[1].line + 1] = f
      BY <3>2, FrameAt, Zenon
    <3> QED BY <3>1, <3>3, Zenon
  <2> QED BY <1>1, <2>1, Zenon DEF Logs
<1> HIDE DEF f
<1>4. frames' \in Seq(Frames) /\ Len(frames') = 1 /\ frames'[1] = f
  <2>1. frames \in Seq(Frames) /\ f \in Frames /\ 1 \in 1 .. Len(frames)
    BY <1>1, <1>2
  <2>2. /\ frames' \in Seq(Frames) /\ Len(frames') = Len(frames)
        /\ \A j \in 1 .. Len(frames) : frames'[j] = IF j = 1 THEN f ELSE frames[j]
    BY <1>3, <2>1, ExceptSeq
  <2> QED BY <1>1, <2>1, <2>2
<1>5. frames' # << >>
  BY <1>4, EmptySeq, SMTT(20)
<1>6. Top' = frames'[1]
  BY <1>4 DEF Top
<1> QED BY <1>2, <1>4, <1>5, <1>6

\* main's frame is the running one only when there is no other.
LEMMA Bottom ==
  ASSUME TypeOK, StackShape
  PROVE  Top.by = "main" <=> Len(frames) = 1
<1>1. Len(frames) \in Nat \ {0} /\ Top = frames[Len(frames)]
  BY TopTyped DEF TypeOK, StackShape
<1>2. Len(frames) # 1 => Len(frames) \in 2 .. Len(frames)
  BY <1>1
<1> QED BY <1>1, <1>2 DEF StackShape, Signals

\* What LoggedSound says of the running frame.
MayPass == /\ Top.by = "main" => stage = "failed"
           /\ Top.by # "main" /\ file # "none" => stage = "failed" \/ Said
LEMMA TopPast ==
  ASSUME TypeOK, StackShape, LoggedSound, Top.at \in PastPlog
  PROVE  MayPass
<1>1. Len(frames) \in Nat \ {0} /\ Top = frames[Len(frames)]
  BY TopTyped DEF TypeOK, StackShape
<1>2. Len(frames) # 1 => Len(frames) \in 2 .. Len(frames)
  BY <1>1
<1> QED BY <1>1, <1>2, Bottom DEF LoggedSound, MayPass
-----------------------------------------------------------------------------
(* The steps by what they do to the stack *)

\* What every step keeps that is not the type of a variable.
Kept == StackShape /\ PointerSound /\ LoggedSound /\ Written /\ LinesWhole
StackTyped == frames \in Seq(Frames) /\ \A i \in DOMAIN frames : frames[i].at = "ready" => i = 1

\* A step of the running frame: the frames below it stay, and it gets past its
\* plog only when its line is written.
LEMMA GoToShape ==
  ASSUME IInv, NEW w \in Places, GoTo(w), UNCHANGED stage, process' = "runs",
         w = "ready" => Top.by = "main",
         finished \subseteq finished', file' = "none" <=> file = "none",
         file' = "closed" /\ file # "closed" => stage = "failed" \/ Said',
         w \in PastPlog => /\ Top.by = "main" => stage = "failed"
                           /\ Top.by # "main" /\ file # "none" => stage = "failed" \/ Said'
  PROVE  /\ StackTyped' /\ StackShape' /\ LoggedSound'
         /\ Len(frames) \in Nat \ {0} /\ Len(frames') = Len(frames)
         /\ DOMAIN frames = 1 .. Len(frames) /\ DOMAIN frames' = 1 .. Len(frames)
         /\ \A i \in 1 .. Len(frames) - 1 : frames'[i] = frames[i]
         /\ frames'[Len(frames)].at = w /\ Top = frames[Len(frames)]
         /\ Top'.at = w /\ Top'.by = Top.by /\ Line' = Line
<1> DEFINE n == Len(frames)
<1>1. /\ frames' \in Seq(Frames) /\ frames' # << >> /\ Len(frames') = n
      /\ \A i \in 1 .. n : frames'[i].by = frames[i].by /\ frames'[i].line = frames[i].line
      /\ \A i \in 1 .. n - 1 : frames'[i] = frames[i]
      /\ Top'.at = w /\ Top'.by = Top.by /\ Line' = Line
  BY Moves DEF IInv, TypeOK, StackShape
<1>2. /\ n \in Nat \ {0} /\ DOMAIN frames = 1 .. n /\ Top = frames[n]
      /\ DOMAIN frames' = 1 .. n /\ Top' = frames'[n] /\ frames'[n].at = w
  BY <1>1, TopTyped, LenProperties DEF IInv, TypeOK, StackShape, Top
<1>3. Top.by = "main" <=> n = 1
  BY Bottom DEF IInv
<1> HIDE DEF n
<1>4. StackTyped'
  BY <1>1, <1>2, <1>3 DEF IInv, TypeOK, StackTyped
<1>5. StackShape'
  BY <1>1, <1>2 DEF IInv, StackShape, n
<1>6. LoggedSound'
  <2>1. Said => Said'
    BY DEF Said
  <2>2. \A i \in 2 .. n : frames'[i].at \in PastPlog /\ file # "none" => stage = "failed" \/ Said'
    <3>1. \A i \in 2 .. n : i \in 1 .. n - 1 \/ (i = n /\ n # 1)
      BY <1>2
    <3> QED BY <1>1, <1>2, <1>3, <2>1, <3>1 DEF IInv, LoggedSound, n
  <2>3. frames'[1].at \in PastPlog => stage = "failed"
    <3>1. 1 \in 1 .. n - 1 \/ n = 1
      BY <1>2
    <3> QED BY <1>1, <1>2, <1>3, <3>1 DEF IInv, LoggedSound
  <2>4. ShutdownLogged'
    BY DEF ShutdownLogged
  <2>5. file' = "closed" => stage' = "failed" \/ Said'
    BY <2>1 DEF IInv, LoggedSound
  <2> QED BY <1>1, <2>2, <2>3, <2>4, <2>5 DEF LoggedSound, PastPlog, n
<1> QED BY <1>1, <1>2, <1>4, <1>5, <1>6 DEF n

\* A step of the running frame that touches neither the log nor main's stage.
LEMMA GoToKeeps ==
  ASSUME IInv, NEW w \in Places, GoTo(w), UNCHANGED <<process, stage, logVars>>,
         process = "runs", Top.at # "reset",
         w = "ready" => Top.by = "main",
         w = "reset" => file = "closed",
         w \in FileParts /\ file = "closed" =>
           \E i \in 1 .. Len(frames) - 1 : Resetting(i),
         w \in PastPlog => MayPass,
         w \in {"body", "newline", "flush"} => file # "open"
  PROVE  StackTyped' /\ Kept'
<1> DEFINE n == Len(frames)
<1>1. UNCHANGED <<log_file, file, disk, finished>> /\ (Said' <=> Said)
  BY DEF logVars, Said
<1>2. /\ StackTyped' /\ StackShape' /\ LoggedSound'
      /\ n \in Nat \ {0} /\ Len(frames') = n
      /\ DOMAIN frames = 1 .. n /\ DOMAIN frames' = 1 .. n
      /\ \A i \in 1 .. n - 1 : frames'[i] = frames[i]
      /\ frames'[n].at = w /\ Top = frames[n] /\ Top'.at = w
  BY <1>1, GoToShape DEF MayPass
<1> HIDE DEF n
<1>3. PointerSound'
  <2>1. \A i \in 1 .. n : i \in 1 .. n - 1 \/ i = n
    BY <1>2
  <2>2. \A i \in 1 .. n : Resetting(i)' => Resetting(i) \/ (i = n /\ w = "reset")
    BY <1>2, <2>1 DEF Resetting
  <2>3. \A i \in 1 .. n : Resetting(i) => i \in 1 .. n - 1 /\ Resetting(i)'
    BY <1>2, <2>1 DEF Resetting
  <2>4. (\E i \in 1 .. n : Resetting(i)) => file = "closed"
    BY <1>2 DEF IInv, PointerSound
  <2>5. log_file /\ file = "closed" => \E i \in 1 .. n : Resetting(i)
    BY <1>2 DEF IInv, PointerSound
  <2>6. \A i \in 1 .. n - 1 : i \in 1 .. n
    BY <1>2
  <2>7. w \in FileParts /\ file = "closed" => \E i \in 1 .. n - 1 : Resetting(i)'
    BY <2>3, <2>6 DEF n
  <2>8. (file = "open" => log_file)'
    BY <1>1 DEF IInv, PointerSound
  <2>9. ((\E i \in DOMAIN frames : Resetting(i)) => file = "closed")'
    BY <1>1, <1>2, <2>2, <2>4
  <2>10. (log_file /\ file = "closed" => \E i \in DOMAIN frames : Resetting(i))'
    BY <1>1, <1>2, <2>3, <2>5
  <2>11. (Top.at \in FileParts /\ file = "closed" =>
            \E i \in 1 .. Len(frames) - 1 : Resetting(i))'
    BY <1>1, <1>2, <2>7 DEF FileParts
  <2> QED BY <2>8, <2>9, <2>10, <2>11 DEF PointerSound
<1>4. Written' /\ LinesWhole'
  BY <1>1, <1>2 DEF IInv, Written, LinesWhole
<1> QED BY <1>2, <1>3, <1>4 DEF Kept

\* main enters plog, from which nothing has been closed.
LEMMA LogsKeeps ==
  ASSUME IInv, At("ready"), Logs, frames[1].line < LINES + 2, stage # "failed",
         UNCHANGED <<process, buffer, disk, finished>>,
         UNCHANGED <<log_file, file>> \/ file' = "none" \/ (file' = "open" /\ log_file'),
         stage' # "init", stage' \in {"sigint", "sigterm", "start"} => frames[1].line = 0
  PROVE  StackTyped' /\ Kept'
<1>1. /\ frames' \in Seq(Frames) /\ frames' # << >> /\ Len(frames') = 1
      /\ frames'[1].by = "main" /\ frames'[1].line = frames[1].line + 1
      /\ frames'[1].at = "localtime" /\ Top' = frames'[1]
  BY Enters DEF IInv
<1>2. Len(frames) = 1 /\ DOMAIN frames = {1} /\ DOMAIN frames' = {1} /\ frames[1].at = "ready"
  <2>1. Len(frames) = 1 /\ frames[1].at = "ready"
    BY MainAlone DEF IInv, At
  <2>2. DOMAIN frames = 1 .. Len(frames) /\ DOMAIN frames' = 1 .. Len(frames')
    BY <1>1, LenProperties DEF IInv, TypeOK
  <2> QED BY <1>1, <2>1, <2>2
<1>3. StackTyped'
  BY <1>1, <1>2 DEF StackTyped
<1>4. StackShape'
  BY <1>1 DEF StackShape
<1>5. PointerSound'
  <2>1. file' = "closed" /\ log_file' => \E i \in DOMAIN frames : Resetting(i)
    BY DEF IInv, PointerSound
  <2>2. ~(file' = "closed" /\ log_file')
    BY <1>2, <2>1 DEF Resetting
  <2>3. file' = "open" => log_file'
    BY DEF IInv, PointerSound
  <2> QED BY <1>1, <1>2, <2>2, <2>3 DEF PointerSound, Resetting, FileParts, PartAfter
<1>6. LoggedSound'
  <2>1. file' = "closed" => Said'
    BY DEF IInv, LoggedSound, Said
  <2>2. ShutdownLogged'
    BY DEF At, ShutdownLogged
  <2> QED BY <1>1, <2>1, <2>2 DEF LoggedSound, PastPlog
<1>7. Written' /\ LinesWhole'
  BY <1>1 DEF IInv, Written, LinesWhole
<1> QED BY <1>3, <1>4, <1>5, <1>6, <1>7 DEF Kept

\* A handler comes on top of what it interrupts.
LEMMA ArriveKeeps ==
  ASSUME IInv, NEW s \in Signals, Arrive(s)
  PROVE  StackTyped' /\ Kept'
<1>1. CASE frames' = frames /\ process' = "terminated"
  <2>1. StackTyped' /\ StackShape' /\ PointerSound'
    BY <1>1 DEF IInv, TypeOK, StackTyped, StackShape, PointerSound, Resetting, Arrive, logVars, Top
  <2>2. LoggedSound'
    BY <1>1 DEF IInv, LoggedSound, ShutdownLogged, Said, Arrive, logVars
  <2>3. Written' /\ LinesWhole'
    BY <1>1 DEF IInv, Written, LinesWhole, Arrive, logVars
  <2> QED BY <2>1, <2>2, <2>3 DEF Kept
<1>2. CASE frames' = Append(frames, Frame(s, "localtime", 0)) /\ process' = process
  <2> DEFINE n == Len(frames)
             f == Frame(s, "localtime", 0)
  <2>1. f \in Frames /\ f.by = s /\ f.at = "localtime" /\ f.line = 0
    BY ShutdownAssumption DEF Frame, Frames, Places
  <2> HIDE DEF f
  <2>2. /\ frames' \in Seq(Frames) /\ frames' # << >> /\ Len(frames') = n + 1
        /\ \A i \in 1 .. n : frames'[i] = frames[i]
        /\ Top' = f /\ frames'[n + 1] = f
    BY <1>2, <2>1, Pushes DEF IInv, TypeOK, StackShape, f
  <2>3. n \in Nat \ {0} /\ DOMAIN frames = 1 .. n /\ DOMAIN frames' = 1 .. n + 1
    BY <2>2, TopTyped, LenProperties DEF IInv, TypeOK, StackShape
  <2>4. UNCHANGED <<stage, log_file, file, buffer, disk, finished>>
    BY DEF Arrive, logVars
  <2> HIDE DEF n
  <2>5. \A i \in 1 .. n + 1 : i \in 1 .. n \/ i = n + 1
    BY <2>3
  <2>6. StackTyped'
    BY <2>1, <2>2, <2>3, <2>5 DEF IInv, TypeOK, StackTyped
  <2>7. StackShape'
    BY <2>1, <2>2, <2>3, <2>4, <2>5 DEF IInv, StackShape, n
  <2>8. PointerSound'
    <3>1. \A i \in 1 .. n + 1 : Resetting(i)' <=> i \in 1 .. n /\ Resetting(i)
      BY <2>1, <2>2, <2>3, <2>5 DEF Resetting
    <3> QED BY <2>1, <2>2, <2>3, <2>4, <3>1 DEF IInv, PointerSound, FileParts, PartAfter
  <2>9. LoggedSound'
    <3>1. \A i \in 2 .. n + 1 : i \in 2 .. n \/ i = n + 1
      BY <2>3
    <3>2. ShutdownLogged' /\ (Said' <=> Said)
      BY <1>2, <2>4 DEF IInv, LoggedSound, ShutdownLogged, Said
    <3> QED BY <2>1, <2>2, <2>3, <2>4, <3>1, <3>2 DEF IInv, LoggedSound, PastPlog, n
  <2>10. Written' /\ LinesWhole'
    BY <2>1, <2>2, <2>4 DEF IInv, Written, LinesWhole
  <2> QED BY <2>6, <2>7, <2>8, <2>9, <2>10 DEF Kept
<1> QED BY <1>1, <1>2 DEF Arrive
-----------------------------------------------------------------------------
(* The log *)

\* Three pieces of a sequence.
LEMMA Three ==
  ASSUME NEW S, NEW s \in Seq(S), NEW i \in 1 .. Len(s) - 2
  PROVE  SubSeq(s, i, i + 2) = <<s[i], s[i + 1], s[i + 2]>>
<1>1. Len(s) \in Nat /\ DOMAIN s = 1 .. Len(s) /\ i \in Nat
  BY LenProperties
<1>2. /\ SubSeq(s, i, i + 2) = [j \in 1 .. 3 |-> s[i + j - 1]]
  BY <1>1, SubSeqProperties
<1>3. <<s[i], s[i + 1], s[i + 2]>> = [j \in 1 .. 3 |-> s[i + j - 1]]
  BY <1>1
<1> QED BY <1>2, <1>3

\* A line that is whole in the log stays whole when the log grows.
LEMMA WholeStays ==
  ASSUME disk \in Seq(Pieces), NEW s \in Seq(Pieces), disk' = disk \o s,
         LinesWhole
  PROVE  \A l \in finished : \E i \in 1 .. Len(disk') - 2 :
           SubSeq(disk', i, i + 2) = << <<l, "prefix">>, <<l, "body">>, <<l, "newline">> >>
<1>1. /\ disk' \in Seq(Pieces) /\ Len(disk') = Len(disk) + Len(s)
      /\ \A i \in 1 .. Len(disk) : disk'[i] = disk[i]
      /\ Len(disk) \in Nat /\ Len(s) \in Nat
  BY ConcatProperties, LenProperties
<1>2. ASSUME NEW i \in 1 .. Len(disk) - 2
      PROVE  i \in 1 .. Len(disk') - 2 /\ SubSeq(disk', i, i + 2) = SubSeq(disk, i, i + 2)
  <2>1. i \in 1 .. Len(disk') - 2 /\ {i, i + 1, i + 2} \subseteq 1 .. Len(disk)
    BY <1>1
  <2>2. /\ SubSeq(disk', i, i + 2) = <<disk'[i], disk'[i + 1], disk'[i + 2]>>
        /\ SubSeq(disk, i, i + 2) = <<disk[i], disk[i + 1], disk[i + 2]>>
    BY <1>1, <2>1, Three
  <2> QED BY <1>1, <2>1, <2>2
<1> QED BY <1>2 DEF LinesWhole

\* What both a part and a flush keep: the file is open and stays so.
LEMMA OpenKeeps ==
  ASSUME IInv, NEW w \in Places, GoTo(w), UNCHANGED <<process, stage, log_file, file>>,
         process = "runs", file = "open", w # "reset",
         w = "ready" => Top.by = "main",
         finished \subseteq finished',
         w \in PastPlog => Top.by # "main" /\ Said'
  PROVE  /\ StackTyped' /\ StackShape' /\ PointerSound' /\ LoggedSound'
         /\ Top'.at = w /\ Line' = Line
<1> DEFINE n == Len(frames)
<1>1. /\ StackTyped' /\ StackShape' /\ LoggedSound'
      /\ n \in Nat \ {0} /\ Len(frames') = n
      /\ DOMAIN frames = 1 .. n /\ DOMAIN frames' = 1 .. n
      /\ \A i \in 1 .. n - 1 : frames'[i] = frames[i]
      /\ frames'[n].at = w /\ Top'.at = w /\ Line' = Line
  BY GoToShape
<1> HIDE DEF n
<1>2. \A i \in 1 .. n : ~Resetting(i)'
  <2>1. \A i \in 1 .. n : i \in 1 .. n - 1 \/ i = n
    BY <1>1
  <2>2. \A i \in 1 .. n : ~Resetting(i)
    BY <1>1 DEF IInv, PointerSound
  <2> QED BY <1>1, <2>1, <2>2 DEF Resetting
<1>3. PointerSound'
  BY <1>1, <1>2 DEF IInv, PointerSound
<1> QED BY <1>1, <1>3

\* fprintf or vfprintf: the log has one more piece.
LEMMA WritePartKeeps ==
  ASSUME IInv, WritePart
  PROVE  StackTyped' /\ Kept' /\ buffer' \in Seq(Pieces) /\ disk' \in Seq(Pieces)
<1> DEFINE w == PartAfter[Top.at]
           p == <<Line, Top.at>>
<1>1. /\ Top.at \in {"prefix", "body", "newline"} /\ w \in {"body", "newline", "flush"}
      /\ Top.at = "prefix" => w = "body"
      /\ Top.at = "body" => w = "newline"
      /\ Top.at = "newline" => w = "flush"
  BY DEF WritePart, PartAfter
<1>2. w \in Places /\ w \notin PastPlog /\ w # "reset" /\ w # "ready"
  <2>1. \A v \in {"body", "newline", "flush"} :
          v \in Places /\ v \notin PastPlog /\ v # "reset" /\ v # "ready"
    BY DEF Places, Parts, PastPlog
  <2> QED BY <1>1, <2>1
<1>3. GoTo(w) /\ UNCHANGED <<process, stage, log_file, file, finished>>
      /\ process = "runs" /\ file = "open"
  BY DEF WritePart
<1>4. p \in Pieces /\ disk \in Seq(Pieces) /\ buffer \in Seq(Pieces)
  <2>1. Top \in Frames
    BY TopTyped DEF IInv, TypeOK, StackShape
  <2> QED BY <1>1, <2>1 DEF IInv, TypeOK, Frames, Pieces, Parts, Line
<1> HIDE DEF w, p
<1>5. /\ StackTyped' /\ StackShape' /\ PointerSound' /\ LoggedSound'
      /\ Top'.at = w /\ Line' = Line
  BY <1>2, <1>3, OpenKeeps
<1>6. /\ \/ disk' = disk /\ buffer' = Append(buffer, p)
         \/ disk' = disk \o Append(buffer, p) /\ buffer' = << >>
      /\ Append(buffer, p) \in Seq(Pieces)
  BY <1>4, AppendProperties DEF WritePart, p
<1>7. buffer' \in Seq(Pieces) /\ disk' \in Seq(Pieces)
  <2>1. << >> \in Seq(Pieces) /\ disk \o Append(buffer, p) \in Seq(Pieces)
    BY <1>4, <1>6, EmptySeq, ConcatProperties
  <2> QED BY <1>4, <1>6, <2>1
<1>8. LinesWhole'
  <2>1. disk' = disk \/ disk' = disk \o Append(buffer, p)
    BY <1>6
  <2>2. CASE disk' = disk
    BY <1>3, <2>2 DEF IInv, LinesWhole
  <2>3. CASE disk' = disk \o Append(buffer, p)
    BY <1>3, <1>4, <1>6, <2>3, WholeStays DEF IInv, LinesWhole
  <2> QED BY <2>1, <2>2, <2>3
<1>9. Log' = Append(Log, p) /\ Log \in Seq(Pieces)
  <2>1. /\ disk \o Append(buffer, p) = Append(disk \o buffer, p)
        /\ (disk \o Append(buffer, p)) \o << >> = disk \o Append(buffer, p)
        /\ disk \o buffer \in Seq(Pieces)
    BY <1>4, <1>6
  <2> QED BY <1>6, <2>1 DEF Log
<1>10. /\ Len(Log) \in Nat /\ Len(Log') = Len(Log) + 1 /\ Log'[Len(Log) + 1] = p
       /\ \A i \in 1 .. Len(Log) : Log'[i] = Log[i]
  BY <1>4, <1>9, AppendProperties, LenProperties
<1>11. Written'
  <2> DEFINE k == Len(Log)
  <2> HIDE DEF k
  <2>1. k \in Nat /\ Len(Log') = k + 1 /\ Log'[k + 1] = p /\ \A i \in 1 .. k : Log'[i] = Log[i]
    BY <1>10 DEF k
  <2>2. CASE w = "body"
    <3>1. p = <<Line, "prefix">>
      BY <1>1, <2>2 DEF p
    <3> QED BY <1>5, <2>1, <2>2, <3>1 DEF Written, Wrote
  <2>3. CASE w = "newline"
    <3>1. p = <<Line, "body">> /\ Wrote(1)
      BY <1>1, <1>3, <2>3 DEF p, IInv, Written
    <3>2. k >= 1 /\ Log[k] = <<Line, "prefix">>
      BY <3>1 DEF Wrote, k
    <3> QED BY <1>5, <2>1, <2>3, <3>1, <3>2 DEF Written, Wrote
  <2>4. CASE w = "flush"
    <3>1. p = <<Line, "newline">> /\ Wrote(2)
      BY <1>1, <1>3, <2>4 DEF p, IInv, Written
    <3>2. k >= 2 /\ Log[k] = <<Line, "body">> /\ Log[k - 1] = <<Line, "prefix">>
      BY <3>1 DEF Wrote, k
    <3> QED BY <1>5, <2>1, <2>4, <3>1, <3>2 DEF Written, Wrote
  <2> QED BY <1>1, <2>2, <2>3, <2>4
<1> QED BY <1>5, <1>7, <1>8, <1>11 DEF Kept

\* fflush: the line is whole at the end of server.log.
LEMMA FlushKeeps ==
  ASSUME IInv, Flush
  PROVE  /\ StackTyped' /\ Kept' /\ buffer' \in Seq(Pieces) /\ disk' \in Seq(Pieces)
         /\ finished' \subseteq ({"main"} \cup Signals) \X (0 .. LINES + 2)
<1> DEFINE w == AfterPlog
<1>1. /\ Top.at = "flush" /\ process = "runs" /\ file = "open" /\ GoTo(w)
      /\ disk' = disk \o buffer /\ buffer' = << >> /\ finished' = finished \cup {Line}
      /\ UNCHANGED <<process, stage, log_file, file>>
  BY DEF Flush, At
<1>2. /\ Top \in Frames /\ Top = frames[Len(frames)] /\ Len(frames) \in Nat \ {0}
      /\ disk \in Seq(Pieces) /\ buffer \in Seq(Pieces)
  BY TopTyped DEF IInv, TypeOK, StackShape
<1>3. Top.by # "main" => Line \in Signals \X {0}
  <2>1. Top.by = "main" <=> Len(frames) = 1
    BY Bottom DEF IInv
  <2>2. Len(frames) # 1 => Len(frames) \in 2 .. Len(frames)
    BY <1>2, LastIndex
  <2> QED BY <1>2, <2>1, <2>2 DEF IInv, StackShape, Line
<1>4. /\ w \in {"ready", "close_fd"} /\ w \in Places /\ w # "reset"
      /\ w = "ready" => Top.by = "main"
      /\ w \in PastPlog => Top.by # "main" /\ Said'
  <2>1. Top.by # "main" => Said'
    BY <1>1, <1>3 DEF Said
  <2> QED BY <2>1 DEF AfterPlog, Places, PastPlog
<1> HIDE DEF w
<1>5. /\ StackTyped' /\ StackShape' /\ PointerSound' /\ LoggedSound'
      /\ Top'.at = w /\ Line' = Line
  BY <1>1, <1>4, OpenKeeps
<1>6. buffer' \in Seq(Pieces) /\ disk' \in Seq(Pieces)
  BY <1>1, <1>2, EmptySeq, ConcatProperties
<1>7. finished' \subseteq ({"main"} \cup Signals) \X (0 .. LINES + 2)
  BY <1>1, <1>2 DEF IInv, TypeOK, Line, Frames
<1>8. LinesWhole'
  <2> DEFINE Whole(l) == \E i \in 1 .. Len(disk') - 2 :
               SubSeq(disk', i, i + 2) = << <<l, "prefix">>, <<l, "body">>, <<l, "newline">> >>
  <2>1. \A l \in finished : Whole(l)
    BY <1>1, <1>2, WholeStays DEF IInv
  <2>2. Whole(Line)
    <3> DEFINE k == Len(disk')
    <3>1. k \in Nat
      BY <1>6, LenProperties
    <3>2. /\ k >= 3 /\ disk'[k - 2] = <<Line, "prefix">> /\ disk'[k - 1] = <<Line, "body">>
          /\ disk'[k] = <<Line, "newline">>
      BY <1>1 DEF IInv, Written, Wrote, Log
    <3>3. k - 2 \in 1 .. k - 2 /\ (k - 2) + 1 = k - 1 /\ (k - 2) + 2 = k
      BY <3>1, <3>2
    <3>4. SubSeq(disk', k - 2, (k - 2) + 2)
            = <<disk'[k - 2], disk'[(k - 2) + 1], disk'[(k - 2) + 2]>>
      BY <1>6, <3>3, Three
    <3>5. SubSeq(disk', k - 2, (k - 2) + 2)
            = << <<Line, "prefix">>, <<Line, "body">>, <<Line, "newline">> >>
      BY <3>2, <3>3, <3>4
    <3> QED BY <3>3, <3>5
  <2>3. \A l \in finished' : Whole(l)
    BY <1>1, <2>1, <2>2
  <2> QED BY <2>3 DEF LinesWhole
<1>9. Written'
  BY <1>4, <1>5 DEF Written
<1> QED BY <1>5, <1>6, <1>7, <1>8, <1>9 DEF Kept

\* fclose: the pointer is the closing frame's to reset.
LEMMA FcloseKeeps ==
  ASSUME IInv, Fclose
  PROVE  StackTyped' /\ Kept' /\ buffer' \in Seq(Pieces) /\ disk' \in Seq(Pieces)
<1>1. /\ Top.at = "fclose" /\ process = "runs" /\ file = "open" /\ GoTo("reset")
      /\ file' = "closed" /\ disk' = disk \o buffer /\ buffer' = << >>
      /\ UNCHANGED <<process, stage, log_file, finished>>
  BY DEF Fclose, At
<1>2. disk \in Seq(Pieces) /\ buffer \in Seq(Pieces) /\ (Said' <=> Said)
  BY <1>1 DEF IInv, TypeOK, Said
<1>3. MayPass
  BY <1>1, TopPast DEF IInv, PastPlog
<1>4. "reset" \in Places
  BY DEF Places
<1>5. /\ StackTyped' /\ StackShape' /\ LoggedSound'
      /\ DOMAIN frames' = 1 .. Len(frames) /\ Len(frames) \in Nat \ {0}
      /\ frames'[Len(frames)].at = "reset" /\ Top'.at = "reset"
  BY <1>1, <1>2, <1>3, <1>4, GoToShape DEF MayPass
<1>6. PointerSound'
  <2>1. Len(frames) \in DOMAIN frames' /\ Resetting(Len(frames))'
    BY <1>5 DEF Resetting
  <2> QED BY <1>1, <1>5, <2>1 DEF PointerSound, FileParts, PartAfter
<1>7. buffer' \in Seq(Pieces) /\ disk' \in Seq(Pieces)
  BY <1>1, <1>2, EmptySeq, ConcatProperties
<1>8. LinesWhole' /\ Written'
  BY <1>1, <1>2, WholeStays DEF IInv, LinesWhole, Written
<1> QED BY <1>5, <1>6, <1>7, <1>8 DEF Kept

\* log_file = NULL.
LEMMA ResetKeeps ==
  ASSUME IInv, Reset
  PROVE  StackTyped' /\ Kept'
<1>1. /\ Top.at = "reset" /\ process = "runs" /\ GoTo("exit") /\ log_file' = FALSE
      /\ UNCHANGED <<process, stage, file, buffer, disk, finished>>
  BY DEF Reset, At
<1>2. file = "closed"
  <2>1. Len(frames) \in DOMAIN frames /\ Resetting(Len(frames))
    BY <1>1, TopTyped DEF IInv, TypeOK, StackShape, Resetting
  <2> QED BY <2>1 DEF IInv, PointerSound
<1>3. MayPass /\ (Said' <=> Said)
  BY <1>1, TopPast DEF IInv, PastPlog, Said
<1>4. "exit" \in Places
  BY DEF Places
<1>5. StackTyped' /\ StackShape' /\ LoggedSound' /\ Top'.at = "exit"
  BY <1>1, <1>3, <1>4, GoToShape DEF MayPass
<1>6. PointerSound'
  BY <1>1, <1>2, <1>5 DEF PointerSound, FileParts, PartAfter
<1>7. LinesWhole' /\ Written'
  BY <1>1, <1>2 DEF IInv, LinesWhole, Written
<1> QED BY <1>5, <1>6, <1>7 DEF Kept

\* A step that leaves the stack and the log alone.
LEMMA StillKeeps ==
  ASSUME IInv, UNCHANGED <<frames, log_file, file, disk, finished>>,
         process' = "runs" => process = "runs" /\ UNCHANGED buffer,
         \/ UNCHANGED stage
         \/ /\ stage # "failed" /\ stage' # "init"
            /\ stage' \in {"sigint", "sigterm", "start"} => frames[1].line = 1,
         ShutdownLogged'
  PROVE  StackTyped' /\ Kept'
<1>1. Top' = Top /\ Line' = Line /\ (Said' <=> Said)
  BY DEF Top, Line, Said
<1>2. StackTyped' /\ StackShape' /\ PointerSound'
  BY <1>1 DEF IInv, TypeOK, StackTyped, StackShape, PointerSound, Resetting
<1>3. LoggedSound'
  BY <1>1 DEF IInv, LoggedSound
<1>4. Written' /\ LinesWhole'
  <2>1. process' = "runs" => Log' = Log
    BY DEF Log
  <2> QED BY <1>1, <2>1 DEF IInv, Written, Wrote, LinesWhole
<1> QED BY <1>2, <1>3, <1>4 DEF Kept

\* A closed file is used: the process ends, or plog or plog_close goes on.
LEMMA UseClosedKeeps ==
  ASSUME IInv, UseClosed
  PROVE  StackTyped' /\ Kept'
<1>1. /\ process = "runs" /\ Top.at \in FileParts /\ file = "closed"
      /\ UNCHANGED <<stage, logVars>>
  BY DEF UseClosed
<1>2. CASE process' = "crashed" /\ UNCHANGED frames
  BY <1>1, <1>2, StillKeeps DEF ShutdownLogged, logVars
<1>3. CASE UNCHANGED process /\ ~(process' = "crashed" /\ UNCHANGED frames)
  <2> DEFINE w == CASE Top.at \in DOMAIN PartAfter -> PartAfter[Top.at]
                    [] Top.at = "flush" -> AfterPlog
                    [] Top.at = "fclose" -> "reset"
  <2>1. GoTo(w)
    BY <1>3 DEF UseClosed
  <2>2. /\ w \in {"body", "newline", "flush", "ready", "close_fd", "reset"}
        /\ w = "ready" => Top.by = "main"
        /\ w = "close_fd" => Top.by # "main"
        /\ w = "reset" => Top.at = "fclose"
    <3>1. \/ Top.at \in {"prefix", "body", "newline"} /\ w = PartAfter[Top.at]
          \/ Top.at = "flush" /\ w = AfterPlog
          \/ Top.at = "fclose" /\ w = "reset"
      BY <1>1 DEF FileParts, PartAfter
    <3> QED BY <3>1 DEF PartAfter, AfterPlog
  <2> HIDE DEF w
  <2>3. w \in Places
    BY <2>2 DEF Places, Parts
  <2>4. \E i \in 1 .. Len(frames) - 1 : Resetting(i)
    BY <1>1 DEF IInv, PointerSound
  <2>5. w \in PastPlog => MayPass
    <3>1. CASE w = "close_fd"
      BY <1>1, <2>2, <3>1 DEF IInv, LoggedSound, MayPass
    <3>2. CASE w = "reset"
      BY <2>2, <3>2, TopPast DEF IInv, PastPlog
    <3> QED BY <2>2, <3>1, <3>2 DEF PastPlog
  <2>6. Top.at # "reset"
    BY <1>1 DEF FileParts, PartAfter
  <2> QED BY <1>1, <1>3, <2>1, <2>2, <2>3, <2>4, <2>5, <2>6, GoToKeeps
<1> QED BY <1>2, <1>3 DEF UseClosed
-----------------------------------------------------------------------------
(* The invariant *)

\* What the steps inside plog and plog_close that only move on may move to.
LEMMA MoveKeeps ==
  ASSUME IInv, Localtime \/ LocaltimeReturns \/ CheckLogFile \/ CheckClose \/ CloseServer \/ Failed
  PROVE  StackTyped' /\ Kept'
<1> USE DEF At
<1>1. /\ Len(frames) \in Nat \ {0} /\ DOMAIN frames = 1 .. Len(frames)
      /\ Top = frames[Len(frames)]
  BY TopTyped DEF IInv, TypeOK, StackShape
<1>2. log_file /\ file = "closed" /\ Top.at # "reset" =>
        \E i \in 1 .. Len(frames) - 1 : Resetting(i)
  <2>1. \A i \in 1 .. Len(frames) : i \in 1 .. Len(frames) - 1 \/ i = Len(frames)
    BY <1>1, LastIndex
  <2> QED BY <1>1, <2>1 DEF IInv, PointerSound, Resetting
<1>3. Top.at \in PastPlog => MayPass
  BY TopPast DEF IInv
<1>4. CASE Localtime
  <2>1. "unlock" \in Places /\ "unlock" \notin FileParts \cup PastPlog
    BY DEF Places, FileParts, PartAfter, PastPlog
  <2> QED BY <1>4, <2>1, GoToKeeps DEF Localtime
<1>5. CASE LocaltimeReturns
  <2>1. "check" \in Places /\ "check" \notin FileParts \cup PastPlog
    BY DEF Places, FileParts, PartAfter, PastPlog
  <2> QED BY <1>5, <2>1, GoToKeeps DEF LocaltimeReturns
<1>6. CASE CheckLogFile
  <2>1. CASE log_file
    <3>1. "prefix" \in Places /\ "prefix" \notin PastPlog /\ GoTo("prefix")
      BY <1>6, <2>1 DEF Places, Parts, PastPlog, CheckLogFile
    <3> QED BY <1>2, <1>6, <2>1, <3>1, GoToKeeps DEF CheckLogFile
  <2>2. CASE ~log_file
    <3>1. GoTo(AfterPlog) /\ AfterPlog \in {"ready", "close_fd"}
          /\ (AfterPlog = "ready" <=> Top.by = "main")
      BY <1>6, <2>2 DEF AfterPlog, CheckLogFile
    <3> HIDE DEF AfterPlog
    <3>2. AfterPlog \in Places /\ AfterPlog \notin FileParts
      BY <3>1 DEF Places, FileParts, PartAfter
    <3>3. AfterPlog \in PastPlog => MayPass
      <4>1. file \in {"none", "closed"}
        BY <2>2 DEF IInv, TypeOK, PointerSound
      <4> QED BY <3>1, <4>1 DEF IInv, LoggedSound, MayPass, PastPlog
    <3> QED BY <1>6, <3>1, <3>2, <3>3, GoToKeeps DEF CheckLogFile
  <2> QED BY <2>1, <2>2
<1>7. CASE CheckClose
  <2>1. MayPass
    BY <1>3, <1>7 DEF CheckClose, PastPlog
  <2>2. CASE log_file
    <3>1. "fclose" \in Places /\ GoTo("fclose")
      BY <1>7, <2>2 DEF Places, CheckClose
    <3> QED BY <1>2, <1>7, <2>1, <2>2, <3>1, GoToKeeps DEF CheckClose
  <2>3. CASE ~log_file
    <3>1. "exit" \in Places /\ "exit" \notin FileParts /\ GoTo("exit")
      BY <1>7, <2>3 DEF Places, FileParts, PartAfter, CheckClose
    <3> QED BY <1>7, <2>1, <3>1, GoToKeeps DEF CheckClose
  <2> QED BY <2>2, <2>3
<1>8. CASE CloseServer
  <2>1. MayPass
    BY <1>3, <1>8 DEF CloseServer, PastPlog
  <2>2. "closing" \in Places /\ "closing" \notin FileParts
    BY DEF Places, FileParts, PartAfter
  <2> QED BY <1>8, <2>1, <2>2, GoToKeeps DEF CloseServer
<1>9. CASE Failed
  <2>1. MayPass
    BY <1>9 DEF Failed, MainAt, MayPass
  <2>2. "closing" \in Places /\ "closing" \notin FileParts
    BY DEF Places, FileParts, PartAfter
  <2> QED BY <1>9, <2>1, <2>2, GoToKeeps DEF Failed, MainAt
<1> QED BY <1>4, <1>5, <1>6, <1>7, <1>8, <1>9

\* The types of the variables other than the stack.
Others == /\ process \in {"runs", "exited", "terminated", "crashed"}
          /\ stage \in {"init", "sigint", "sigterm", "start", "started", "serve", "failed"}
          /\ handlers \subseteq Signals /\ raised \subseteq Signals
          /\ server_fd \in {"none", "open", "closed"}
          /\ {g_server_fd, log_file} \subseteq BOOLEAN
          /\ file \in {"none", "open", "closed"}
          /\ buffer \in Seq(Pieces) /\ disk \in Seq(Pieces)
          /\ finished \subseteq ({"main"} \cup Signals) \X (0 .. LINES + 2)

\* The types are those of the stack and those of the others.
LEMMA Parted == TypeOK <=> StackTyped /\ Others
BY DEF TypeOK, StackTyped, Others

\* The program starts with an empty log and main alone on the stack.
LEMMA Starts ==
  ASSUME Init
  PROVE  IInv
<1> DEFINE f == Frame("main", "ready", 0)
<1>1. f \in Frames /\ f.by = "main" /\ f.at = "ready" /\ f.line = 0
  BY ShutdownAssumption DEF Frame, Frames, Places
<1> HIDE DEF f
<1>2. frames = <<f>> /\ frames \in Seq(Frames) /\ Len(frames) = 1 /\ frames[1] = f
  BY <1>1 DEF Init, f
<1>3. frames # << >> /\ DOMAIN frames = {1} /\ Top = f
  BY <1>2, EmptySeq, LenProperties DEF Top
<1>4. TypeOK
  BY <1>1, <1>2, <1>3, EmptySeq DEF Init, TypeOK
<1>5. StackShape
  BY <1>1, <1>2, <1>3 DEF Init, StackShape
<1>6. PointerSound
  BY <1>1, <1>2, <1>3 DEF Init, PointerSound, Resetting
<1>7. LoggedSound
  BY <1>1, <1>2 DEF Init, LoggedSound, ShutdownLogged, PastPlog
<1>8. Written /\ LinesWhole
  BY DEF Init, Written, LinesWhole
<1> QED BY <1>4, <1>5, <1>6, <1>7, <1>8 DEF IInv

\* Every step of the program, of a signal and of a kill keeps the invariant.
LEMMA Step ==
  ASSUME IInv, [Next]_vars
  PROVE  IInv'
<1> USE DEF At, MainAt
<1>0. Others /\ StackTyped
  BY Parted DEF IInv
<1>1. ASSUME StackTyped' /\ Kept', Others'
      PROVE  IInv'
  <2>1. TypeOK'
    BY <1>1 DEF TypeOK, StackTyped, Others
  <2> QED BY <1>1, <2>1 DEF Kept, IInv
<1>2. CASE Localtime \/ LocaltimeReturns \/ CheckLogFile \/ CheckClose \/ Failed
  <2>1. Others'
    BY <1>0, <1>2 DEF Others, logVars, Localtime, LocaltimeReturns, CheckLogFile, CheckClose, Failed
  <2> QED BY <1>1, <1>2, <2>1, MoveKeeps
<1>3. CASE CloseServer
  <2>1. Others'
    BY <1>0, <1>3 DEF Others, logVars, CloseServer
  <2> QED BY <1>1, <1>3, <2>1, MoveKeeps
<1>4. CASE WritePart
  <2>1. Others'
    BY <1>0, <1>4, WritePartKeeps DEF Others, WritePart
  <2> QED BY <1>1, <1>4, <2>1, WritePartKeeps
<1>5. CASE Flush
  <2>1. Others'
    BY <1>0, <1>5, FlushKeeps DEF Others, Flush
  <2> QED BY <1>1, <1>5, <2>1, FlushKeeps
<1>6. CASE Fclose
  <2>1. Others'
    BY <1>0, <1>6, FcloseKeeps DEF Others, Fclose
  <2> QED BY <1>1, <1>6, <2>1, FcloseKeeps
<1>7. CASE Reset
  <2>1. Others'
    BY <1>0, <1>7 DEF Others, Reset
  <2> QED BY <1>1, <1>7, <2>1, ResetKeeps
<1>8. CASE UseClosed
  <2>1. Others'
    BY <1>0, <1>8 DEF Others, logVars, UseClosed
  <2> QED BY <1>1, <1>8, <2>1, UseClosedKeeps
<1>9. CASE Exit
  <2>1. Top.at = "exit" /\ process' = "exited" /\ UNCHANGED <<frames, stage, logVars>>
    BY <1>9 DEF Exit
  <2>2. ShutdownLogged'
    <3>1. MayPass
      BY <2>1, TopPast DEF IInv, PastPlog
    <3> QED BY <2>1, <3>1 DEF MayPass, ShutdownLogged, Said, logVars
  <2>3. StackTyped' /\ Kept'
    BY <2>1, <2>2, StillKeeps DEF logVars
  <2>4. Others'
    BY <1>0, <1>9 DEF Others, logVars, Exit
  <2> QED BY <1>1, <2>3, <2>4
<1>10. CASE PlogInit
  <2>1. /\ At("ready") /\ Logs /\ stage = "init" /\ stage' = "sigint"
        /\ UNCHANGED <<process, buffer, disk, finished>>
        /\ file' = "none" \/ (file' = "open" /\ log_file')
    BY <1>10 DEF PlogInit
  <2>2. frames[1].line = 0 /\ frames[1].line < LINES + 2
    BY <2>1, ShutdownAssumption DEF IInv, StackShape
  <2>3. StackTyped' /\ Kept'
    BY <2>1, <2>2, LogsKeeps
  <2>4. Others'
    BY <1>0, <1>10 DEF Others, PlogInit
  <2> QED BY <1>1, <2>3, <2>4
<1>11. CASE Install
  <2>1. /\ stage \in {"sigint", "sigterm"} /\ stage' \in {"sigterm", "start"}
        /\ UNCHANGED <<process, frames, logVars>> /\ process = "runs"
    BY <1>11 DEF Install, Signals
  <2>2. frames[1].line = 1
    BY <2>1 DEF IInv, StackShape
  <2>3. StackTyped' /\ Kept'
    BY <2>1, <2>2, StillKeeps DEF ShutdownLogged, logVars
  <2>4. Others'
    BY <1>0, <1>11, <2>1 DEF Others, logVars, Install
  <2> QED BY <1>1, <2>3, <2>4
<1>12. CASE StartServer
  <2>1. /\ At("ready") /\ Logs /\ stage = "start" /\ stage' \in {"started", "failed"}
        /\ UNCHANGED <<process, logVars>>
    BY <1>12 DEF StartServer
  <2>2. frames[1].line = 1 /\ frames[1].line < LINES + 2
    BY <2>1, ShutdownAssumption DEF IInv, StackShape
  <2>3. StackTyped' /\ Kept'
    BY <2>1, <2>2, LogsKeeps DEF logVars
  <2>4. Others'
    BY <1>0, <1>12 DEF Others, logVars, StartServer
  <2> QED BY <1>1, <2>3, <2>4
<1>13. CASE Started
  <2>1. /\ stage = "started" /\ stage' = "serve" /\ process = "runs"
        /\ UNCHANGED <<process, frames, logVars>>
    BY <1>13 DEF Started
  <2>2. StackTyped' /\ Kept'
    BY <2>1, StillKeeps DEF ShutdownLogged, logVars
  <2>3. Others'
    BY <1>0, <1>13 DEF Others, logVars, Started
  <2> QED BY <1>1, <2>2, <2>3
<1>14. CASE Serve
  <2>1. /\ At("ready") /\ Logs /\ stage = "serve" /\ frames[1].line < LINES + 2
        /\ UNCHANGED <<process, stage, logVars>>
    <3>1. 2 + LINES = LINES + 2
      BY ShutdownAssumption
    <3> QED BY <1>14, <3>1 DEF Serve
  <2>2. StackTyped' /\ Kept'
    BY <2>1, LogsKeeps DEF logVars
  <2>3. Others'
    BY <1>0, <1>14 DEF Others, logVars, Serve
  <2> QED BY <1>1, <2>2, <2>3
<1>15. CASE Killed
  <2>1. process' = "terminated" /\ UNCHANGED <<frames, stage, log_file, file, disk, finished>>
    BY <1>15 DEF Killed
  <2>2. StackTyped' /\ Kept'
    BY <2>1, StillKeeps DEF ShutdownLogged
  <2>3. Others'
    BY <1>0, <1>15, EmptySeq DEF Others, Killed
  <2> QED BY <1>1, <2>2, <2>3
<1>16. ASSUME NEW s \in Signals, Arrive(s)
       PROVE  IInv'
  <2>1. Others'
    BY <1>0, <1>16 DEF Others, logVars, Arrive
  <2> QED BY <1>1, <1>16, <2>1, ArriveKeeps
<1>17. CASE UNCHANGED vars
  <2>1. StackTyped' /\ Kept'
    BY <1>17, StillKeeps DEF IInv, LoggedSound, ShutdownLogged, vars, logVars
  <2>2. Others'
    BY <1>0, <1>17 DEF Others, vars, logVars
  <2> QED BY <1>1, <2>1, <2>2
<1> QED BY <1>2, <1>3, <1>4, <1>5, <1>6, <1>7, <1>8, <1>9, <1>10, <1>11, <1>12, <1>13,
           <1>14, <1>15, <1>16, <1>17 DEF Next, Program, Plog, PlogClose

\* Every state that the program and its signals reach satisfies the invariant.
THEOREM Invariance == Spec => []IInv
BY Starts, Step, PTL DEF Spec

\* The variables of main, the handlers and the logger have their types, however
\* many handlers are on the stack (main.c:199-227, logger.c).
THEOREM TypeCorrect == Spec => []TypeOK
<1>1. IInv => TypeOK
  BY DEF IInv
<1> QED BY <1>1, Invariance, PTL

\* A closed log file is used only by a handler that has interrupted plog_close
\* between fclose and the reset of the pointer (logger.c:17-22, 40).
THEOREM ClosedIsUnused == Spec => []ClosedUnused
<1>1. IInv => ClosedUnused
  BY DEF IInv, PointerSound, ClosedUnused, Resetting
<1> QED BY <1>1, Invariance, PTL

\* A line whose plog has returned is whole in server.log, however the process
\* ends and whatever has interrupted plog (logger.c:40-48).
THEOREM LinesAreWhole == Spec => []LinesWhole
<1>1. IInv => LinesWhole
  BY DEF IInv
<1> QED BY <1>1, Invariance, PTL

\* The running server exits only after it has logged that it shuts down
\* (main.c:201-207).
THEOREM ShutdownIsLogged == Spec => []ShutdownLogged
<1>1. IInv => ShutdownLogged
  BY DEF IInv, LoggedSound
<1> QED BY <1>1, Invariance, PTL
=============================================================================
