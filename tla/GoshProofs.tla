----------------------------- MODULE GoshProofs -----------------------------
(***************************************************************************)
(* The safety properties of Gosh and its refinement of SerialTests, for    *)
(* any number of tests, lines and any FIFO capacity.                       *)
(***************************************************************************)
EXTENDS Gosh, TLAPS

Handed == {"received", "judged", "done"}
Attached == {"open", "broken", "gone"}   \* the scanner has met its writer
Met == Attached \cup {"eof"}
Forked == Redirected \cup {"openErr", "end"}

(* Where the shell is tells where the connection and its subtest are. *)
ControlInv ==
  /\ conn = "none" <=> pc \notin {"startAck", "endAck"}
  /\ pc \in {"setupOnce", "start"} => sub[cur] = "none"
  /\ pc = "startAck" => \/ conn = "start" /\ sub[cur] = "none"
                        \/ /\ conn = "handled"
                           /\ sub[cur] \in {"spawned", "waiting"}
  /\ pc = "openOut" => sub[cur] \in {"spawned", "waiting"}
  /\ pc \in Forked => sub[cur] = "waiting"
  /\ pc = "endAck" => \/ conn \in {"end", "ending"} /\ sub[cur] = "waiting"
                      \/ conn = "handled" /\ sub[cur] \in Handed
  /\ pc \in {"teardownOnce", "exited"} => cur = NTests /\ sub[cur] \in Handed
  /\ pc = "aborted" => sub[cur] \in {"none", "waiting"} \cup Handed

(* Tests before the current one are handed over, later ones untouched. *)
OrderInv ==
  \A i \in Tests : /\ i < cur => sub[i] \in Handed
                   /\ i > cur => sub[i] = "none"

(* A goroutine's place fixes its test's status and cleanup. *)
StatusInv ==
  \A i \in Tests :
    /\ sub[i] \in {"none", "spawned"} => status[i] = "NotStarted"
    /\ sub[i] \in {"waiting", "received"} => status[i] = "Running"
    /\ sub[i] \in {"judged", "done"} => status[i] \in {"Passed", "Failed"}
    /\ closed[i] <=> sub[i] = "done"

(* Scanners start with Run and have met their writers once the shell is    *)
(* past the redirections.                                                  *)
ReaderInv ==
  \A i \in Tests, p \in Pipes :
    /\ sub[i] \in {"none", "spawned"} <=> reader[i][p] = "none"
    /\ reader[i][p] # "refused"
    /\ i < cur => reader[i][p] \in Met
    /\ i = cur =>
         /\ pc \in {"startAck", "openOut"} => reader[i][p] \notin Met
         /\ pc = "openErr" => IF p = "out" THEN reader[i][p] \in Attached
                              ELSE reader[i][p] \notin Met
         /\ pc \in Redirected => reader[i][p] \in Attached
         /\ pc \in {"end", "endAck", "teardownOnce", "exited"} =>
              reader[i][p] \in Met
         /\ pc = "aborted" /\ sub[i] # "none" =>
              reader[i][p] \in Met

(* The parents complete after the shell; an abort marks them failed. *)
TreeInv ==
  /\ tree # "running" => pc \in {"exited", "aborted"}
  /\ tree # "running" /\ pc = "aborted" => failed
  /\ \A i \in Tests : sub[i] \in {"judged", "done"} /\ code[i] = 1 =>
       failed \/ tree = "panicked"
  /\ failed \/ tree = "panicked" =>
       pc = "aborted" \/ \E i \in Tests : code[i] = 1

(* Exit codes: what they say about the function and the hooks. *)
CodeInv ==
  /\ \A i \in Tests :
       /\ i < cur => (code[i] = 0 => fnOk[i] /\ tornDown[i])
       /\ i > cur => code[i] = 0
       /\ sub[i] \in {"judged", "done"} =>
            status[i] = (IF code[i] = 0 THEN "Passed" ELSE "Failed")
  /\ pc \in {"setupOnce", "start", "startAck", "openOut", "openErr", "setup",
             "body"} => code[cur] = 0
  /\ pc \in {"trap", "trapErr", "teardown"} => (code[cur] = 0 => fnOk[cur])
  /\ pc \in {"end", "endAck", "teardownOnce", "exited"} =>
       (code[cur] = 0 => fnOk[cur] /\ tornDown[cur])
  /\ pc = "aborted" /\ sub[cur] # "none" =>
       (code[cur] = 0 => fnOk[cur] /\ tornDown[cur])
  /\ pc = "aborted" /\ sub[cur] = "waiting" => code[cur] = 1

(* A scanner at work has lost nothing. *)
LineInv ==
  \A i \in Tests, p \in Pipes :
    /\ reader[i][p] \in {"open", "eof"} => owed[i][p] = Len(fifo[i][p])
    /\ reader[i][p] = "eof" => fifo[i][p] = <<>>
    /\ reader[i][p] \in {"none", "launched", "opening"} =>
         owed[i][p] = 0 /\ fifo[i][p] = <<>>

IInv ==
  TypeOK /\ ControlInv /\ OrderInv /\ StatusInv /\ ReaderInv /\ TreeInv
    /\ CodeInv /\ LineInv

USE DEF Handed, Attached, Met, Writing, Redirected, Forked, vars, shell, script, verdicts, gopart,
        parents, pipes, output

LEMMA SetupOnceStep ==
  ASSUME IInv, NEW c \in {0, 1}, SetupOnce(c)
  PROVE  IInv'
<1> USE DEF IInv, TypeOK, SetupOnce
<1>1. ShellTypeOK'
  BY DEF ShellTypeOK, PCs, ConnStates
<1>2. GoTypeOK' /\ ReaderTypeOK' /\ OutputTypeOK' /\ OrderInv' /\ StatusInv'
      /\ LineInv'
  BY DEF GoTypeOK, ReaderTypeOK, OutputTypeOK, OrderInv, StatusInv, LineInv
<1>3. ControlInv'
  BY DEF ControlInv, ShellTypeOK, GoTypeOK, CodeInv, PCs
<1>4. ReaderInv'
  BY DEF ReaderInv, ShellTypeOK, GoTypeOK, ReaderTypeOK, ControlInv
<1>5. TreeInv'
  BY DEF TreeInv, ShellTypeOK, GoTypeOK
<1>6. CodeInv'
  BY DEF CodeInv, ShellTypeOK, GoTypeOK, ControlInv, PCs
<1> QED
  BY <1>1, <1>2, <1>3, <1>4, <1>5, <1>6

LEMMA TeardownOnceStep ==
  ASSUME IInv, NEW c \in {0, 1}, TeardownOnce(c)
  PROVE  IInv'
<1> USE DEF IInv, TypeOK, TeardownOnce
<1>1. ShellTypeOK'
  BY DEF ShellTypeOK, PCs, ConnStates
<1>2. GoTypeOK' /\ ReaderTypeOK' /\ OutputTypeOK' /\ OrderInv' /\ StatusInv'
      /\ LineInv'
  BY DEF GoTypeOK, ReaderTypeOK, OutputTypeOK, OrderInv, StatusInv, LineInv
<1>3. ControlInv'
  BY DEF ControlInv, ShellTypeOK, GoTypeOK, CodeInv, PCs
<1>4. ReaderInv'
  BY DEF ReaderInv, ShellTypeOK, GoTypeOK, ReaderTypeOK, ControlInv
<1>5. TreeInv'
  BY DEF TreeInv, ShellTypeOK, GoTypeOK
<1>6. CodeInv'
  BY DEF CodeInv, ShellTypeOK, GoTypeOK, ControlInv, PCs
<1> QED
  BY <1>1, <1>2, <1>3, <1>4, <1>5, <1>6

LEMMA SignalStartStep ==
  ASSUME IInv, SignalStart
  PROVE  IInv'
<1> USE DEF IInv, TypeOK, SignalStart
<1>1. ShellTypeOK'
  BY DEF ShellTypeOK, PCs, ConnStates
<1>2. GoTypeOK' /\ ReaderTypeOK' /\ OutputTypeOK' /\ OrderInv' /\ StatusInv'
      /\ LineInv'
  BY DEF GoTypeOK, ReaderTypeOK, OutputTypeOK, OrderInv, StatusInv, LineInv
<1>3. ControlInv'
  BY DEF ControlInv, ShellTypeOK, GoTypeOK, PCs
<1>4. ReaderInv'
  BY DEF ReaderInv, ShellTypeOK, GoTypeOK, ReaderTypeOK, ControlInv
<1>5. TreeInv'
  BY DEF TreeInv, ShellTypeOK, GoTypeOK
<1>6. CodeInv'
  BY DEF CodeInv, ShellTypeOK, GoTypeOK, PCs
<1> QED
  BY <1>1, <1>2, <1>3, <1>4, <1>5, <1>6

LEMMA StartAckedStep ==
  ASSUME IInv, StartAcked
  PROVE  IInv'
<1> USE DEF IInv, TypeOK, StartAcked
<1>1. ShellTypeOK'
  BY DEF ShellTypeOK, PCs, ConnStates
<1>2. GoTypeOK' /\ ReaderTypeOK' /\ OutputTypeOK' /\ OrderInv' /\ StatusInv'
      /\ LineInv'
  BY DEF GoTypeOK, ReaderTypeOK, OutputTypeOK, OrderInv, StatusInv, LineInv
<1>3. ControlInv'
  BY DEF ControlInv, ShellTypeOK, GoTypeOK, PCs
<1>4. ReaderInv'
  BY DEF ReaderInv, ShellTypeOK, GoTypeOK, ReaderTypeOK, ControlInv
<1>5. TreeInv'
  BY DEF TreeInv, ShellTypeOK, GoTypeOK
<1>6. CodeInv'
  BY DEF CodeInv, ShellTypeOK, GoTypeOK, PCs
<1> QED
  BY <1>1, <1>2, <1>3, <1>4, <1>5, <1>6

LEMMA OpenOutStep ==
  ASSUME IInv, OpenOut
  PROVE  IInv'
<1> USE DEF IInv, TypeOK, OpenOut, OpenPipe, FifoReady
<1>1. ShellTypeOK'
  BY DEF ShellTypeOK, PCs, ConnStates
<1>2. ReaderTypeOK'
  BY DEF ReaderTypeOK, ReaderStates, Pipes
<1>3. GoTypeOK' /\ OutputTypeOK' /\ OrderInv' /\ StatusInv'
  BY DEF GoTypeOK, OutputTypeOK, OrderInv, StatusInv
<1>4. ControlInv'
  BY DEF ControlInv, ShellTypeOK, GoTypeOK, ReaderInv, PCs, Pipes
<1>5. ReaderInv'
  BY GoshAssumption DEF ReaderInv, ShellTypeOK, GoTypeOK, ReaderTypeOK,
                        ControlInv, OrderInv, Tests, Pipes
<1>6. TreeInv'
  BY DEF TreeInv, ShellTypeOK, GoTypeOK
<1>7. CodeInv'
  BY DEF CodeInv, ShellTypeOK, GoTypeOK, ControlInv, PCs
<1>8. LineInv'
  BY DEF LineInv, ReaderTypeOK, OutputTypeOK
<1> QED
  BY <1>1, <1>2, <1>3, <1>4, <1>5, <1>6, <1>7, <1>8

LEMMA OpenErrStep ==
  ASSUME IInv, OpenErr
  PROVE  IInv'
<1> USE DEF IInv, TypeOK, OpenErr, OpenPipe, FifoReady
<1>1. ShellTypeOK'
  BY DEF ShellTypeOK, PCs, ConnStates
<1>2. ReaderTypeOK'
  BY DEF ReaderTypeOK, ReaderStates, Pipes
<1>3. GoTypeOK' /\ OutputTypeOK' /\ OrderInv' /\ StatusInv'
  BY DEF GoTypeOK, OutputTypeOK, OrderInv, StatusInv
<1>4. ControlInv'
  BY DEF ControlInv, ShellTypeOK, GoTypeOK, ReaderInv, PCs, Pipes
<1>5. ReaderInv'
  BY GoshAssumption DEF ReaderInv, ShellTypeOK, GoTypeOK, ReaderTypeOK,
                        ControlInv, OrderInv, Tests, Pipes
<1>6. TreeInv'
  BY DEF TreeInv, ShellTypeOK, GoTypeOK
<1>7. CodeInv'
  BY DEF CodeInv, ShellTypeOK, GoTypeOK, ControlInv, PCs
<1>8. LineInv'
  BY DEF LineInv, ReaderTypeOK, OutputTypeOK
<1> QED
  BY <1>1, <1>2, <1>3, <1>4, <1>5, <1>6, <1>7, <1>8

LEMMA SetupStep ==
  ASSUME IInv, NEW c \in {0, 1}, Setup(c)
  PROVE  IInv'
<1> USE DEF IInv, TypeOK, Setup
<1>1. ShellTypeOK'
  BY DEF ShellTypeOK, PCs, ConnStates
<1>2. GoTypeOK' /\ ReaderTypeOK' /\ OutputTypeOK' /\ OrderInv' /\ StatusInv'
      /\ LineInv'
  BY DEF GoTypeOK, ReaderTypeOK, OutputTypeOK, OrderInv, StatusInv, LineInv
<1>3. ControlInv'
  BY DEF ControlInv, ShellTypeOK, GoTypeOK, PCs
<1>4. ReaderInv'
  BY DEF ReaderInv, ShellTypeOK, GoTypeOK, ReaderTypeOK, ControlInv
<1>5. TreeInv'
  BY DEF TreeInv, ShellTypeOK, GoTypeOK, ControlInv, CodeInv
<1>6. CodeInv'
  BY GoshAssumption DEF CodeInv, ShellTypeOK, GoTypeOK, ControlInv, PCs, Tests
<1> QED
  BY <1>1, <1>2, <1>3, <1>4, <1>5, <1>6

LEMMA WriteLineStep ==
  ASSUME IInv, NEW p \in Pipes, NEW k \in LineKinds, WriteLine(p, k)
  PROVE  IInv'
<1> USE DEF IInv, TypeOK, WriteLine
<1>0. /\ cur \in Tests
      /\ fifo[cur][p] \in Seq(LineKinds)
      /\ owed[cur][p] \in Nat
  BY DEF ShellTypeOK, OutputTypeOK
<1>a. /\ Append(fifo[cur][p], k) \in Seq(LineKinds)
      /\ Len(Append(fifo[cur][p], k)) = Len(fifo[cur][p]) + 1
      /\ Len(fifo[cur][p]) \in Nat
      /\ Append(fifo[cur][p], k) # <<>>
  BY <1>0
<1>1. OutputTypeOK'
  BY <1>0, <1>a, GoshAssumption DEF OutputTypeOK
<1>2. ShellTypeOK' /\ GoTypeOK' /\ ReaderTypeOK' /\ ControlInv' /\ OrderInv'
      /\ StatusInv' /\ ReaderInv' /\ TreeInv' /\ CodeInv'
  BY DEF ShellTypeOK, GoTypeOK, ReaderTypeOK, ControlInv, OrderInv, StatusInv,
         ReaderInv, TreeInv, CodeInv
<1>3. LineInv'
  <2>1. reader[cur][p] \in Attached
    BY <1>0 DEF ReaderInv
  <2>2. ASSUME NEW i \in Tests, NEW q \in Pipes, i # cur \/ q # p
        PROVE  fifo'[i][q] = fifo[i][q] /\ owed'[i][q] = owed[i][q]
    BY <1>0, <2>2 DEF OutputTypeOK
  <2>3. /\ fifo'[cur][p] = Append(fifo[cur][p], k)
        /\ owed'[cur][p] = owed[cur][p] + 1
    BY <1>0 DEF OutputTypeOK
  <2> SUFFICES ASSUME NEW i \in Tests, NEW q \in Pipes
               PROVE  LineInv!(i, q)'
    BY DEF LineInv
  <2>5. CASE i = cur /\ q = p
    <3>1. reader' = reader
      OBVIOUS
    <3>2. reader[cur][p] \notin {"eof", "none", "launched", "opening"}
      BY <2>1
    <3>3. reader[cur][p] = "open" => owed'[cur][p] = Len(fifo'[cur][p])
      BY <1>0, <1>a, <2>3 DEF LineInv
    <3> QED
      BY ONLY <2>5, <3>1, <3>2, <3>3 DEF vars, output
  <2>6. CASE i # cur \/ q # p
    BY <2>2, <2>6 DEF LineInv
  <2> QED
    BY <2>5, <2>6
<1> QED
  BY <1>1, <1>2, <1>3

LEMMA BrokenPipeStep ==
  ASSUME IInv, NEW p \in Pipes, BrokenPipe(p)
  PROVE  IInv'
<1> USE DEF IInv, TypeOK, BrokenPipe
<1>1. ShellTypeOK'
  BY DEF ShellTypeOK, PCs, ConnStates
<1>2. GoTypeOK' /\ ReaderTypeOK' /\ OutputTypeOK' /\ OrderInv' /\ StatusInv'
      /\ LineInv'
  BY DEF GoTypeOK, ReaderTypeOK, OutputTypeOK, OrderInv, StatusInv, LineInv
<1>3. ControlInv'
  BY DEF ControlInv, ShellTypeOK, GoTypeOK, PCs
<1>4. ReaderInv'
  BY DEF ReaderInv, ShellTypeOK, GoTypeOK, ReaderTypeOK, ControlInv
<1>5. TreeInv'
  <2>1. code[cur] = 0 \/ code'[cur] = 1
    BY DEF CodeInv, ShellTypeOK
  <2>2. sub[cur] = "waiting" /\ sub' = sub
    BY DEF ControlInv
  <2>3. \A i \in Tests : i # cur => code'[i] = code[i]
    BY DEF ShellTypeOK
  <2> QED
    BY <2>1, <2>2, <2>3 DEF TreeInv, ShellTypeOK, GoTypeOK
<1>6. CodeInv'
  <2>1. cur \in Tests /\ cur' = cur /\ sub' = sub /\ status' = status
        /\ tornDown' = tornDown /\ sub[cur] = "waiting"
    BY DEF ControlInv, ShellTypeOK
  <2>2. \A i \in Tests : i # cur => code'[i] = code[i] /\ fnOk'[i] = fnOk[i]
    BY DEF ShellTypeOK
  <2>3. CodeInv!1'
    BY <2>1, <2>2 DEF CodeInv, Tests
  <2>4. code'[cur] = 0 => fnOk'[cur]
    BY <2>1 DEF ShellTypeOK
  <2>5. pc' \in {"trap", "end"} /\ (pc' = "end" => code'[cur] = 1)
    BY <2>1 DEF ShellTypeOK
  <2> QED
    BY <2>1, <2>3, <2>4, <2>5 DEF CodeInv
<1> QED
  BY <1>1, <1>2, <1>3, <1>4, <1>5, <1>6

LEMMA FinishBodyStep ==
  ASSUME IInv, NEW c \in {0, 1}, FinishBody(c)
  PROVE  IInv'
<1> USE DEF IInv, TypeOK, FinishBody
<1>1. ShellTypeOK'
  BY DEF ShellTypeOK, PCs, ConnStates
<1>2. GoTypeOK' /\ ReaderTypeOK' /\ OutputTypeOK' /\ OrderInv' /\ StatusInv'
      /\ LineInv'
  BY DEF GoTypeOK, ReaderTypeOK, OutputTypeOK, OrderInv, StatusInv, LineInv
<1>3. ControlInv'
  BY DEF ControlInv, ShellTypeOK, GoTypeOK, PCs
<1>4. ReaderInv'
  BY DEF ReaderInv, ShellTypeOK, GoTypeOK, ReaderTypeOK, ControlInv
<1>5. TreeInv'
  <2>1. code[cur] = 0 \/ code'[cur] = 1
    BY DEF CodeInv, ShellTypeOK
  <2>2. sub[cur] = "waiting" /\ sub' = sub
    BY DEF ControlInv
  <2>3. \A i \in Tests : i # cur => code'[i] = code[i]
    BY DEF ShellTypeOK
  <2> QED
    BY <2>1, <2>2, <2>3 DEF TreeInv, ShellTypeOK, GoTypeOK
<1>6. CodeInv'
  <2>1. cur \in Tests /\ cur' = cur /\ sub' = sub /\ status' = status
        /\ tornDown' = tornDown /\ sub[cur] = "waiting"
    BY DEF ControlInv, ShellTypeOK
  <2>2. \A i \in Tests : i # cur => code'[i] = code[i] /\ fnOk'[i] = fnOk[i]
    BY DEF ShellTypeOK
  <2>3. CodeInv!1'
    BY <2>1, <2>2 DEF CodeInv, Tests
  <2>4. code'[cur] = 0 => fnOk'[cur]
    BY <2>1 DEF ShellTypeOK
  <2>5. pc' \in {"trap", "end"} /\ (pc' = "end" => code'[cur] = 1)
    BY <2>1 DEF ShellTypeOK
  <2> QED
    BY <2>1, <2>3, <2>4, <2>5 DEF CodeInv
<1> QED
  BY <1>1, <1>2, <1>3, <1>4, <1>5, <1>6

LEMMA ReopenOutStep ==
  ASSUME IInv, ReopenOut
  PROVE  IInv'
<1> USE DEF IInv, TypeOK, ReopenOut, ReopenPipe
<1>1. ShellTypeOK'
  BY DEF ShellTypeOK, PCs, ConnStates
<1>2. GoTypeOK' /\ ReaderTypeOK' /\ OutputTypeOK' /\ OrderInv' /\ StatusInv'
      /\ LineInv'
  BY DEF GoTypeOK, ReaderTypeOK, OutputTypeOK, OrderInv, StatusInv, LineInv
<1>3. ControlInv'
  BY DEF ControlInv, ShellTypeOK, GoTypeOK, PCs
<1>4. ReaderInv'
  BY DEF ReaderInv, ShellTypeOK, GoTypeOK, ReaderTypeOK, ControlInv
<1>5. TreeInv'
  BY DEF TreeInv, ShellTypeOK, GoTypeOK
<1>6. CodeInv'
  BY DEF CodeInv, ShellTypeOK, GoTypeOK, PCs
<1> QED
  BY <1>1, <1>2, <1>3, <1>4, <1>5, <1>6

LEMMA ReopenErrStep ==
  ASSUME IInv, ReopenErr
  PROVE  IInv'
<1> USE DEF IInv, TypeOK, ReopenErr, ReopenPipe
<1>1. ShellTypeOK'
  BY DEF ShellTypeOK, PCs, ConnStates
<1>2. GoTypeOK' /\ ReaderTypeOK' /\ OutputTypeOK' /\ OrderInv' /\ StatusInv'
      /\ LineInv'
  BY DEF GoTypeOK, ReaderTypeOK, OutputTypeOK, OrderInv, StatusInv, LineInv
<1>3. ControlInv'
  BY DEF ControlInv, ShellTypeOK, GoTypeOK, PCs
<1>4. ReaderInv'
  BY DEF ReaderInv, ShellTypeOK, GoTypeOK, ReaderTypeOK, ControlInv
<1>5. TreeInv'
  BY DEF TreeInv, ShellTypeOK, GoTypeOK
<1>6. CodeInv'
  BY DEF CodeInv, ShellTypeOK, GoTypeOK, PCs
<1> QED
  BY <1>1, <1>2, <1>3, <1>4, <1>5, <1>6

LEMMA TeardownStep ==
  ASSUME IInv, NEW c \in {0, 1}, Teardown(c)
  PROVE  IInv'
<1> USE DEF IInv, TypeOK, Teardown, TrapCode
<1>1. ShellTypeOK'
  BY DEF ShellTypeOK, PCs, ConnStates
<1>2. GoTypeOK' /\ ReaderTypeOK' /\ OutputTypeOK' /\ OrderInv' /\ StatusInv'
      /\ LineInv'
  BY DEF GoTypeOK, ReaderTypeOK, OutputTypeOK, OrderInv, StatusInv, LineInv
<1>3. ControlInv'
  BY DEF ControlInv, ShellTypeOK, GoTypeOK, PCs
<1>4. ReaderInv'
  BY DEF ReaderInv, ShellTypeOK, GoTypeOK, ReaderTypeOK, ControlInv
<1>5. TreeInv'
  BY DEF TreeInv, ShellTypeOK, GoTypeOK, ControlInv, CodeInv
<1>6. CodeInv'
  BY GoshAssumption DEF CodeInv, ShellTypeOK, GoTypeOK, ControlInv, PCs, Tests
<1> QED
  BY <1>1, <1>2, <1>3, <1>4, <1>5, <1>6

LEMMA SignalEndStep ==
  ASSUME IInv, SignalEnd
  PROVE  IInv'
<1> USE DEF IInv, TypeOK, SignalEnd
<1>1. ShellTypeOK'
  BY DEF ShellTypeOK, PCs, ConnStates
<1>2. GoTypeOK' /\ ReaderTypeOK' /\ OutputTypeOK' /\ OrderInv' /\ StatusInv'
      /\ LineInv'
  BY DEF GoTypeOK, ReaderTypeOK, OutputTypeOK, OrderInv, StatusInv, LineInv
<1>3. ControlInv'
  BY DEF ControlInv, ShellTypeOK, GoTypeOK, CodeInv, PCs
<1>4. ReaderInv'
  BY DEF ReaderInv, ShellTypeOK, GoTypeOK, ReaderTypeOK, ControlInv
<1>5. TreeInv'
  BY DEF TreeInv, ShellTypeOK, GoTypeOK
<1>6. CodeInv'
  BY DEF CodeInv, ShellTypeOK, GoTypeOK, ControlInv, PCs
<1> QED
  BY <1>1, <1>2, <1>3, <1>4, <1>5, <1>6

LEMMA EndAckedStep ==
  ASSUME IInv, EndAcked
  PROVE  IInv'
<1> USE DEF IInv, TypeOK, EndAcked, LastTest
<1>0. cur' \in Tests
  BY GoshAssumption DEF ShellTypeOK, Tests
<1>1. ShellTypeOK'
  BY <1>0 DEF ShellTypeOK, PCs, ConnStates
<1>2. GoTypeOK' /\ ReaderTypeOK' /\ OutputTypeOK' /\ StatusInv' /\ LineInv'
  BY DEF GoTypeOK, ReaderTypeOK, OutputTypeOK, StatusInv, LineInv
<1>3. ControlInv'
  BY GoshAssumption DEF ControlInv, ShellTypeOK, GoTypeOK, OrderInv, PCs,
                        Tests, CodeInv
<1>4. OrderInv'
  BY GoshAssumption DEF OrderInv, GoTypeOK, ControlInv, ShellTypeOK, Tests
<1>5. ReaderInv'
  BY GoshAssumption DEF ReaderInv, ShellTypeOK, GoTypeOK, ReaderTypeOK,
                        ControlInv, OrderInv, Tests
<1>6. TreeInv'
  BY DEF TreeInv, ShellTypeOK, GoTypeOK
<1>7. CodeInv'
  BY GoshAssumption DEF CodeInv, ShellTypeOK, GoTypeOK, ControlInv, OrderInv,
                        PCs, Tests
<1> QED
  BY <1>1, <1>2, <1>3, <1>4, <1>5, <1>6, <1>7

LEMMA HandleStartStep ==
  ASSUME IInv, HandleStart
  PROVE  IInv'
<1> USE DEF IInv, TypeOK, HandleStart
<1>1. ShellTypeOK'
  BY DEF ShellTypeOK, PCs, ConnStates
<1>2. GoTypeOK'
  BY DEF GoTypeOK, Statuses, SubStates, TreeStates
<1>3. ReaderTypeOK' /\ OutputTypeOK' /\ LineInv'
  BY DEF ReaderTypeOK, OutputTypeOK, LineInv
<1>4. ControlInv'
  BY DEF ControlInv, ShellTypeOK, GoTypeOK, PCs
<1>5. OrderInv'
  BY GoshAssumption DEF OrderInv, GoTypeOK, ControlInv, ShellTypeOK, Tests
<1>6. StatusInv'
  BY DEF StatusInv, GoTypeOK, ControlInv
<1>7. ReaderInv'
  BY DEF ReaderInv, ShellTypeOK, GoTypeOK, ReaderTypeOK, ControlInv
<1>8. TreeInv'
  BY DEF TreeInv, ShellTypeOK, GoTypeOK
<1>9. CodeInv'
  BY DEF CodeInv, ShellTypeOK, GoTypeOK, ControlInv
<1> QED
  BY <1>1, <1>2, <1>3, <1>4, <1>5, <1>6, <1>7, <1>8, <1>9

LEMMA RunTestStep ==
  ASSUME IInv, NEW i \in Tests, RunTest(i)
  PROVE  IInv'
<1> USE DEF IInv, TypeOK, RunTest, Scanners
<1>1. GoTypeOK'
  BY DEF GoTypeOK, Statuses, SubStates, TreeStates
<1>2. ReaderTypeOK'
  BY DEF ReaderTypeOK, ReaderStates, Pipes
<1>3. ShellTypeOK' /\ OutputTypeOK'
  BY DEF ShellTypeOK, OutputTypeOK
<1>4. ControlInv'
  BY DEF ControlInv, ShellTypeOK, GoTypeOK, PCs
<1>5. OrderInv'
  BY DEF OrderInv, GoTypeOK
<1>6. StatusInv'
  BY DEF StatusInv, GoTypeOK
<1>7. ReaderInv'
  BY GoshAssumption DEF ReaderInv, ShellTypeOK, GoTypeOK, ReaderTypeOK,
                        ControlInv, OrderInv, Tests
<1>8. TreeInv'
  BY DEF TreeInv, ShellTypeOK, GoTypeOK
<1>9. CodeInv'
  BY DEF CodeInv, ShellTypeOK, GoTypeOK, ControlInv
<1>10. LineInv'
  BY DEF LineInv, ReaderTypeOK, OutputTypeOK, ReaderInv
<1> QED
  BY <1>1, <1>2, <1>3, <1>4, <1>5, <1>6, <1>7, <1>8, <1>9, <1>10

LEMMA HandleEndStep ==
  ASSUME IInv, HandleEnd
  PROVE  IInv'
<1> USE DEF IInv, TypeOK, HandleEnd, EndReply
<1>1. ShellTypeOK'
  BY DEF ShellTypeOK, PCs, ConnStates
<1>2. GoTypeOK' /\ ReaderTypeOK' /\ OutputTypeOK' /\ OrderInv' /\ StatusInv'
      /\ ReaderInv' /\ TreeInv' /\ CodeInv' /\ LineInv'
  BY DEF GoTypeOK, ReaderTypeOK, OutputTypeOK, OrderInv, StatusInv, ReaderInv,
         TreeInv, CodeInv, LineInv
<1>3. ControlInv'
  BY DEF ControlInv, ShellTypeOK, GoTypeOK, StatusInv, PCs
<1> QED
  BY <1>1, <1>2, <1>3

LEMMA PassExitCodeStep ==
  ASSUME IInv, PassExitCode
  PROVE  IInv'
<1> USE DEF IInv, TypeOK, PassExitCode
<1>1. ShellTypeOK'
  BY DEF ShellTypeOK, PCs, ConnStates
<1>2. GoTypeOK'
  BY DEF GoTypeOK, Statuses, SubStates, TreeStates
<1>3. ReaderTypeOK' /\ OutputTypeOK' /\ LineInv'
  BY DEF ReaderTypeOK, OutputTypeOK, LineInv
<1>4. ControlInv'
  BY DEF ControlInv, ShellTypeOK, GoTypeOK, PCs
<1>5. OrderInv'
  BY GoshAssumption DEF OrderInv, GoTypeOK, ControlInv, ShellTypeOK, Tests
<1>6. StatusInv'
  BY DEF StatusInv, GoTypeOK
<1>7. ReaderInv'
  BY DEF ReaderInv, ShellTypeOK, GoTypeOK, ReaderTypeOK, ControlInv
<1>8. TreeInv'
  BY DEF TreeInv, ShellTypeOK, GoTypeOK
<1>9. CodeInv'
  BY DEF CodeInv, ShellTypeOK, GoTypeOK, ControlInv
<1> QED
  BY <1>1, <1>2, <1>3, <1>4, <1>5, <1>6, <1>7, <1>8, <1>9

LEMMA JudgeTestStep ==
  ASSUME IInv, NEW i \in Tests, JudgeTest(i)
  PROVE  IInv'
<1> USE DEF IInv, TypeOK, JudgeTest, Verdict, Fail
<1>1. GoTypeOK'
  BY DEF GoTypeOK, Statuses, SubStates, TreeStates
<1>2. ShellTypeOK' /\ ReaderTypeOK' /\ OutputTypeOK' /\ LineInv'
  BY DEF ShellTypeOK, ReaderTypeOK, OutputTypeOK, LineInv
<1>3. ControlInv'
  BY DEF ControlInv, ShellTypeOK, GoTypeOK, PCs
<1>4. OrderInv'
  BY DEF OrderInv, GoTypeOK
<1>5. StatusInv'
  BY DEF StatusInv, GoTypeOK
<1>6. ReaderInv'
  BY DEF ReaderInv, ShellTypeOK, GoTypeOK, ReaderTypeOK
<1>7. TreeInv'
  BY DEF TreeInv, ShellTypeOK, GoTypeOK
<1>8. CodeInv'
  BY DEF CodeInv, ShellTypeOK, GoTypeOK
<1> QED
  BY <1>1, <1>2, <1>3, <1>4, <1>5, <1>6, <1>7, <1>8

LEMMA CancelTestStep ==
  ASSUME IInv, NEW i \in Tests, CancelTest(i)
  PROVE  IInv'
<1> USE DEF IInv, TypeOK, CancelTest, Cancelled, Alive
<1>1. GoTypeOK'
  BY DEF GoTypeOK, Statuses, SubStates, TreeStates
<1>2. ShellTypeOK' /\ ReaderTypeOK' /\ OutputTypeOK' /\ LineInv'
  BY DEF ShellTypeOK, ReaderTypeOK, OutputTypeOK, LineInv
<1>3. ControlInv'
  BY GoshAssumption DEF ControlInv, ShellTypeOK, GoTypeOK, TreeInv, OrderInv,
                        Tests, PCs
<1>4. OrderInv'
  BY GoshAssumption DEF OrderInv, GoTypeOK, ShellTypeOK, ControlInv, TreeInv,
                        Tests
<1>5. StatusInv'
  BY DEF StatusInv, GoTypeOK
<1>6. ReaderInv'
  BY DEF ReaderInv, ShellTypeOK, GoTypeOK, ReaderTypeOK
<1>7. TreeInv'
  BY GoshAssumption DEF TreeInv, ShellTypeOK, GoTypeOK, ControlInv, OrderInv,
                        CodeInv, Tests
<1>8. CodeInv'
  BY GoshAssumption DEF CodeInv, ShellTypeOK, GoTypeOK, ControlInv, OrderInv,
                        TreeInv, Tests
<1> QED
  BY <1>1, <1>2, <1>3, <1>4, <1>5, <1>6, <1>7, <1>8

LEMMA FinishTestStep ==
  ASSUME IInv, NEW i \in Tests, FinishTest(i)
  PROVE  IInv'
<1> USE DEF IInv, TypeOK, FinishTest, RunFailed, Fail
<1>1. GoTypeOK'
  BY DEF GoTypeOK, Statuses, SubStates, TreeStates
<1>2. ShellTypeOK' /\ ReaderTypeOK' /\ OutputTypeOK' /\ LineInv'
  BY DEF ShellTypeOK, ReaderTypeOK, OutputTypeOK, LineInv
<1>3. ControlInv'
  BY DEF ControlInv, ShellTypeOK, GoTypeOK, PCs
<1>4. OrderInv'
  BY DEF OrderInv, GoTypeOK
<1>5. StatusInv'
  BY DEF StatusInv, GoTypeOK
<1>6. ReaderInv'
  BY DEF ReaderInv, ShellTypeOK, GoTypeOK, ReaderTypeOK
<1>7. TreeInv'
  BY DEF TreeInv, ShellTypeOK, GoTypeOK, CodeInv, StatusInv
<1>8. CodeInv'
  BY DEF CodeInv, ShellTypeOK, GoTypeOK
<1> QED
  BY <1>1, <1>2, <1>3, <1>4, <1>5, <1>6, <1>7, <1>8

LEMMA OpenReaderStep ==
  ASSUME IInv, NEW i \in Tests, NEW p \in Pipes, OpenReader(i, p)
  PROVE  IInv'
<1> USE DEF IInv, TypeOK, OpenReader
<1>1. ReaderTypeOK'
  BY DEF ReaderTypeOK, ReaderStates, Pipes
<1>2. ShellTypeOK' /\ GoTypeOK' /\ OutputTypeOK' /\ ControlInv' /\ OrderInv'
      /\ StatusInv' /\ TreeInv' /\ CodeInv'
  BY DEF ShellTypeOK, GoTypeOK, OutputTypeOK, ControlInv, OrderInv, StatusInv,
         TreeInv, CodeInv
<1>3. ReaderInv'
  <2>1. ~closed[i]
    <3>1. SUFFICES ASSUME sub[i] = "done" PROVE FALSE
      BY DEF StatusInv, GoTypeOK
    <3>2. CASE i < cur
      BY <3>2 DEF ReaderInv
    <3>3. CASE i = cur
      BY <3>1, <3>3 DEF ReaderInv, ControlInv, ShellTypeOK, PCs
    <3>4. CASE i > cur
      BY <3>1, <3>4 DEF OrderInv
    <3> QED
      BY <3>2, <3>3, <3>4 DEF ShellTypeOK, Tests
  <2>2. ASSUME NEW j \in Tests, NEW q \in Pipes
        PROVE  \/ reader'[j][q] = reader[j][q]
               \/ reader[j][q] = "launched" /\ reader'[j][q] = "opening"
    BY <2>1 DEF ReaderTypeOK
  <2> QED
    BY <2>2 DEF ReaderInv
<1>4. LineInv'
  BY DEF LineInv, ReaderTypeOK, OutputTypeOK
<1> QED
  BY <1>1, <1>2, <1>3, <1>4

LEMMA ScanLineStep ==
  ASSUME IInv, NEW i \in Tests, NEW p \in Pipes, ScanLine(i, p)
  PROVE  IInv'
<1> USE DEF IInv, TypeOK, ScanLine
<1>1. ReaderTypeOK'
  BY DEF ReaderTypeOK, ReaderStates, Pipes
<1>0. /\ fifo[i][p] \in Seq(LineKinds)
      /\ owed[i][p] \in Nat
      /\ owed[i][p] = Len(fifo[i][p])
  BY DEF OutputTypeOK, LineInv
<1>a. /\ Tail(fifo[i][p]) \in Seq(LineKinds)
      /\ Len(Tail(fifo[i][p])) = Len(fifo[i][p]) - 1
      /\ Len(fifo[i][p]) \in Nat \ {0}
  BY <1>0
<1>2. OutputTypeOK'
  <2>1. fifo' \in [Tests -> [Pipes -> Seq(LineKinds)]]
    BY <1>a DEF OutputTypeOK
  <2>2. owed' \in [Tests -> [Pipes -> Nat]]
    <3>1. [owed EXCEPT ![i][p] = @ - 1] \in [Tests -> [Pipes -> Nat]]
      <4>1. owed[i][p] - 1 \in Nat
        BY <1>0, <1>a
      <4> QED
        BY <4>1 DEF OutputTypeOK
    <3>2. owed' = owed \/ owed' = [owed EXCEPT ![i][p] = @ - 1]
      OBVIOUS
    <3> QED
      BY <3>1, <3>2 DEF OutputTypeOK
  <2> QED
    BY <2>1, <2>2 DEF OutputTypeOK
<1>3. ShellTypeOK' /\ GoTypeOK' /\ ControlInv' /\ OrderInv' /\ StatusInv'
      /\ TreeInv' /\ CodeInv'
  BY DEF ShellTypeOK, GoTypeOK, ControlInv, OrderInv, StatusInv, TreeInv,
         CodeInv
<1>4. ReaderInv'
  <2>1. ASSUME NEW j \in Tests, NEW q \in Pipes
        PROVE  \/ reader'[j][q] = reader[j][q]
               \/ reader[j][q] = "open" /\ reader'[j][q] = "broken"
    BY DEF ReaderTypeOK
  <2> QED
    BY <2>1 DEF ReaderInv
<1>5. LineInv'
  <2>1. ASSUME NEW j \in Tests, NEW q \in Pipes, j # i \/ q # p
        PROVE  /\ fifo'[j][q] = fifo[j][q]
               /\ owed'[j][q] = owed[j][q]
               /\ reader'[j][q] = reader[j][q]
    <3>1. fifo'[j][q] = fifo[j][q]
      BY <2>1 DEF OutputTypeOK
    <3>2. owed'[j][q] = owed[j][q]
      BY <2>1 DEF OutputTypeOK
    <3>3. reader'[j][q] = reader[j][q]
      BY <2>1 DEF ReaderTypeOK
    <3> QED
      BY <3>1, <3>2, <3>3
  <2>2. fifo'[i][p] = Tail(fifo[i][p])
    BY DEF OutputTypeOK
  <2>3. \/ reader'[i][p] = "open" /\ owed'[i][p] = owed[i][p] - 1
        \/ reader'[i][p] = "broken"
    BY DEF OutputTypeOK, ReaderTypeOK
  <2> SUFFICES ASSUME NEW j \in Tests, NEW q \in Pipes
               PROVE  LineInv!(j, q)'
    BY DEF LineInv
  <2>4. CASE j = i /\ q = p
    <3>1. reader'[i][p] = "open" => owed'[i][p] = Len(fifo'[i][p])
      BY <1>0, <1>a, <2>2, <2>3
    <3>2. reader'[i][p] \in {"open", "broken"}
      BY <2>3
    <3> QED
      BY <2>4, <3>1, <3>2
  <2>5. CASE j # i \/ q # p
    BY <2>1, <2>5 DEF LineInv
  <2> QED
    BY <2>4, <2>5
<1> QED
  BY <1>1, <1>2, <1>3, <1>4, <1>5

LEMMA ScanEOFStep ==
  ASSUME IInv, NEW i \in Tests, NEW p \in Pipes, ScanEOF(i, p)
  PROVE  IInv'
<1> USE DEF IInv, TypeOK, ScanEOF, WriterOpen
<1>1. ReaderTypeOK'
  BY DEF ReaderTypeOK, ReaderStates, Pipes
<1>2. ShellTypeOK' /\ GoTypeOK' /\ OutputTypeOK' /\ ControlInv' /\ OrderInv'
      /\ StatusInv' /\ TreeInv' /\ CodeInv'
  BY DEF ShellTypeOK, GoTypeOK, OutputTypeOK, ControlInv, OrderInv, StatusInv,
         TreeInv, CodeInv
<1>3. ReaderInv'
  BY DEF ReaderInv, ShellTypeOK, GoTypeOK, ReaderTypeOK
<1>4. LineInv'
  BY DEF LineInv, ReaderTypeOK, OutputTypeOK
<1> QED
  BY <1>1, <1>2, <1>3, <1>4

LEMMA CollectReaderStep ==
  ASSUME IInv, NEW i \in Tests, NEW p \in Pipes, CollectReader(i, p)
  PROVE  IInv'
<1> USE DEF IInv, TypeOK, CollectReader
<1>1. ReaderTypeOK'
  BY DEF ReaderTypeOK, ReaderStates, Pipes
<1>2. ShellTypeOK' /\ GoTypeOK' /\ OutputTypeOK' /\ ControlInv' /\ OrderInv'
      /\ StatusInv' /\ TreeInv' /\ CodeInv'
  BY DEF ShellTypeOK, GoTypeOK, OutputTypeOK, ControlInv, OrderInv, StatusInv,
         TreeInv, CodeInv
<1>3. ReaderInv'
  BY DEF ReaderInv, ShellTypeOK, GoTypeOK, ReaderTypeOK
<1>4. LineInv'
  BY DEF LineInv, ReaderTypeOK, OutputTypeOK
<1> QED
  BY <1>1, <1>2, <1>3, <1>4

LEMMA ScriptReturnsStep ==
  ASSUME IInv, ScriptReturns
  PROVE  IInv'
<1> USE DEF IInv, TypeOK, ScriptReturns, RunError
<1>1. GoTypeOK'
  BY DEF GoTypeOK, Statuses, SubStates, TreeStates
<1>2. ShellTypeOK' /\ ReaderTypeOK' /\ OutputTypeOK' /\ ControlInv'
      /\ OrderInv' /\ StatusInv' /\ ReaderInv' /\ CodeInv' /\ LineInv'
  BY DEF ShellTypeOK, ReaderTypeOK, OutputTypeOK, ControlInv, OrderInv,
         StatusInv, ReaderInv, CodeInv, LineInv
<1>3. TreeInv'
  BY DEF TreeInv, ShellTypeOK, GoTypeOK
<1> QED
  BY <1>1, <1>2, <1>3

LEMMA ShellTestReturnsStep ==
  ASSUME IInv, ShellTestReturns
  PROVE  IInv'
<1> USE DEF IInv, TypeOK, ShellTestReturns
<1>1. GoTypeOK'
  BY DEF GoTypeOK, Statuses, SubStates, TreeStates
<1>2. ShellTypeOK' /\ ReaderTypeOK' /\ OutputTypeOK' /\ ControlInv'
      /\ OrderInv' /\ StatusInv' /\ ReaderInv' /\ CodeInv' /\ LineInv'
  BY DEF ShellTypeOK, ReaderTypeOK, OutputTypeOK, ControlInv, OrderInv,
         StatusInv, ReaderInv, CodeInv, LineInv
<1>3. TreeInv'
  BY DEF TreeInv, ShellTypeOK, GoTypeOK
<1> QED
  BY <1>1, <1>2, <1>3

LEMMA ExitProcessStep ==
  ASSUME IInv, ExitProcess
  PROVE  IInv'
<1> USE DEF IInv, TypeOK, ExitProcess
<1>1. GoTypeOK'
  BY DEF GoTypeOK, Statuses, SubStates, TreeStates
<1>2. ShellTypeOK' /\ ReaderTypeOK' /\ OutputTypeOK' /\ ControlInv'
      /\ OrderInv' /\ StatusInv' /\ ReaderInv' /\ CodeInv' /\ LineInv'
  BY DEF ShellTypeOK, ReaderTypeOK, OutputTypeOK, ControlInv, OrderInv,
         StatusInv, ReaderInv, CodeInv, LineInv
<1>3. TreeInv'
  BY DEF TreeInv, ShellTypeOK, GoTypeOK
<1> QED
  BY <1>1, <1>2, <1>3

-----------------------------------------------------------------------------
LEMMA InitIInv == Init => IInv
<1> SUFFICES ASSUME Init PROVE IInv
  OBVIOUS
<1> USE DEF Init
<1>0. 1 \in Tests
  BY GoshAssumption DEF Tests
<1>1. ShellTypeOK
  BY <1>0 DEF ShellTypeOK, PCs, ConnStates
<1>2. GoTypeOK
  BY DEF GoTypeOK, Statuses, SubStates, TreeStates
<1>3. ReaderTypeOK
  BY DEF ReaderTypeOK, ReaderStates
<1>4. OutputTypeOK
  <2>1. <<>> \in Seq(LineKinds)
    OBVIOUS
  <2>2. lines \in 0 .. MaxLines
    BY GoshAssumption
  <2> QED
    BY <2>1, <2>2 DEF OutputTypeOK
<1>5. ControlInv
  BY <1>0 DEF ControlInv
<1>6. OrderInv
  BY DEF OrderInv, Tests
<1>7. StatusInv
  BY DEF StatusInv
<1>8. ReaderInv
  BY DEF ReaderInv, Tests
<1>9. TreeInv
  BY DEF TreeInv
<1>10. CodeInv
  BY <1>0 DEF CodeInv, Tests
<1>11. LineInv
  <2>1. Len(<<>>) = 0
    OBVIOUS
  <2> QED
    BY <2>1 DEF LineInv
<1> QED
  BY <1>1, <1>2, <1>3, <1>4, <1>5, <1>6, <1>7, <1>8, <1>9, <1>10, <1>11
     DEF IInv, TypeOK

LEMMA StutterStep ==
  ASSUME IInv, UNCHANGED vars
  PROVE  IInv'
<1> USE DEF IInv, TypeOK
<1>1. ShellTypeOK' /\ GoTypeOK' /\ ReaderTypeOK' /\ OutputTypeOK'
  BY DEF ShellTypeOK, GoTypeOK, ReaderTypeOK, OutputTypeOK
<1>2. ControlInv' /\ OrderInv' /\ StatusInv' /\ ReaderInv'
  BY DEF ControlInv, OrderInv, StatusInv, ReaderInv
<1>3. TreeInv' /\ CodeInv' /\ LineInv'
  BY DEF TreeInv, CodeInv, LineInv
<1> QED
  BY <1>1, <1>2, <1>3

LEMMA NextIInv == IInv /\ [Next]_vars => IInv'
<1> SUFFICES ASSUME IInv, [Next]_vars PROVE IInv'
  OBVIOUS
<1>1. CASE ShellNext
  <2>1. ASSUME NEW c \in {0, 1},
               \/ SetupOnce(c) \/ Setup(c) \/ FinishBody(c)
               \/ Teardown(c) \/ TeardownOnce(c)
        PROVE  IInv'
    BY <2>1, SetupOnceStep, SetupStep, FinishBodyStep, TeardownStep,
       TeardownOnceStep
  <2>2. ASSUME NEW p \in Pipes, BrokenPipe(p) PROVE IInv'
    BY <2>2, BrokenPipeStep
  <2>3. ASSUME NEW p \in Pipes, NEW k \in LineKinds, WriteLine(p, k)
        PROVE  IInv'
    BY <2>3, WriteLineStep
  <2> QED
    BY <1>1, <2>1, <2>2, <2>3, SignalStartStep, StartAckedStep, OpenOutStep,
       OpenErrStep, ReopenOutStep, ReopenErrStep, SignalEndStep, EndAckedStep
       DEF ShellNext
<1>2. CASE ServerNext
  BY <1>2, HandleStartStep, HandleEndStep, PassExitCodeStep DEF ServerNext
<1>3. ASSUME NEW i \in Tests, TestNext(i) PROVE IInv'
  BY <1>3, RunTestStep, JudgeTestStep, CancelTestStep, FinishTestStep
     DEF TestNext
<1>4. ASSUME NEW i \in Tests, NEW p \in Pipes, ScanNext(i, p) PROVE IInv'
  BY <1>4, OpenReaderStep, ScanLineStep, ScanEOFStep, CollectReaderStep
     DEF ScanNext
<1>5. CASE TreeNext
  BY <1>5, ScriptReturnsStep, ShellTestReturnsStep, ExitProcessStep
     DEF TreeNext
<1>6. CASE UNCHANGED vars
  BY <1>6, StutterStep
<1> QED
  BY <1>1, <1>2, <1>3, <1>4, <1>5, <1>6 DEF Next, Progress, Ended

(* The inductive invariant holds throughout. *)
THEOREM Invariance == Spec => []IInv
  BY InitIInv, NextIInv, PTL DEF Spec

(* Every variable keeps its type. *)
THEOREM TypeCorrect == Spec => []TypeOK
<1>1. IInv => TypeOK
  BY DEF IInv
<1> QED
  BY <1>1, Invariance, PTL

(* "end" is handled only while the test's goroutine waits for it: the      *)
(* error return of TestFn.End, which nobody would notice, is unreachable.  *)
THEOREM EndHeard == Spec => []EndIsHeard
<1>1. IInv => EndIsHeard
  <2> SUFFICES ASSUME IInv, conn \in {"end", "ending"}
               PROVE  status[cur] = "Running" /\ sub[cur] = "waiting"
    BY DEF EndIsHeard
  <2>1. pc = "endAck"
    BY DEF IInv, TypeOK, ShellTypeOK, ControlInv
  <2> QED
    BY <2>1 DEF IInv, TypeOK, ShellTypeOK, ControlInv, StatusInv
<1> QED
  BY <1>1, Invariance, PTL

(* Two subtests never wait for an exit code at once. *)
THEOREM OneWaits == Spec => []OneTestWaits
<1>1. IInv => OneTestWaits
  BY GoshAssumption
     DEF IInv, TypeOK, ShellTypeOK, GoTypeOK, OrderInv, OneTestWaits, Tests
<1> QED
  BY <1>1, Invariance, PTL

(* A verdict is the one that the exit codes of gt_i and its hooks earned. *)
THEOREM VerdictsEarned == Spec => []VerdictEarned
<1>1. IInv => VerdictEarned
  <2> SUFFICES ASSUME IInv, NEW i \in Tests
               PROVE  VerdictEarned!(i)
    BY DEF VerdictEarned
  <2>1. status[i] \in {"Passed", "Failed"} => sub[i] \in {"judged", "done"}
    BY DEF IInv, TypeOK, GoTypeOK, SubStates, StatusInv
  <2>2. sub[i] # "none" => i <= cur
    BY DEF IInv, TypeOK, ShellTypeOK, OrderInv, Tests
  <2>3. code[i] \in {0, 1}
    BY DEF IInv, TypeOK, ShellTypeOK
  <2>4. CASE i < cur
    BY <2>1, <2>3, <2>4 DEF IInv, CodeInv
  <2>5. CASE i = cur
    BY <2>1, <2>3, <2>5
       DEF IInv, TypeOK, ShellTypeOK, GoTypeOK, CodeInv, ControlInv, PCs
  <2> QED
    BY <2>1, <2>2, <2>4, <2>5 DEF IInv, TypeOK, ShellTypeOK, Tests
<1> QED
  BY <1>1, Invariance, PTL

(* The FIFOs are removed only when the subshell is through with them. *)
THEOREM PipesOutlive == Spec => []PipesOutliveTest
<1>1. IInv => PipesOutliveTest
  <2> SUFFICES ASSUME IInv, NEW i \in Tests
               PROVE  PipesOutliveTest!(i)
    BY DEF PipesOutliveTest
  <2>1. closed[i] => sub[i] = "done"
    BY DEF IInv, StatusInv
  <2>2. sub[i] # "none" => i <= cur
    BY DEF IInv, TypeOK, ShellTypeOK, OrderInv, Tests
  <2>3. i = cur /\ sub[i] = "done" =>
          pc \notin {"start", "startAck", "openOut", "openErr"} \cup Redirected
    BY DEF IInv, ControlInv
  <2>4. \A p \in Pipes : reader[i][p] # "refused"
    BY DEF IInv, ReaderInv
  <2> QED
    BY <2>1, <2>2, <2>3, <2>4 DEF IInv, TypeOK, ShellTypeOK, Tests
<1> QED
  BY <1>1, Invariance, PTL

(* A scanner that meets end of file has printed all that its test and the  *)
(* hooks around it wrote.                                                  *)
THEOREM EOFPrinted == Spec => []EOFMeansAllPrinted
<1>1. IInv => EOFMeansAllPrinted
  <2> SUFFICES ASSUME IInv, NEW i \in Tests, NEW p \in Pipes,
                      reader[i][p] = "eof"
               PROVE  owed[i][p] = 0
    BY DEF EOFMeansAllPrinted
  <2>1. owed[i][p] = Len(fifo[i][p]) /\ fifo[i][p] = <<>>
    BY DEF IInv, LineInv
  <2>2. Len(<<>>) = 0
    OBVIOUS
  <2> QED
    BY <2>1, <2>2
<1> QED
  BY <1>1, Invariance, PTL

(* No output of a test or a hook is lost between it and its scanners.      *)
THEOREM OutputIsKept == Spec => []OutputKept
<1>1. PipesOutliveTest /\ EOFMeansAllPrinted => OutputKept
  BY DEF OutputKept
<1> QED
  BY <1>1, PipesOutlive, EOFPrinted, PTL

(* A green exit has every test's exit code; at most a verdict is lost. *)
THEOREM GreenComplete == Spec => []GreenIsComplete
<1>1. IInv => GreenIsComplete
  <2> SUFFICES ASSUME IInv, tree = "exited", ~failed, NEW i \in Tests
               PROVE  /\ sub[i] \in {"received", "judged", "done"}
                      /\ code[i] = 1 => sub[i] = "received"
    BY DEF GreenIsComplete
  <2>1. pc = "exited"
    BY DEF IInv, TreeInv
  <2>2. cur = NTests /\ sub[cur] \in Handed
    BY <2>1 DEF IInv, ControlInv
  <2>3. sub[i] \in Handed
    BY <2>2, GoshAssumption DEF IInv, OrderInv, Tests
  <2>4. code[i] = 1 => sub[i] \notin {"judged", "done"}
    BY DEF IInv, TreeInv
  <2> QED
    BY <2>3, <2>4
<1> QED
  BY <1>1, Invariance, PTL

(* The process turns red only for a failed test or an aborted script. *)
THEOREM RedEarned == Spec => []RedIsEarned
<1>1. IInv => RedIsEarned
  BY DEF IInv, TreeInv, RedIsEarned
<1> QED
  BY <1>1, Invariance, PTL

(* The exit code of the process is earned, whichever it is.                *)
THEOREM ExitCodeEarned == Spec => []ExitEarned
<1>1. GreenIsComplete /\ RedIsEarned => ExitEarned
  BY DEF ExitEarned
<1> QED
  BY <1>1, GreenComplete, RedEarned, PTL
-----------------------------------------------------------------------------
(* Gosh implements SerialTests under the mapping of PhaseOf, CodeOf and    *)
(* VerdictOf.                                                              *)

SameView ==
  \A i \in Tests : /\ PhaseOf(i)' = PhaseOf(i)
                   /\ CodeOf(i)' = CodeOf(i)
                   /\ VerdictOf(i)' = VerdictOf(i)

(* A step that changes no test's view is a stutter of SerialTests. *)
LEMMA ViewStutters == SameView => UNCHANGED Serial!vars
  BY DEF SameView, Serial!vars

(* The view depends on few variables. *)
LEMMA ShellView ==
  ASSUME UNCHANGED <<pc, cur, code>>, NEW i \in Tests,
         pc = "aborted" => (sub'[i] = "none" <=> sub[i] = "none")
  PROVE  PhaseOf(i)' = PhaseOf(i) /\ CodeOf(i)' = CodeOf(i)
  BY DEF PhaseOf, CodeOf

LEMMA VerdictView ==
  ASSUME UNCHANGED status, NEW i \in Tests
  PROVE  VerdictOf(i)' = VerdictOf(i)
  BY DEF VerdictOf

(* The subshell's second redirection completes: its test begins. *)
LEMMA OpenErrBegins == ASSUME IInv, OpenErr PROVE Serial!Begin(cur)
<1> USE DEF IInv, TypeOK, OpenErr, OpenPipe
<1>1. cur \in Tests /\ cur \in Nat
  BY DEF ShellTypeOK, Tests
<1>2. PhaseOf(cur) = "waiting" /\ PhaseOf(cur)' = "running"
  BY <1>1 DEF PhaseOf
<1>3. \A j \in Tests : j # cur => PhaseOf(j)' = PhaseOf(j)
  BY DEF PhaseOf
<1>4. \A j \in Tests : CodeOf(j)' = CodeOf(j)
  BY <1>2, <1>3 DEF CodeOf
<1>5. \A j \in 1 .. cur - 1 : j \in Tests /\ PhaseOf(j) = "ended"
  BY <1>1, GoshAssumption DEF PhaseOf, Tests
<1>6. \A j \in Tests : VerdictOf(j)' = VerdictOf(j)
  BY VerdictView
<1> QED
  BY <1>1, <1>2, <1>3, <1>4, <1>5, <1>6 DEF Serial!Begin

(* The subshell is gone, after its trap or by SIGPIPE: the test has ended,  *)
(* with an exit code.                                                      *)
LEMMA SubshellEnds ==
  ASSUME IInv,
         \/ \E c \in {0, 1} : Teardown(c)
         \/ \E p \in Pipes : BrokenPipe(p) /\ pc' = "end"
  PROVE  Serial!End(cur)
<1> USE DEF IInv, TypeOK, Teardown, BrokenPipe
<1>1. cur \in Tests /\ cur \in Nat /\ code[cur] \in {0, 1}
  BY DEF ShellTypeOK, Tests
<1>2. PhaseOf(cur) = "running" /\ PhaseOf(cur)' = "ended"
  BY <1>1 DEF PhaseOf
<1>3. \A j \in Tests : j # cur => PhaseOf(j)' = PhaseOf(j)
  BY DEF PhaseOf
<1>4. CodeOf(cur)' = code'[cur] /\ code'[cur] \in {0, 1}
  BY <1>1, <1>2 DEF CodeOf, TrapCode, ShellTypeOK
<1>5. \A j \in Tests : j # cur => CodeOf(j)' = CodeOf(j)
  BY <1>3 DEF CodeOf, ShellTypeOK
<1>6. \A j \in Tests : VerdictOf(j)' = VerdictOf(j)
  BY VerdictView
<1> QED
  BY <1>1, <1>2, <1>3, <1>4, <1>5, <1>6 DEF Serial!End

(* An exit code in the goroutine's hands is that of an ended test. *)
LEMMA WaitedForEnded ==
  ASSUME IInv, NEW i \in Tests,
         \/ sub[i] = "received"
         \/ sub[i] = "waiting" /\ tree = "shellDone"
  PROVE  PhaseOf(i) = "ended" /\ VerdictOf(i) = "none"
<1> USE DEF IInv, TypeOK
<1>1. i <= cur /\ i \in Nat /\ cur \in Nat
  BY DEF OrderInv, ShellTypeOK, Tests
<1>2. VerdictOf(i) = "none"
  BY DEF StatusInv, VerdictOf
<1>3. CASE i < cur
  BY <1>2, <1>3 DEF PhaseOf
<1>4. CASE i = cur
  BY <1>2, <1>4 DEF PhaseOf, ControlInv, TreeInv, ShellTypeOK, PCs
<1> QED
  BY <1>1, <1>3, <1>4

LEMMA JudgeTestJudges ==
  ASSUME IInv, NEW i \in Tests, JudgeTest(i)
  PROVE  Serial!Judge(i)
<1>0. sub[i] = "received"
  BY DEF JudgeTest
<1>1. PhaseOf(i) = "ended" /\ VerdictOf(i) = "none"
  BY <1>0, WaitedForEnded
<1> USE DEF JudgeTest
<1>2. \A j \in Tests : PhaseOf(j)' = PhaseOf(j) /\ CodeOf(j)' = CodeOf(j)
  BY ShellView DEF IInv, TypeOK, GoTypeOK
<1>3. CodeOf(i) = code[i]
  BY <1>1 DEF CodeOf
<1>4. VerdictOf(i)' = IF CodeOf(i) = 0 THEN "pass" ELSE "fail"
  BY <1>3 DEF VerdictOf, Verdict, GoTypeOK, IInv, TypeOK
<1>5. \A j \in Tests : j # i => VerdictOf(j)' = VerdictOf(j)
  BY DEF VerdictOf, GoTypeOK, IInv, TypeOK
<1> QED
  BY <1>1, <1>2, <1>4, <1>5 DEF Serial!Judge

(* A goroutine still waiting at the cancellation has an aborted test, whose *)
(* exit code is not 0.                                                     *)
LEMMA CancelTestJudges ==
  ASSUME IInv, NEW i \in Tests, CancelTest(i)
  PROVE  Serial!Judge(i)
<1> USE DEF IInv, TypeOK, CancelTest, Cancelled
<1>1. PhaseOf(i) = "ended" /\ VerdictOf(i) = "none"
  BY WaitedForEnded
<1>2. \A j \in Tests : PhaseOf(j)' = PhaseOf(j) /\ CodeOf(j)' = CodeOf(j)
  BY ShellView DEF GoTypeOK
<1>3. CodeOf(i) = 1
  <2>1. i = cur
    BY DEF OrderInv, ShellTypeOK, Tests
  <2>2. pc = "aborted"
    BY <2>1 DEF TreeInv, ControlInv
  <2> QED
    BY <1>1, <2>1, <2>2 DEF CodeOf, CodeInv
<1>4. VerdictOf(i)' = IF CodeOf(i) = 0 THEN "pass" ELSE "fail"
  BY <1>3 DEF VerdictOf, GoTypeOK
<1>5. \A j \in Tests : j # i => VerdictOf(j)' = VerdictOf(j)
  BY DEF VerdictOf, GoTypeOK
<1> QED
  BY <1>1, <1>2, <1>4, <1>5 DEF Serial!Judge

(* A step of the shell that moves pc within one phase is a stutter. *)
LEMMA ShellStutters ==
  ASSUME IInv,
         \/ SignalStart \/ StartAcked \/ OpenOut \/ SignalEnd
         \/ ReopenOut \/ ReopenErr
         \/ \E c \in {0, 1} : \/ SetupOnce(c) \/ Setup(c) \/ FinishBody(c)
                              \/ TeardownOnce(c)
         \/ \E p \in Pipes : \/ BrokenPipe(p) /\ pc' # "end"
                             \/ \E k \in LineKinds : WriteLine(p, k)
  PROVE  SameView
<1> USE DEF IInv, TypeOK
<1> SUFFICES ASSUME NEW i \in Tests
             PROVE  /\ PhaseOf(i)' = PhaseOf(i)
                    /\ CodeOf(i)' = CodeOf(i)
                    /\ VerdictOf(i)' = VerdictOf(i)
  BY DEF SameView
<1>1. VerdictOf(i)' = VerdictOf(i)
  BY DEF VerdictOf, SignalStart, StartAcked, OpenOut, OpenPipe, SignalEnd, ReopenOut, ReopenErr, ReopenPipe,
         SetupOnce, Setup, FinishBody, TeardownOnce, BrokenPipe, WriteLine
<1>2. cur' = cur /\ sub' = sub
  BY DEF SignalStart, StartAcked, OpenOut, OpenPipe, SignalEnd, ReopenOut, ReopenErr, ReopenPipe,
         SetupOnce, Setup, FinishBody, TeardownOnce, BrokenPipe, WriteLine
<1>3. PhaseOf(i)' = PhaseOf(i)
  BY <1>2
     DEF PhaseOf, SignalStart, StartAcked, OpenOut, OpenPipe, SignalEnd, ReopenOut, ReopenErr, ReopenPipe,
         SetupOnce, Setup, FinishBody, TeardownOnce, BrokenPipe, WriteLine,
         ControlInv, PCs
<1>4. i # cur => code'[i] = code[i]
  BY DEF SignalStart, StartAcked, OpenOut, OpenPipe, SignalEnd, ReopenOut, ReopenErr, ReopenPipe, ShellTypeOK,
         SetupOnce, Setup, FinishBody, TeardownOnce, BrokenPipe, WriteLine
<1>5. code'[cur] = code[cur] \/ PhaseOf(cur)' # "ended"
  BY DEF SignalStart, StartAcked, OpenOut, OpenPipe, SignalEnd, ReopenOut, ReopenErr, ReopenPipe, ShellTypeOK,
         SetupOnce, Setup, FinishBody, TeardownOnce, BrokenPipe, WriteLine,
         PhaseOf
<1>6. CodeOf(i)' = CodeOf(i)
  BY <1>2, <1>3, <1>4, <1>5 DEF CodeOf
<1> QED
  BY <1>1, <1>3, <1>6

(* The ack of "end": the test has ended already, the next one has not begun. *)
LEMMA EndAckedStutters == ASSUME IInv, EndAcked PROVE SameView
<1> USE DEF IInv, TypeOK, EndAcked
<1> SUFFICES ASSUME NEW i \in Tests
             PROVE  /\ PhaseOf(i)' = PhaseOf(i)
                    /\ CodeOf(i)' = CodeOf(i)
                    /\ VerdictOf(i)' = VerdictOf(i)
  BY DEF SameView
<1>1. i \in Nat /\ cur \in Nat
  BY DEF ShellTypeOK, Tests
<1>2. PhaseOf(i)' = PhaseOf(i)
  BY <1>1 DEF PhaseOf
<1>3. CodeOf(i)' = CodeOf(i)
  BY <1>2 DEF CodeOf
<1>4. VerdictOf(i)' = VerdictOf(i)
  BY VerdictView
<1> QED
  BY <1>2, <1>3, <1>4

(* The Go process gives verdicts and does nothing else SerialTests sees. *)
LEMMA GoStutters ==
  ASSUME IInv,
         \/ ServerNext
         \/ \E i \in Tests : \/ RunTest(i) \/ FinishTest(i)
                             \/ \E p \in Pipes : ScanNext(i, p)
         \/ TreeNext \/ UNCHANGED vars
  PROVE  SameView
<1> USE DEF ServerNext, HandleStart, HandleEnd, PassExitCode, RunTest,
            FinishTest, ScanNext, OpenReader, ScanLine, ScanEOF, CollectReader,
            TreeNext, ScriptReturns, ShellTestReturns, ExitProcess
<1>1. UNCHANGED <<pc, cur, code>>
  OBVIOUS
<1>2. ASSUME NEW i \in Tests PROVE VerdictOf(i)' = VerdictOf(i)
  BY DEF VerdictOf, IInv, TypeOK, GoTypeOK
<1>3. ASSUME NEW i \in Tests, pc = "aborted"
      PROVE  sub'[i] = "none" <=> sub[i] = "none"
  BY <1>3 DEF IInv, TypeOK, GoTypeOK, ShellTypeOK, ControlInv
<1> QED
  BY <1>1, <1>2, <1>3, ShellView DEF SameView

(* Every step of gosh is a step of SerialTests or a stutter. *)
LEMMA StepRefines == IInv /\ [Next]_vars => [Serial!Next]_(Serial!vars)
<1> SUFFICES ASSUME IInv, [Next]_vars PROVE [Serial!Next]_(Serial!vars)
  OBVIOUS
<1>0. cur \in Serial!Tests
  BY DEF IInv, TypeOK, ShellTypeOK, Tests, Serial!Tests
<1>1. CASE OpenErr
  BY <1>0, <1>1, OpenErrBegins DEF Serial!Next
<1>2. CASE \/ \E c \in {0, 1} : Teardown(c)
           \/ \E p \in Pipes : BrokenPipe(p) /\ pc' = "end"
  BY <1>0, <1>2, SubshellEnds DEF Serial!Next
<1>3. CASE \E i \in Tests : JudgeTest(i) \/ CancelTest(i)
  BY <1>3, JudgeTestJudges, CancelTestJudges
     DEF Serial!Next, Tests, Serial!Tests
<1>4. SameView => [Serial!Next]_(Serial!vars)
  BY ViewStutters
<1>5. CASE EndAcked
  BY <1>4, <1>5, EndAckedStutters
<1> QED
  BY <1>1, <1>2, <1>3, <1>4, <1>5, ShellStutters, GoStutters
     DEF Next, Progress, ShellNext, TestNext, Ended

LEMMA InitRefines == Init => Serial!Init
<1> SUFFICES ASSUME Init PROVE Serial!Init
  OBVIOUS
<1>1. ASSUME NEW i \in Tests
      PROVE  PhaseOf(i) = "waiting" /\ CodeOf(i) = 0 /\ VerdictOf(i) = "none"
  BY GoshAssumption DEF Init, PhaseOf, CodeOf, VerdictOf, Tests
<1> QED
  BY <1>1 DEF Serial!Init, Tests, Serial!Tests

(* gosh implements SerialTests: tests run one at a time, in order, and each *)
(* gets at most one verdict, the one its exit code earned.                 *)
THEOREM Refinement == Spec => RunsSerially
  BY InitRefines, StepRefines, Invariance, PTL
     DEF Spec, RunsSerially, Serial!Spec
=============================================================================
