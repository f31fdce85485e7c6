-------------------------- MODULE SpiBusInvariants --------------------------
(***************************************************************************)
(* The inductive invariant of SpiBus, in named parts.  TLC checks it on    *)
(* the small instance; SpiBusProofs proves it inductive.                   *)
(***************************************************************************)
EXTENDS SpiBus

PidInside == {"drain", "send", "receive", "give"}
LedInside == {"off", "send", "wait", "on", "give"}

\* Who holds the mutex is where the tasks are, and the sample runs with the
\* priority of the refresh exactly while that waits for it.
MutexInv ==
  /\ LabelsOK
  /\ holder \in Users \union {Nobody}
  /\ holder = "pid" <=> pc["pid"] \in PidInside
  /\ holder = "led" <=> pc["led"] \in LedInside
  /\ pc["led"] = "blocked" => holder = "pid"
  /\ pc["pid"] # "blocked"
  /\ prio = [t \in Tasks |->
               IF t = "led" \/ (t = "pid" /\ pc["led"] = "blocked") THEN 2 ELSE 1]

\* A word is on the bus only while the task that sent it waits for it.
BusInv ==
  /\ cs <=> pc["pid"] \in {"send", "receive"}
  /\ tx # NoWord =>
       \/ (pc["pid"] = "receive" /\ tx = Dark)
       \/ (pc["led"] = "wait" /\ tx = sent.glyph)

\* The sample starts with an empty FIFO and takes from it what the converter
\* has sent.
SampleInv ==
  /\ pc["pid"] = "send" => rx = <<>>
  /\ pc["pid"] = "receive" => rx = <<>> \/ (tx = NoWord /\ rx = <<answer>>)
  /\ SampleIsAnswer

\* The figure of a position travels from the buffer to the register to the
\* outputs while nothing is lit.
FigureInv ==
  /\ buffer \in [Digits -> Glyphs] /\ num \in Nat
  /\ cur_digit \in 0 .. NumDigits /\ dig \in Digits
  /\ pc["led"] \in {"send", "wait", "on"} => lit = {}
  /\ pc["led"] \in {"wait", "on"} => sent.digit = dig
  /\ pc["led"] = "wait" /\ tx = NoWord => register = sent.glyph
  /\ pc["led"] = "on" => latch = sent.glyph
  /\ LitDigitShowsItself

\* The bus belongs to one task, the word on it to the transfer that task is in,
\* and the words and figures each waits for are the ones it will find.
IInv == MutexInv /\ BusInv /\ SampleInv /\ FigureInv
=============================================================================
