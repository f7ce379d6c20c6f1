---------------------------- MODULE DeployProofs ----------------------------
(***************************************************************************)
(* Theorems about Deploy, for any number of command line tools, services,  *)
(* edits and commands.  A command is followed along the steps that it has  *)
(* left; what it may rely on is what it has done itself, as long as no     *)
(* other command works next to it (AloneIsAlone).                          *)
(***************************************************************************)
EXTENDS Deploy, FiniteSetTheorems, SequenceTheorems, TLAPS

(***************************************************************************)
(* Steps left                                                              *)
(***************************************************************************)

Plotted(k) == k \in Command /\ k.todo # <<>> /\ OnCourse(k)

\* What is left of a sequence of steps when the first is done.
LEMMA TailSteps ==
    ASSUME NEW S, NEW t \in Seq(S), t # <<>>, Len(t) # 1
    PROVE  /\ Tail(t) \in Seq(S) /\ Tail(t) # <<>>
           /\ Len(Tail(t)) = Len(t) - 1 /\ Len(t) \in Nat /\ Len(t) > 1
           /\ \A i \in DOMAIN Tail(t) :
                 i \in Nat /\ i + 1 \in DOMAIN t /\ Tail(t)[i] = t[i + 1]
           /\ Head(Tail(t)) = t[2] /\ 2 \in DOMAIN t /\ 1 \in DOMAIN t /\ Head(t) = t[1]
  <1>1. t \in [1..Len(t) -> S] /\ Len(t) \in Nat /\ DOMAIN t = 1..Len(t)
    OBVIOUS
  <1>2. Len(t) # 0
    BY EmptySeq
  <1>3. Len(t) > 1
    BY <1>1, <1>2
  <1>4. /\ Tail(t) \in Seq(S) /\ Len(Tail(t)) = Len(t) - 1
        /\ \A i \in 1..Len(Tail(t)) : Tail(t)[i] = t[i + 1]
    BY HeadTailProperties
  <1>5. DOMAIN Tail(t) = 1..Len(t) - 1
    BY <1>4
  <1>6. Tail(t) # <<>>
    <2>1. Len(Tail(t)) # 0
      BY <1>1, <1>3, <1>4
    <2>2. Len(<<>>) = 0
      OBVIOUS
    <2>3. QED
      BY <2>1, <2>2
  <1>7. \A i \in DOMAIN Tail(t) : i \in Nat /\ i + 1 \in DOMAIN t /\ Tail(t)[i] = t[i + 1]
    BY <1>1, <1>3, <1>4, <1>5
  <1>8. Head(Tail(t)) = t[2]
    <2>1. 1 \in DOMAIN Tail(t) /\ Head(Tail(t)) = Tail(t)[1]
      BY <1>3, <1>4, <1>5, <1>6
    <2>2. QED
      BY <1>7, <2>1
  <1>9. 2 \in DOMAIN t /\ 1 \in DOMAIN t /\ Head(t) = t[1]
    BY <1>1, <1>3
  <1>10. QED
    BY <1>1, <1>3, <1>4, <1>6, <1>7, <1>8, <1>9

\* The first step of a sequence.
LEMMA HeadStep ==
    ASSUME NEW S, NEW t \in Seq(S), t # <<>>
    PROVE  1 \in DOMAIN t /\ Head(t) = t[1] /\ Len(t) \in Nat /\ Len(t) > 0 /\ Head(t) \in S
           /\ DOMAIN t = 1..Len(t)
  OBVIOUS

\* A countdown goes on when a step is done.
LEMMA CountdownTail ==
    ASSUME NEW S, NEW t \in Seq(S), t # <<>>, Len(t) # 1, NEW T, NEW steps \in Seq(T),
           Countdown(t, steps)
    PROVE  Countdown(Tail(t), steps)
  <1>1. /\ Len(Tail(t)) = Len(t) - 1 /\ Len(t) \in Nat
        /\ \A i \in DOMAIN Tail(t) : i \in Nat /\ i + 1 \in DOMAIN t /\ Tail(t)[i] = t[i + 1]
    BY TailSteps
  <1>2. Len(steps) \in Nat /\ Len(Tail(t)) <= Len(steps)
    BY <1>1 DEF Countdown
  <1>3. ASSUME NEW i \in DOMAIN Tail(t)
        PROVE  Tail(t)[i] \in steps[Len(Tail(t)) - i + 1]
    <2>1. i \in Nat /\ i + 1 \in DOMAIN t /\ Tail(t)[i] = t[i + 1]
      BY <1>1
    <2>2. t[i + 1] \in steps[Len(t) - (i + 1) + 1]
      BY <2>1 DEF Countdown
    <2>3. Len(t) - (i + 1) + 1 = Len(Tail(t)) - i + 1
      BY <1>1, <2>1
    <2>4. QED
      BY <2>1, <2>2, <2>3
  <1>4. QED
    BY <1>2, <1>3 DEF Countdown

\* So does what is left of a watch.
LEMMA WatchingTail ==
    ASSUME NEW S, NEW t \in Seq(S), t # <<>>, Len(t) # 1, Watching(t)
    PROVE  Watching(Tail(t))
  <1> DEFINE u == Tail(t)
  <1>1. /\ \A i \in DOMAIN u : i \in Nat /\ i # 0 /\ i + 1 \in DOMAIN t /\ u[i] = t[i + 1]
        /\ \A i \in Nat : i # 0 /\ i + 1 \in DOMAIN t => i \in DOMAIN u
    BY TailSteps
  <1> HIDE DEF u
  <1>2. ASSUME NEW i \in DOMAIN u PROVE u[i] # "open"
    <2>1. i + 1 \in DOMAIN t /\ u[i] = t[i + 1] /\ i \in Nat /\ i # 0
      BY <1>1
    <2>2. t[i + 1] = "open" => i + 1 = 1
      BY <2>1 DEF Watching
    <2>3. QED
      BY <2>1, <2>2
  <1>3. ASSUME NEW i \in DOMAIN u
        PROVE  /\ u[i] \in WatchSteps
               /\ u[i] = "settle" => i + 1 \in DOMAIN u /\ u[i + 1] = "prepare"
               /\ u[i] = "prepare" => i + 1 \in DOMAIN u /\ u[i + 1] = "rsync"
               /\ u[i] = "rsync" => i + 1 \in DOMAIN u /\ u[i + 1] = "copied"
    <2>1. i + 1 \in DOMAIN t /\ u[i] = t[i + 1] /\ i \in Nat /\ i # 0 /\ i + 1 \in Nat
      BY <1>1
    <2>2. i + 1 + 1 \in DOMAIN t => i + 1 \in DOMAIN u /\ u[i + 1] = t[i + 1 + 1]
      BY <1>1, <2>1
    <2>3. QED
      BY <2>1, <2>2 DEF Watching
  <1>4. ASSUME NEW i \in DOMAIN u, u[i] = "copied", i > 1
        PROVE  u[i - 1] = "rsync"
    <2>1. i + 1 \in DOMAIN t /\ t[i + 1] = "copied" /\ i \in Nat /\ i # 0 /\ i + 1 > 1
      BY <1>1, <1>4
    <2>2. t[i + 1 - 1] = "rsync"
      BY <2>1 DEF Watching
    <2>3. i - 1 \in Nat /\ i - 1 # 0 /\ i - 1 + 1 = i /\ i + 1 - 1 = i
      BY <2>1, <1>4
    <2>4. i - 1 \in DOMAIN u
      BY <1>4, <2>3, TailSteps DEF u
    <2>5. QED
      BY <1>1, <2>2, <2>3, <2>4
  <1>5. ASSUME NEW i \in DOMAIN u, u[i] = "listen", NEW j \in DOMAIN u, j > i
        PROVE  u[j] = "end"
    <2>1. i + 1 \in DOMAIN t /\ t[i + 1] = "listen" /\ i \in Nat
      BY <1>1, <1>5
    <2>2. j + 1 \in DOMAIN t /\ u[j] = t[j + 1] /\ j \in Nat
      BY <1>1
    <2>3. j + 1 > i + 1
      BY <1>5, <2>1, <2>2
    <2>4. QED
      BY <2>1, <2>2, <2>3 DEF Watching
  <1>6. QED
    BY <1>2, <1>3, <1>4, <1>5 DEF Watching, u


(***************************************************************************)
(* Where a command is                                                      *)
(***************************************************************************)

\* What the countdowns say at each number of steps left.
LEMMA DeployingIs ==
    /\ Len(Deploying) = 13 /\ Len(Deploying) \in Nat
    /\ Deploying[1] = {"wait"} /\ Deploying[2] = {"start"} /\ Deploying[3] = {"stop"}
    /\ Deploying[4] = {"build"} /\ Deploying[5] = {"setup"} /\ Deploying[6] = {"save"}
    /\ Deploying[7] = {"copied"} /\ Deploying[8] = {"rsync"} /\ Deploying[9] = {"prepare"}
    /\ Deploying[10] = {"unsave", "install"} /\ Deploying[11] = {"remove"}
    /\ Deploying[12] = {"stop"} /\ Deploying[13] = {"exists"}
  BY DEF Deploying

\* The same of a services up.
LEMMA BringingUpIs ==
    /\ Len(BringingUp) = 10 /\ Len(BringingUp) \in Nat
    /\ BringingUp[1] = {"save"} /\ BringingUp[2] = {"wait"} /\ BringingUp[3] = {"start"}
    /\ BringingUp[4] = {"stop"} /\ BringingUp[5] = {"build"} /\ BringingUp[6] = {"setup"}
    /\ BringingUp[7] = {"prepare", "install"} /\ BringingUp[8] = {"prepare", "copied"}
    /\ BringingUp[9] = {"copied", "rsync"} /\ BringingUp[10] = {"rsync"}
  BY DEF BringingUp

\* The same of a cleanup.
LEMMA CleaningUpIs ==
    /\ Len(CleaningUp) = 4 /\ Len(CleaningUp) \in Nat
    /\ CleaningUp[1] = {"unsave"} /\ CleaningUp[2] = {"remove"} /\ CleaningUp[3] = {"stop"}
    /\ CleaningUp[4] = {"prepare", "save"}
  BY DEF CleaningUp

\* They are sequences.
LEMMA CountdownSeqs ==
    Deploying \in Seq(SUBSET StepNames) /\ BringingUp \in Seq(SUBSET StepNames)
    /\ CleaningUp \in Seq(SUBSET StepNames)
  BY DEF Deploying, BringingUp, CleaningUp, StepNames, Asks

\* The first step of a countdown.
LEMMA CountdownHead ==
    ASSUME NEW S, NEW t \in Seq(S), t # <<>>, NEW steps, Countdown(t, steps),
           Len(steps) \in Nat
    PROVE  Len(t) \in 1..Len(steps) /\ Head(t) \in steps[Len(t)]
  <1>1. 1 \in DOMAIN t /\ Head(t) = t[1] /\ Len(t) \in Nat /\ Len(t) > 0
    BY HeadStep
  <1>2. t[1] \in steps[Len(t) - 1 + 1] /\ Len(t) - 1 + 1 = Len(t)
    BY <1>1 DEF Countdown
  <1>3. QED
    BY <1>1, <1>2 DEF Countdown

\* Where a deploy is: h its next step, n the number of those left.
AtDeploy(h, n) ==
    /\ n \in 1..13
    /\ h \in Asks \cup {"wait", "save", "copied", "rsync", "prepare", "unsave",
                        "install", "remove", "exists"}
    /\ (n = 1 <=> h = "wait") /\ (n = 2 <=> h = "start")
    /\ (n \in {3, 12} <=> h = "stop") /\ (n = 4 <=> h = "build")
    /\ (n = 5 <=> h = "setup") /\ (n = 6 <=> h = "save")
    /\ (n = 7 <=> h = "copied") /\ (n = 8 <=> h = "rsync")
    /\ (n = 9 <=> h = "prepare") /\ (n = 10 <=> h \in {"unsave", "install"})
    /\ (n = 11 <=> h = "remove") /\ (n = 13 <=> h = "exists")
    /\ h \notin {"idle", "restart", "load", "open", "listen", "settle", "end"}

InDeploy(k) == AtDeploy(Head(k.todo), Len(k.todo))

\* Which it is.
LEMMA DeployCourse ==
    ASSUME NEW k, Plotted(k), k.kind = "deploy"
    PROVE  InDeploy(k)
  <1> DEFINE h == Head(k.todo)
             n == Len(k.todo)
  <1>1. k.todo \in Seq(StepNames) /\ k.todo # <<>> /\ Countdown(k.todo, Deploying)
    BY DEF Plotted, Command, OnCourse
  <1>2. n \in 1..13 /\ h \in Deploying[n]
    <2>1. Len(Deploying) = 13 /\ Len(Deploying) \in Nat
      BY DeployingIs
    <2>2. Len(k.todo) \in 1..Len(Deploying) /\ Head(k.todo) \in Deploying[Len(k.todo)]
      BY <1>1, <2>1, CountdownHead, Zenon
    <2>3. QED
      BY <2>1, <2>2
  <1> HIDE DEF h, n
  <1>3. \/ n = 1 \/ n = 2 \/ n = 3 \/ n = 4 \/ n = 5 \/ n = 6 \/ n = 7 \/ n = 8 \/ n = 9
        \/ n = 10 \/ n = 11 \/ n = 12 \/ n = 13
    BY <1>2
  <1>4. \/ (n = 1 /\ h = "wait") \/ (n = 2 /\ h = "start") \/ (n = 3 /\ h = "stop")
        \/ (n = 4 /\ h = "build") \/ (n = 5 /\ h = "setup") \/ (n = 6 /\ h = "save")
        \/ (n = 7 /\ h = "copied") \/ (n = 8 /\ h = "rsync") \/ (n = 9 /\ h = "prepare")
        \/ (n = 10 /\ h = "unsave") \/ (n = 10 /\ h = "install") \/ (n = 11 /\ h = "remove")
        \/ (n = 12 /\ h = "stop") \/ (n = 13 /\ h = "exists")
    BY <1>2, <1>3, DeployingIs
  <1>5. /\ n \in 1..13
        /\ h \in Asks \cup {"wait", "save", "copied", "rsync", "prepare", "unsave",
                            "install", "remove", "exists"}
        /\ (n = 1 <=> h = "wait") /\ (n = 2 <=> h = "start")
        /\ (n \in {3, 12} <=> h = "stop") /\ (n = 4 <=> h = "build")
        /\ (n = 5 <=> h = "setup") /\ (n = 6 <=> h = "save")
        /\ (n = 7 <=> h = "copied") /\ (n = 8 <=> h = "rsync")
        /\ (n = 9 <=> h = "prepare") /\ (n = 10 <=> h \in {"unsave", "install"})
        /\ (n = 11 <=> h = "remove") /\ (n = 13 <=> h = "exists")
        /\ h \notin {"idle", "restart", "load", "open", "listen", "settle", "end"}
    BY <1>2, <1>4 DEF Asks
  <1>6. QED
    BY <1>5 DEF h, n, InDeploy, AtDeploy

\* Where mirror services up is.
AtUp(h, n) ==
    /\ n \in 1..10
    /\ h \in {"save", "wait", "start", "stop", "build", "setup", "prepare", "install",
              "copied", "rsync"}
    /\ (n = 1 <=> h = "save") /\ (n = 2 <=> h = "wait") /\ (n = 3 <=> h = "start")
    /\ (n = 4 <=> h = "stop") /\ (n = 5 <=> h = "build") /\ (n = 6 <=> h = "setup")
    /\ h \in {"prepare", "install", "copied", "rsync"} => n > 6
    /\ h = "rsync" => n > 8
    /\ h = "install" => n = 7

InUp(k) ==
    /\ AtUp(Head(k.todo), Len(k.todo))
    /\ \A i \in DOMAIN k.todo : k.todo[i] = "rsync" => i = 1 /\ k.todo[2] = "copied"

\* Which it is.
LEMMA UpCourse ==
    ASSUME NEW k, Plotted(k), k.kind = "up"
    PROVE  InUp(k)
  <1> DEFINE h == Head(k.todo)
             n == Len(k.todo)
  <1>1. /\ k.todo \in Seq(StepNames) /\ k.todo # <<>> /\ Countdown(k.todo, BringingUp)
        /\ \A i \in DOMAIN k.todo : k.todo[i] = "rsync" => i = 1 /\ k.todo[2] = "copied"
    BY DEF Plotted, Command, OnCourse
  <1>2. n \in 1..10 /\ h \in BringingUp[n]
    <2>1. Len(BringingUp) = 10 /\ Len(BringingUp) \in Nat
      BY BringingUpIs
    <2>2. Len(k.todo) \in 1..Len(BringingUp) /\ Head(k.todo) \in BringingUp[Len(k.todo)]
      BY <1>1, <2>1, CountdownHead, Zenon
    <2>3. QED
      BY <2>1, <2>2
  <1> HIDE DEF h, n
  <1>3. \/ n = 1 \/ n = 2 \/ n = 3 \/ n = 4 \/ n = 5 \/ n = 6 \/ n = 7 \/ n = 8 \/ n = 9
        \/ n = 10
    BY <1>2
  <1>4. \/ (n = 1 /\ h = "save") \/ (n = 2 /\ h = "wait") \/ (n = 3 /\ h = "start")
        \/ (n = 4 /\ h = "stop") \/ (n = 5 /\ h = "build") \/ (n = 6 /\ h = "setup")
        \/ (n = 7 /\ h \in {"prepare", "install"}) \/ (n = 8 /\ h \in {"prepare", "copied"})
        \/ (n = 9 /\ h \in {"copied", "rsync"}) \/ (n = 10 /\ h = "rsync")
    BY <1>2, <1>3, BringingUpIs
  <1>5. /\ n \in 1..10
        /\ h \in {"save", "wait", "start", "stop", "build", "setup", "prepare",
                            "install", "copied", "rsync"}
        /\ (n = 1 <=> h = "save") /\ (n = 2 <=> h = "wait") /\ (n = 3 <=> h = "start")
        /\ (n = 4 <=> h = "stop") /\ (n = 5 <=> h = "build") /\ (n = 6 <=> h = "setup")
        /\ h \in {"prepare", "install", "copied", "rsync"} => n > 6
        /\ h = "rsync" => n > 8
        /\ \A i \in DOMAIN k.todo : k.todo[i] = "rsync" => i = 1 /\ k.todo[2] = "copied"
        /\ h = "install" => n = 7
    BY <1>1, <1>2, <1>4
  <1>6. QED
    BY <1>5 DEF h, n, InUp, AtUp

\* Where the other commands are.
InOther(k) ==
    LET h == Head(k.todo)  n == Len(k.todo)
    IN  /\ k.kind = "none" => h = "idle" /\ n = 1
        /\ k.kind = "forget" => h = "unsave" /\ n = 1
        /\ k.kind = "other" => h \in {"save", "load"} /\ n \in {1, 2}
        /\ k.kind = "sync" => h \in {"save", "copied", "rsync", "prepare"}
        /\ k.kind = "cleanup" =>
              /\ n \in 1..4 /\ h \in {"unsave", "remove", "stop", "prepare", "save"}
              /\ (n = 1 <=> h = "unsave") /\ (n = 2 <=> h = "remove")
              /\ (n = 3 <=> h = "stop") /\ k.services = Services
        /\ k.kind = "removal" =>
              /\ n \in 1..3 /\ h \in {"unsave", "remove", "prepare"}
              /\ (n = 1 <=> h = "unsave") /\ (n = 2 <=> h = "remove")
        /\ k.kind = "control" => h \in Controlling
        /\ k.kind = "watch" => Watching(k.todo) /\ h \in WatchSteps

\* Which it is.
LEMMA OtherCourses ==
    ASSUME NEW k, Plotted(k)
    PROVE  InOther(k)
  <1> DEFINE h == Head(k.todo)
             n == Len(k.todo)
  <1>1. k.todo \in Seq(StepNames) /\ k.todo # <<>>
    BY DEF Plotted, Command
  <1>2. 1 \in DOMAIN k.todo /\ h = k.todo[1] /\ n \in Nat /\ n > 0
    BY <1>1, HeadStep
  <1>3. OnCourse(k)
    BY DEF Plotted
  <1>4. ASSUME k.kind = "none" PROVE h = "idle" /\ n = 1
    BY <1>3, <1>4 DEF OnCourse
  <1>5. ASSUME k.kind = "forget" PROVE h = "unsave" /\ n = 1
    BY <1>3, <1>5 DEF OnCourse
  <1>6. ASSUME k.kind = "other" PROVE h \in {"save", "load"} /\ n \in {1, 2}
    <2> DEFINE steps == <<{"save"}, {"load"}>>
    <2>1. Countdown(k.todo, steps)
      BY <1>3, <1>6 DEF OnCourse
    <2>2. Len(steps) = 2 /\ Len(steps) \in Nat /\ steps[1] = {"save"} /\ steps[2] = {"load"}
      OBVIOUS
    <2> HIDE DEF steps
    <2>3. n \in 1..Len(steps) /\ h \in steps[n]
      BY <1>1, <2>1, <2>2, CountdownHead, Zenon
    <2>4. n = 1 \/ n = 2
      BY <1>2, <2>2, <2>3
    <2>5. QED
      BY <2>2, <2>3, <2>4
  <1>7. ASSUME k.kind = "sync" PROVE h \in {"save", "copied", "rsync", "prepare"}
    <2> DEFINE steps == <<{"save"}, {"copied"}, {"rsync"}, {"prepare"}>>
    <2>1. Countdown(k.todo, steps)
      BY <1>3, <1>7 DEF OnCourse
    <2>2. /\ Len(steps) = 4 /\ Len(steps) \in Nat /\ steps[1] = {"save"}
          /\ steps[2] = {"copied"} /\ steps[3] = {"rsync"} /\ steps[4] = {"prepare"}
      OBVIOUS
    <2> HIDE DEF steps
    <2>3. n \in 1..Len(steps) /\ h \in steps[n]
      BY <1>1, <2>1, <2>2, CountdownHead, Zenon
    <2>4. n = 1 \/ n = 2 \/ n = 3 \/ n = 4
      BY <1>2, <2>2, <2>3
    <2>5. QED
      BY <2>2, <2>3, <2>4
  <1>8. ASSUME k.kind = "cleanup"
        PROVE  /\ n \in 1..4 /\ h \in {"unsave", "remove", "stop", "prepare", "save"}
               /\ (n = 1 <=> h = "unsave") /\ (n = 2 <=> h = "remove")
               /\ (n = 3 <=> h = "stop") /\ k.services = Services
    <2>1. Countdown(k.todo, CleaningUp) /\ k.services = Services
      BY <1>3, <1>8 DEF OnCourse
    <2>2. n \in 1..4 /\ h \in CleaningUp[n]
      <3>1. Len(CleaningUp) = 4 /\ Len(CleaningUp) \in Nat
        BY CleaningUpIs
      <3>2. Len(k.todo) \in 1..Len(CleaningUp) /\ Head(k.todo) \in CleaningUp[Len(k.todo)]
        BY <1>1, <2>1, <3>1, CountdownHead, Zenon
      <3>3. QED
        BY <3>1, <3>2
    <2>3. n = 1 \/ n = 2 \/ n = 3 \/ n = 4
      BY <2>2
    <2> HIDE DEF h, n
    <2>4. QED
      BY <2>1, <2>2, <2>3, CleaningUpIs
  <1>9. ASSUME k.kind = "removal"
        PROVE  /\ n \in 1..3 /\ h \in {"unsave", "remove", "prepare"}
               /\ (n = 1 <=> h = "unsave") /\ (n = 2 <=> h = "remove")
    <2> DEFINE steps == <<{"unsave"}, {"remove"}, {"prepare"}>>
    <2>1. Countdown(k.todo, steps)
      BY <1>3, <1>9 DEF OnCourse
    <2>2. /\ Len(steps) = 3 /\ Len(steps) \in Nat /\ steps[1] = {"unsave"}
          /\ steps[2] = {"remove"} /\ steps[3] = {"prepare"}
      OBVIOUS
    <2> HIDE DEF steps
    <2>3. n \in 1..Len(steps) /\ h \in steps[n]
      BY <1>1, <2>1, <2>2, CountdownHead, Zenon
    <2>4. n = 1 \/ n = 2 \/ n = 3
      BY <1>2, <2>2, <2>3
    <2>5. QED
      BY <2>2, <2>3, <2>4
  <1>10. ASSUME k.kind = "control" PROVE h \in Controlling
    BY <1>2, <1>3, <1>10 DEF OnCourse
  <1>11. ASSUME k.kind = "watch" PROVE Watching(k.todo) /\ h \in WatchSteps
    <2>1. Watching(k.todo)
      BY <1>3, <1>11 DEF OnCourse
    <2>2. QED
      BY <1>2, <2>1 DEF Watching
  <1>12. QED
    BY <1>4, <1>5, <1>6, <1>7, <1>8, <1>9, <1>10, <1>11 DEF InOther

\* Which commands come to which steps.
LEMMA KindOfStep ==
    ASSUME NEW k, Plotted(k)
    PROVE  LET h == Head(k.todo)
           IN  /\ h = "idle" <=> k.kind = "none"
               /\ h = "load" => k.kind = "other"
               /\ h \in {"open", "listen", "settle", "end"} => k.kind = "watch"
               /\ h = "exists" => k.kind = "deploy"
               /\ h \in {"wait", "install", "setup", "build"} =>
                     k.kind \in {"deploy", "up", "control"}
               /\ h \in {"wait", "install"} => k.kind \in {"deploy", "up"}
               /\ h = "stop" => k.kind \in {"deploy", "up", "cleanup", "control"}
               /\ h = "start" => k.kind \in {"deploy", "up", "control"}
               /\ h = "restart" => k.kind \in {"watch", "control"}
               /\ h = "remove" => k.kind \in {"deploy", "cleanup", "removal"}
               /\ h = "unsave" => k.kind \in {"deploy", "cleanup", "removal", "forget"}
               /\ h = "save" => k.kind \notin {"none", "forget", "removal"}
               /\ h \in {"prepare", "rsync", "copied"} => k.kind \notin {"none", "forget", "other"}
               /\ h \in {"rsync", "copied"} => k.kind \notin {"cleanup", "removal"}
               /\ h \notin {"load", "save", "unsave", "idle"} => k.kind \in RunKinds
  <1>1. k.kind \in RunKinds \cup {"none", "forget", "other"}
    BY DEF Plotted, Command
  <1>2. CASE k.kind = "deploy"
    BY <1>2, DeployCourse DEF RunKinds, Asks, InDeploy, AtDeploy
  <1>3. CASE k.kind = "up"
    BY <1>3, UpCourse DEF RunKinds, Asks, InUp, AtUp
  <1>4. CASE k.kind \in {"none", "forget", "other", "sync", "cleanup", "removal"}
    BY <1>4, OtherCourses DEF RunKinds, InOther
  <1>5. CASE k.kind \in {"control", "watch"}
    BY <1>5, OtherCourses DEF RunKinds, Controlling, WatchSteps, Asks, InOther
  <1>6. QED
    BY <1>1, <1>2, <1>3, <1>4, <1>5 DEF RunKinds

\* An idle client.
LEMMA IdleFields ==
    /\ Plotted(Idle)
    /\ Idle.kind = "none" /\ Idle.todo = <<"idle">> /\ Idle.services = {} /\ Idle.from = None
    /\ Idle.differs = FALSE /\ Idle.events = FALSE /\ Idle.told = FALSE /\ Idle.heard = None
    /\ Idle.copy = FALSE /\ Idle.alone = TRUE /\ Idle.stopped = TRUE
  <1>1. None \in Contents
    BY BoundsAssumption DEF None, Contents
  <1>2. <<"idle">> \in Seq(StepNames) /\ <<"idle">> # <<>>
    BY DEF StepNames
  <1>3. Idle \in Command
    BY <1>1, <1>2 DEF Idle, Command
  <1>4. QED
    BY <1>2, <1>3 DEF Idle, Plotted, OnCourse

\* t is told of the same changes as k, and has the same of them in its snapshot.
SameTidings(k, t) == t.events = k.events /\ t.told = k.told /\ t.heard = k.heard
SameNotes(k, t) == SameTidings(k, t) /\ t.differs = k.differs

\* t differs from k in nothing but its steps.
SameBut(k, t) ==
    /\ t.kind = k.kind /\ t.services = k.services /\ t.from = k.from
    /\ SameNotes(k, t) /\ t.told = k.told /\ t.copy = k.copy /\ t.alone = k.alone /\ t.stopped = k.stopped

\* t is k after a step.
Onward(k, t) ==
    /\ SameBut(k, t)
    /\ t.todo = Tail(k.todo) /\ Len(k.todo) > 1
    /\ Len(t.todo) = Len(k.todo) - 1 /\ Head(t.todo) = k.todo[2]

\* The next step.
LEMMA ThenFields ==
    ASSUME NEW k, Plotted(k)
    PROVE  Plotted(Then(k)) /\ (Then(k) = Idle \/ Onward(k, Then(k)))
           /\ (Then(k) = Idle <=> Len(k.todo) = 1)
  <1>1. CASE Len(k.todo) = 1
    BY <1>1, IdleFields DEF Then
  <1>2. CASE Len(k.todo) # 1
    <2> DEFINE t == Then(k)
               u == Tail(k.todo)
    <2>1. k \in Command /\ k.todo \in Seq(StepNames) /\ k.todo # <<>>
      BY DEF Plotted, Command
    <2>2. /\ u \in Seq(StepNames) /\ u # <<>> /\ Len(u) = Len(k.todo) - 1 /\ Len(k.todo) > 1
          /\ Head(u) = k.todo[2]
      BY <1>2, <2>1, TailSteps
    <2>3. t = [k EXCEPT !.todo = u]
      BY <1>2 DEF Then
    <2> HIDE DEF u
    <2>4. t \in Command /\ t.todo = u /\ SameBut(k, t)
      BY <2>1, <2>2, <2>3 DEF Command, SameBut, SameNotes, SameTidings
    <2> HIDE DEF t
    <2>5. k.kind # "none" /\ k.kind # "forget"
      BY <1>2, OtherCourses DEF InOther
    <2>6. OnCourse(k) /\ t.kind = k.kind /\ t.services = k.services
      BY <2>4 DEF Plotted, SameBut
    <2>7. \A T, steps : steps \in Seq(T) /\ Countdown(k.todo, steps) => Countdown(u, steps)
      BY <1>2, <2>1, CountdownTail DEF u
    <2>8. ASSUME k.kind \in {"deploy", "up", "cleanup"} PROVE OnCourse(t)
      <3>1. \A steps \in {Deploying, BringingUp, CleaningUp} :
               Countdown(k.todo, steps) => Countdown(u, steps)
        BY <2>7, CountdownSeqs
      <3>2. k.kind = "up" => \A i \in DOMAIN u : u[i] # "rsync"
        <4>1. SUFFICES ASSUME k.kind = "up", NEW i \in DOMAIN u PROVE u[i] # "rsync"
          OBVIOUS
        <4>2. i \in Nat /\ i + 1 \in DOMAIN k.todo /\ u[i] = k.todo[i + 1]
          BY <1>2, <2>1, TailSteps DEF u
        <4>3. i # 0
          BY <2>2, HeadStep
        <4>4. i + 1 # 1
          BY <4>2, <4>3
        <4>5. QED
          BY <2>6, <4>1, <4>2, <4>4 DEF OnCourse
      <3>3. QED
        BY <2>4, <2>6, <2>8, <3>1, <3>2 DEF OnCourse
    <2>9. ASSUME k.kind \in {"other", "sync", "removal"} PROVE OnCourse(t)
      <3>1. /\ <<{"save"}, {"load"}>> \in Seq({{"save"}, {"load"}})
            /\ <<{"save"}, {"copied"}, {"rsync"}, {"prepare"}>>
               \in Seq({{"save"}, {"copied"}, {"rsync"}, {"prepare"}})
            /\ <<{"unsave"}, {"remove"}, {"prepare"}>> \in Seq({{"unsave"}, {"remove"}, {"prepare"}})
        OBVIOUS
      <3>2. \A steps \in {<<{"save"}, {"load"}>>,
                          <<{"save"}, {"copied"}, {"rsync"}, {"prepare"}>>,
                          <<{"unsave"}, {"remove"}, {"prepare"}>>} :
               Countdown(k.todo, steps) => Countdown(u, steps)
        BY <2>7, <3>1
      <3>3. QED
        BY <2>4, <2>6, <2>9, <3>2 DEF OnCourse
    <2>10. ASSUME k.kind = "control" PROVE OnCourse(t)
      <3>1. \A i \in DOMAIN u : i + 1 \in DOMAIN k.todo /\ u[i] = k.todo[i + 1]
        BY <1>2, <2>1, TailSteps DEF u
      <3>2. QED
        BY <2>4, <2>6, <2>10, <3>1 DEF OnCourse
    <2>11. ASSUME k.kind = "watch" PROVE OnCourse(t)
      <3>1. Watching(k.todo)
        BY <2>6, <2>11 DEF OnCourse
      <3>2. Watching(u)
        BY <1>2, <2>1, <3>1, WatchingTail DEF u
      <3>3. QED
        BY <2>4, <2>6, <2>11, <3>2 DEF OnCourse
    <2>12. k.kind \in RunKinds \cup {"none", "forget", "other"}
      BY <2>1 DEF Command
    <2>13. OnCourse(t)
      BY <2>5, <2>8, <2>9, <2>10, <2>11, <2>12 DEF RunKinds
    <2>14. t # Idle
      BY <2>4, <2>5, IdleFields DEF SameBut
    <2>15. Plotted(t) /\ Onward(k, t)
      BY <2>2, <2>4, <2>13 DEF Plotted, Onward, u
    <2>16. QED
      BY <1>2, <2>14, <2>15 DEF t
  <1>3. QED
    BY <1>1, <1>2

(***************************************************************************)
(* The plans of the commands                                               *)
(***************************************************************************)

\* The first of some steps.
LEMMA SomeSteps ==
    ASSUME NEW p \in Seq(StepNames), Len(p) > 0
    PROVE  p # <<>> /\ Head(p) = p[1] /\ DOMAIN p = 1..Len(p)
  <1>1. Len(<<>>) = 0
    OBVIOUS
  <1>2. p # <<>>
    BY <1>1
  <1>3. QED
    BY <1>2

\* Services are only started after a save.
Guarded(todo) ==
    \A i \in DOMAIN todo : todo[i] \in Starts => \E n \in 1..i : todo[n] = "save"

\* Where a plan of a command begins, and that it is one.
Begins(kind, todo) ==
    /\ kind \in RunKinds /\ todo \in Seq(StepNames) /\ todo # <<>>
    /\ \A k : k.kind = kind /\ k.todo = todo /\ k.services = Services => OnCourse(k)
    /\ kind # "cleanup" => \A k : k.kind = kind /\ k.todo = todo => OnCourse(k)
    /\ Head(todo) \notin {"idle", "load", "unsave", "copied", "listen"}
    /\ kind # "removal" => Head(todo) # "remove"
    /\ kind = "deploy" => Len(todo) > 6
    /\ kind = "up" => Len(todo) > 6
    /\ kind = "watch" => Head(todo) = "open"
    /\ worker # "mirror" => Guarded(todo)

\* A deploy.
LEMMA DeployBegins ==
    Begins("deploy", Deployment)
  <1> DEFINE p == Deployment
  <1>1. /\ p \in Seq(StepNames) /\ Len(p) = 9
        /\ p[1] = "prepare" /\ p[2] = "rsync" /\ p[3] = "copied" /\ p[4] = "save"
        /\ p[5] = "setup" /\ p[6] = "build" /\ p[7] = "stop" /\ p[8] = "start"
        /\ p[9] = "wait"
    BY DEF Deployment, Sync, Relaunch, StepNames, Asks
  <1> HIDE DEF p
  <1>2. p # <<>> /\ Head(p) = "prepare" /\ DOMAIN p = 1..9
    <2>1. p \in Seq(StepNames) /\ Len(p) > 0
      BY <1>1
    <2>2. p # <<>> /\ Head(p) = p[1] /\ DOMAIN p = 1..Len(p)
      BY <2>1, SomeSteps
    <2>3. QED
      BY <1>1, <2>2
  <1>3. Countdown(p, Deploying)
    BY <1>1, <1>2 DEF Countdown, Deploying
  <1>5. Guarded(p)
    BY <1>1, <1>2 DEF Guarded, Starts, Asks
  <1>6. \A k : k.kind = "deploy" /\ k.todo = p => OnCourse(k)
    BY <1>3 DEF OnCourse
  <1>7. Begins("deploy", p)
    BY <1>1, <1>2, <1>5, <1>6 DEF Begins, RunKinds
  <1>8. QED
    BY <1>7 DEF p

\* A deploy --fresh.
LEMMA FreshBegins ==
    Begins("deploy", Fresh \o Deployment)
  <1> DEFINE p == Fresh \o Deployment
  <1>1. /\ p \in Seq(StepNames) /\ Len(p) = 13
        /\ p[1] = "exists" /\ p[2] = "stop" /\ p[3] = "remove" /\ p[4] = "unsave"
        /\ p[5] = "prepare" /\ p[6] = "rsync" /\ p[7] = "copied" /\ p[8] = "save"
        /\ p[9] = "setup" /\ p[10] = "build" /\ p[11] = "stop" /\ p[12] = "start"
        /\ p[13] = "wait"
    BY DEF Fresh, Deployment, Sync, Relaunch, StepNames, Asks
  <1> HIDE DEF p
  <1>2. p # <<>> /\ Head(p) = "exists" /\ DOMAIN p = 1..13
    <2>1. p \in Seq(StepNames) /\ Len(p) > 0
      BY <1>1
    <2>2. p # <<>> /\ Head(p) = p[1] /\ DOMAIN p = 1..Len(p)
      BY <2>1, SomeSteps
    <2>3. QED
      BY <1>1, <2>2
  <1>3. Countdown(p, Deploying)
    BY <1>1, <1>2 DEF Countdown, Deploying
  <1>5. Guarded(p)
    BY <1>1, <1>2 DEF Guarded, Starts, Asks
  <1>6. \A k : k.kind = "deploy" /\ k.todo = p => OnCourse(k)
    BY <1>3 DEF OnCourse
  <1>7. Begins("deploy", p)
    BY <1>1, <1>2, <1>5, <1>6 DEF Begins, RunKinds
  <1>8. QED
    BY <1>7 DEF p

\* A deploy --install.
LEMMA InstallBegins ==
    Begins("deploy", <<"install">> \o Deployment)
  <1> DEFINE p == <<"install">> \o Deployment
  <1>1. /\ p \in Seq(StepNames) /\ Len(p) = 10
        /\ p[1] = "install" /\ p[2] = "prepare" /\ p[3] = "rsync" /\ p[4] = "copied"
        /\ p[5] = "save" /\ p[6] = "setup" /\ p[7] = "build" /\ p[8] = "stop"
        /\ p[9] = "start" /\ p[10] = "wait"
    BY DEF Deployment, Sync, Relaunch, StepNames, Asks
  <1> HIDE DEF p
  <1>2. p # <<>> /\ Head(p) = "install" /\ DOMAIN p = 1..10
    <2>1. p \in Seq(StepNames) /\ Len(p) > 0
      BY <1>1
    <2>2. p # <<>> /\ Head(p) = p[1] /\ DOMAIN p = 1..Len(p)
      BY <2>1, SomeSteps
    <2>3. QED
      BY <1>1, <2>2
  <1>3. Countdown(p, Deploying)
    BY <1>1, <1>2 DEF Countdown, Deploying
  <1>5. Guarded(p)
    BY <1>1, <1>2 DEF Guarded, Starts, Asks
  <1>6. \A k : k.kind = "deploy" /\ k.todo = p => OnCourse(k)
    BY <1>3 DEF OnCourse
  <1>7. Begins("deploy", p)
    BY <1>1, <1>2, <1>5, <1>6 DEF Begins, RunKinds
  <1>8. QED
    BY <1>7 DEF p

\* Services up.
LEMMA UpBegins ==
    ASSUME worker = "mirror"
    PROVE  Begins("up", <<"prepare">> \o ServicesUp)
  <1> DEFINE p == <<"prepare">> \o ServicesUp
  <1>1. /\ p \in Seq(StepNames) /\ Len(p) = 7
        /\ p[1] = "prepare" /\ p[2] = "setup" /\ p[3] = "build" /\ p[4] = "stop"
        /\ p[5] = "start" /\ p[6] = "wait" /\ p[7] = "save"
    BY DEF ServicesUp, Relaunch, StepNames, Asks
  <1> HIDE DEF p
  <1>2. p # <<>> /\ Head(p) = "prepare" /\ DOMAIN p = 1..7
    <2>1. p \in Seq(StepNames) /\ Len(p) > 0
      BY <1>1
    <2>2. p # <<>> /\ Head(p) = p[1] /\ DOMAIN p = 1..Len(p)
      BY <2>1, SomeSteps
    <2>3. QED
      BY <1>1, <2>2
  <1>3. Countdown(p, BringingUp)
    BY <1>1, <1>2 DEF Countdown, BringingUp
  <1>4. \A i \in DOMAIN p : p[i] = "rsync" => i = 1 /\ p[2] = "copied"
    BY <1>1, <1>2
  <1>6. \A k : k.kind = "up" /\ k.todo = p => OnCourse(k)
    BY <1>3, <1>4 DEF OnCourse
  <1>7. Begins("up", p)
    BY <1>1, <1>2, <1>6 DEF Begins, RunKinds
  <1>8. QED
    BY <1>7 DEF p

\* Services up with a sync.
LEMMA UpSyncBegins ==
    ASSUME worker = "mirror"
    PROVE  Begins("up", MirrorSync \o ServicesUp)
  <1> DEFINE p == MirrorSync \o ServicesUp
  <1>1. /\ p \in Seq(StepNames) /\ Len(p) = 9
        /\ p[1] = "rsync" /\ p[2] = "copied" /\ p[3] = "prepare" /\ p[4] = "setup"
        /\ p[5] = "build" /\ p[6] = "stop" /\ p[7] = "start" /\ p[8] = "wait"
        /\ p[9] = "save"
    BY DEF ServicesUp, Relaunch, MirrorSync, StepNames, Asks
  <1> HIDE DEF p
  <1>2. p # <<>> /\ Head(p) = "rsync" /\ DOMAIN p = 1..9
    <2>1. p \in Seq(StepNames) /\ Len(p) > 0
      BY <1>1
    <2>2. p # <<>> /\ Head(p) = p[1] /\ DOMAIN p = 1..Len(p)
      BY <2>1, SomeSteps
    <2>3. QED
      BY <1>1, <2>2
  <1>3. Countdown(p, BringingUp)
    BY <1>1, <1>2 DEF Countdown, BringingUp
  <1>4. \A i \in DOMAIN p : p[i] = "rsync" => i = 1 /\ p[2] = "copied"
    BY <1>1, <1>2
  <1>6. \A k : k.kind = "up" /\ k.todo = p => OnCourse(k)
    BY <1>3, <1>4 DEF OnCourse
  <1>7. Begins("up", p)
    BY <1>1, <1>2, <1>6 DEF Begins, RunKinds
  <1>8. QED
    BY <1>7 DEF p

\* Services up with a sync and an installation.
LEMMA UpInstallBegins ==
    ASSUME worker = "mirror"
    PROVE  Begins("up", MirrorSync \o <<"install">> \o ServicesUp)
  <1> DEFINE p == MirrorSync \o <<"install">> \o ServicesUp
  <1>1. /\ p \in Seq(StepNames) /\ Len(p) = 10
        /\ p[1] = "rsync" /\ p[2] = "copied" /\ p[3] = "prepare" /\ p[4] = "install"
        /\ p[5] = "setup" /\ p[6] = "build" /\ p[7] = "stop" /\ p[8] = "start"
        /\ p[9] = "wait" /\ p[10] = "save"
    BY DEF ServicesUp, Relaunch, MirrorSync, StepNames, Asks
  <1> HIDE DEF p
  <1>2. p # <<>> /\ Head(p) = "rsync" /\ DOMAIN p = 1..10
    <2>1. p \in Seq(StepNames) /\ Len(p) > 0
      BY <1>1
    <2>2. p # <<>> /\ Head(p) = p[1] /\ DOMAIN p = 1..Len(p)
      BY <2>1, SomeSteps
    <2>3. QED
      BY <1>1, <2>2
  <1>3. Countdown(p, BringingUp)
    BY <1>1, <1>2 DEF Countdown, BringingUp
  <1>4. \A i \in DOMAIN p : p[i] = "rsync" => i = 1 /\ p[2] = "copied"
    BY <1>1, <1>2
  <1>6. \A k : k.kind = "up" /\ k.todo = p => OnCourse(k)
    BY <1>3, <1>4 DEF OnCourse
  <1>7. Begins("up", p)
    BY <1>1, <1>2, <1>6 DEF Begins, RunKinds
  <1>8. QED
    BY <1>7 DEF p

\* A sync.
LEMMA SyncBegins ==
    Begins("sync", Sync)
  <1> DEFINE p == Sync
  <1>1. /\ p \in Seq(StepNames) /\ Len(p) = 4
        /\ p[1] = "prepare" /\ p[2] = "rsync" /\ p[3] = "copied" /\ p[4] = "save"
    BY DEF Sync, StepNames, Asks
  <1> HIDE DEF p
  <1>2. p # <<>> /\ Head(p) = "prepare" /\ DOMAIN p = 1..4
    <2>1. p \in Seq(StepNames) /\ Len(p) > 0
      BY <1>1
    <2>2. p # <<>> /\ Head(p) = p[1] /\ DOMAIN p = 1..Len(p)
      BY <2>1, SomeSteps
    <2>3. QED
      BY <1>1, <2>2
  <1>3. Countdown(p, <<{"save"}, {"copied"}, {"rsync"}, {"prepare"}>>)
    BY <1>1, <1>2 DEF Countdown
  <1>5. Guarded(p)
    BY <1>1, <1>2 DEF Guarded, Starts, Asks
  <1>6. \A k : k.kind = "sync" /\ k.todo = p => OnCourse(k)
    BY <1>3 DEF OnCourse
  <1>7. Begins("sync", p)
    BY <1>1, <1>2, <1>5, <1>6 DEF Begins, RunKinds
  <1>8. QED
    BY <1>7 DEF p

\* A cleanup --no-stop.
LEMMA RemovalBegins ==
    Begins("removal", Removal)
  <1> DEFINE p == Removal
  <1>1. /\ p \in Seq(StepNames) /\ Len(p) = 2
        /\ p[1] = "remove" /\ p[2] = "unsave"
    BY DEF Removal, StepNames, Asks
  <1> HIDE DEF p
  <1>2. p # <<>> /\ Head(p) = "remove" /\ DOMAIN p = 1..2
    <2>1. p \in Seq(StepNames) /\ Len(p) > 0
      BY <1>1
    <2>2. p # <<>> /\ Head(p) = p[1] /\ DOMAIN p = 1..Len(p)
      BY <2>1, SomeSteps
    <2>3. QED
      BY <1>1, <2>2
  <1>3. Countdown(p, <<{"unsave"}, {"remove"}, {"prepare"}>>)
    BY <1>1, <1>2 DEF Countdown
  <1>5. Guarded(p)
    BY <1>1, <1>2 DEF Guarded, Starts, Asks
  <1>6. \A k : k.kind = "removal" /\ k.todo = p => OnCourse(k)
    BY <1>3 DEF OnCourse
  <1>7. Begins("removal", p)
    BY <1>1, <1>2, <1>5, <1>6 DEF Begins, RunKinds
  <1>8. QED
    BY <1>7 DEF p

\* The same for a mirror.
LEMMA MirrorRemovalBegins ==
    Begins("removal", MirrorRemoval)
  <1> DEFINE p == MirrorRemoval
  <1>1. /\ p \in Seq(StepNames) /\ Len(p) = 3
        /\ p[1] = "prepare" /\ p[2] = "remove" /\ p[3] = "unsave"
    BY DEF MirrorRemoval, Removal, StepNames, Asks
  <1> HIDE DEF p
  <1>2. p # <<>> /\ Head(p) = "prepare" /\ DOMAIN p = 1..3
    <2>1. p \in Seq(StepNames) /\ Len(p) > 0
      BY <1>1
    <2>2. p # <<>> /\ Head(p) = p[1] /\ DOMAIN p = 1..Len(p)
      BY <2>1, SomeSteps
    <2>3. QED
      BY <1>1, <2>2
  <1>3. Countdown(p, <<{"unsave"}, {"remove"}, {"prepare"}>>)
    BY <1>1, <1>2 DEF Countdown
  <1>5. Guarded(p)
    BY <1>1, <1>2 DEF Guarded, Starts, Asks
  <1>6. \A k : k.kind = "removal" /\ k.todo = p => OnCourse(k)
    BY <1>3 DEF OnCourse
  <1>7. Begins("removal", p)
    BY <1>1, <1>2, <1>5, <1>6 DEF Begins, RunKinds
  <1>8. QED
    BY <1>7 DEF p

\* The cleanup of the services of a mirror.
LEMMA MirrorCleanupBegins ==
    Begins("cleanup", MirrorCleanup)
  <1> DEFINE p == MirrorCleanup
  <1>1. /\ p \in Seq(StepNames) /\ Len(p) = 4
        /\ p[1] = "prepare" /\ p[2] = "stop" /\ p[3] = "remove" /\ p[4] = "unsave"
    BY DEF MirrorCleanup, Removal, StepNames, Asks
  <1> HIDE DEF p
  <1>2. p # <<>> /\ Head(p) = "prepare" /\ DOMAIN p = 1..4
    <2>1. p \in Seq(StepNames) /\ Len(p) > 0
      BY <1>1
    <2>2. p # <<>> /\ Head(p) = p[1] /\ DOMAIN p = 1..Len(p)
      BY <2>1, SomeSteps
    <2>3. QED
      BY <1>1, <2>2
  <1>3. Countdown(p, CleaningUp)
    BY <1>1, <1>2 DEF Countdown, CleaningUp
  <1>5. Guarded(p)
    BY <1>1, <1>2 DEF Guarded, Starts, Asks
  <1>6. \A k : k.kind = "cleanup" /\ k.todo = p /\ k.services = Services => OnCourse(k)
    BY <1>3 DEF OnCourse
  <1>7. Begins("cleanup", p)
    BY <1>1, <1>2, <1>5, <1>6 DEF Begins, RunKinds
  <1>8. QED
    BY <1>7 DEF p

\* The cleanup of a remote run.
LEMMA RemoteCleanupBegins ==
    ASSUME worker = "remote"
    PROVE  Begins("cleanup", Cleanup)
  <1> DEFINE p == Cleanup
  <1>1. /\ p \in Seq(StepNames) /\ Len(p) = 4
        /\ p[1] = "save" /\ p[2] = "stop" /\ p[3] = "remove" /\ p[4] = "unsave"
    BY DEF Cleanup, RemoteControl, Removal, StepNames, Asks
  <1> HIDE DEF p
  <1>2. p # <<>> /\ Head(p) = "save" /\ DOMAIN p = 1..4
    <2>1. p \in Seq(StepNames) /\ Len(p) > 0
      BY <1>1
    <2>2. p # <<>> /\ Head(p) = p[1] /\ DOMAIN p = 1..Len(p)
      BY <2>1, SomeSteps
    <2>3. QED
      BY <1>1, <2>2
  <1>3. Countdown(p, CleaningUp)
    BY <1>1, <1>2 DEF Countdown, CleaningUp
  <1>5. Guarded(p)
    BY <1>1, <1>2 DEF Guarded, Starts, Asks
  <1>6. \A k : k.kind = "cleanup" /\ k.todo = p /\ k.services = Services => OnCourse(k)
    BY <1>3 DEF OnCourse
  <1>7. Begins("cleanup", p)
    BY <1>1, <1>2, <1>5, <1>6 DEF Begins, RunKinds
  <1>8. QED
    BY <1>7 DEF p

\* The cleanup of another.
LEMMA LocalCleanupBegins ==
    ASSUME worker # "remote"
    PROVE  Begins("cleanup", Cleanup)
  <1> DEFINE p == Cleanup
  <1>1. /\ p \in Seq(StepNames) /\ Len(p) = 3
        /\ p[1] = "stop" /\ p[2] = "remove" /\ p[3] = "unsave"
    BY DEF Cleanup, Removal, StepNames, Asks
  <1> HIDE DEF p
  <1>2. p # <<>> /\ Head(p) = "stop" /\ DOMAIN p = 1..3
    <2>1. p \in Seq(StepNames) /\ Len(p) > 0
      BY <1>1
    <2>2. p # <<>> /\ Head(p) = p[1] /\ DOMAIN p = 1..Len(p)
      BY <2>1, SomeSteps
    <2>3. QED
      BY <1>1, <2>2
  <1>3. Countdown(p, CleaningUp)
    BY <1>1, <1>2 DEF Countdown, CleaningUp
  <1>5. Guarded(p)
    BY <1>1, <1>2 DEF Guarded, Starts, Asks
  <1>6. \A k : k.kind = "cleanup" /\ k.todo = p /\ k.services = Services => OnCourse(k)
    BY <1>3 DEF OnCourse
  <1>7. Begins("cleanup", p)
    BY <1>1, <1>2, <1>5, <1>6 DEF Begins, RunKinds
  <1>8. QED
    BY <1>7 DEF p

\* The control commands for a mirror.
LEMMA MirrorControlBegins ==
    ASSUME NEW ask \in Asks, worker = "mirror"
    PROVE  Begins("control", MirrorControl(ask))
  <1> DEFINE p == MirrorControl(ask)
  <1>1. /\ p \in Seq(StepNames) /\ Len(p) = 3
        /\ p[1] = "prepare" /\ p[2] = ask /\ p[3] = "save"
    BY DEF MirrorControl, StepNames, Asks
  <1> HIDE DEF p
  <1>2. p # <<>> /\ Head(p) = "prepare" /\ DOMAIN p = 1..3
    <2>1. p \in Seq(StepNames) /\ Len(p) > 0
      BY <1>1
    <2>2. p # <<>> /\ Head(p) = p[1] /\ DOMAIN p = 1..Len(p)
      BY <2>1, SomeSteps
    <2>3. QED
      BY <1>1, <2>2
  <1>3. \A i \in DOMAIN p : p[i] \in Controlling
    BY <1>1, <1>2 DEF Controlling, Asks
  <1>6. \A k : k.kind = "control" /\ k.todo = p => OnCourse(k)
    BY <1>3 DEF OnCourse
  <1>7. Begins("control", p)
    BY <1>1, <1>2, <1>6 DEF Begins, RunKinds
  <1>8. QED
    BY <1>7 DEF p

\* The same with a sync.
LEMMA MirrorSyncControlBegins ==
    ASSUME NEW ask \in Asks, worker = "mirror"
    PROVE  Begins("control", MirrorSync \o <<ask, "save">>)
  <1> DEFINE p == MirrorSync \o <<ask, "save">>
  <1>1. /\ p \in Seq(StepNames) /\ Len(p) = 5
        /\ p[1] = "rsync" /\ p[2] = "copied" /\ p[3] = "prepare" /\ p[4] = ask
        /\ p[5] = "save"
    BY DEF MirrorSync, StepNames, Asks
  <1> HIDE DEF p
  <1>2. p # <<>> /\ Head(p) = "rsync" /\ DOMAIN p = 1..5
    <2>1. p \in Seq(StepNames) /\ Len(p) > 0
      BY <1>1
    <2>2. p # <<>> /\ Head(p) = p[1] /\ DOMAIN p = 1..Len(p)
      BY <2>1, SomeSteps
    <2>3. QED
      BY <1>1, <2>2
  <1>3. \A i \in DOMAIN p : p[i] \in Controlling
    BY <1>1, <1>2 DEF Controlling, Asks
  <1>6. \A k : k.kind = "control" /\ k.todo = p => OnCourse(k)
    BY <1>3 DEF OnCourse
  <1>7. Begins("control", p)
    BY <1>1, <1>2, <1>6 DEF Begins, RunKinds
  <1>8. QED
    BY <1>7 DEF p

\* The control commands for a remote run.
LEMMA RemoteControlBegins ==
    ASSUME NEW ask \in Asks
    PROVE  Begins("control", RemoteControl(ask))
  <1> DEFINE p == RemoteControl(ask)
  <1>1. /\ p \in Seq(StepNames) /\ Len(p) = 2
        /\ p[1] = "save" /\ p[2] = ask
    BY DEF RemoteControl, StepNames, Asks
  <1> HIDE DEF p
  <1>2. p # <<>> /\ Head(p) = "save" /\ DOMAIN p = 1..2
    <2>1. p \in Seq(StepNames) /\ Len(p) > 0
      BY <1>1
    <2>2. p # <<>> /\ Head(p) = p[1] /\ DOMAIN p = 1..Len(p)
      BY <2>1, SomeSteps
    <2>3. QED
      BY <1>1, <2>2
  <1>3. \A i \in DOMAIN p : p[i] \in Controlling
    BY <1>1, <1>2 DEF Controlling, Asks
  <1>5. Guarded(p)
    BY <1>1, <1>2 DEF Guarded, Starts, Asks
  <1>6. \A k : k.kind = "control" /\ k.todo = p => OnCourse(k)
    BY <1>3 DEF OnCourse
  <1>7. Begins("control", p)
    BY <1>1, <1>2, <1>5, <1>6 DEF Begins, RunKinds
  <1>8. QED
    BY <1>7 DEF p

\* The control commands for a local run.
LEMMA LocalControlBegins ==
    ASSUME NEW ask \in Asks, ask # "stop"
    PROVE  Begins("control", LocalControl(ask))
  <1> DEFINE p == LocalControl(ask)
  <1>1. /\ p \in Seq(StepNames) /\ Len(p) = 6
        /\ p[1] = "prepare" /\ p[2] = "rsync" /\ p[3] = "copied" /\ p[4] = "save"
        /\ p[5] = "save" /\ p[6] = ask
    BY DEF LocalControl, NeedsLocalSource, Sync, StepNames, Asks
  <1> HIDE DEF p
  <1>2. p # <<>> /\ Head(p) = "prepare" /\ DOMAIN p = 1..6
    <2>1. p \in Seq(StepNames) /\ Len(p) > 0
      BY <1>1
    <2>2. p # <<>> /\ Head(p) = p[1] /\ DOMAIN p = 1..Len(p)
      BY <2>1, SomeSteps
    <2>3. QED
      BY <1>1, <2>2
  <1>3. \A i \in DOMAIN p : p[i] \in Controlling
    BY <1>1, <1>2 DEF Controlling, Asks
  <1>5. Guarded(p)
    BY <1>1, <1>2 DEF Guarded, Starts, Asks
  <1>6. \A k : k.kind = "control" /\ k.todo = p => OnCourse(k)
    BY <1>3 DEF OnCourse
  <1>7. Begins("control", p)
    BY <1>1, <1>2, <1>5, <1>6 DEF Begins, RunKinds
  <1>8. QED
    BY <1>7 DEF p

\* The stop of a local run.
LEMMA LocalStopBegins ==
    Begins("control", LocalControl("stop"))
  <1> DEFINE p == LocalControl("stop")
  <1>1. /\ p \in Seq(StepNames) /\ Len(p) = 2
        /\ p[1] = "save" /\ p[2] = "stop"
    BY DEF LocalControl, NeedsLocalSource, StepNames, Asks
  <1> HIDE DEF p
  <1>2. p # <<>> /\ Head(p) = "save" /\ DOMAIN p = 1..2
    <2>1. p \in Seq(StepNames) /\ Len(p) > 0
      BY <1>1
    <2>2. p # <<>> /\ Head(p) = p[1] /\ DOMAIN p = 1..Len(p)
      BY <2>1, SomeSteps
    <2>3. QED
      BY <1>1, <2>2
  <1>3. \A i \in DOMAIN p : p[i] \in Controlling
    BY <1>1, <1>2 DEF Controlling, Asks
  <1>5. Guarded(p)
    BY <1>1, <1>2 DEF Guarded, Starts, Asks
  <1>6. \A k : k.kind = "control" /\ k.todo = p => OnCourse(k)
    BY <1>3 DEF OnCourse
  <1>7. Begins("control", p)
    BY <1>1, <1>2, <1>5, <1>6 DEF Begins, RunKinds
  <1>8. QED
    BY <1>7 DEF p

\* A watch.
LEMMA WatchBegins ==
    Begins("watch", Watch(FALSE))
  <1> DEFINE p == Watch(FALSE)
  <1>1. /\ p \in Seq(StepNames) /\ Len(p) = 2
        /\ p[1] = "open" /\ p[2] = "listen"
    BY DEF Watch, StepNames, Asks
  <1> HIDE DEF p
  <1>2. p # <<>> /\ Head(p) = "open" /\ DOMAIN p = 1..2
    <2>1. p \in Seq(StepNames) /\ Len(p) > 0
      BY <1>1
    <2>2. p # <<>> /\ Head(p) = p[1] /\ DOMAIN p = 1..Len(p)
      BY <2>1, SomeSteps
    <2>3. QED
      BY <1>1, <2>2
  <1>3. Watching(p)
    BY <1>1, <1>2 DEF Watching, WatchSteps
  <1>5. Guarded(p)
    BY <1>1, <1>2 DEF Guarded, Starts, Asks
  <1>6. \A k : k.kind = "watch" /\ k.todo = p => OnCourse(k)
    BY <1>3 DEF OnCourse
  <1>7. Begins("watch", p)
    BY <1>1, <1>2, <1>5, <1>6 DEF Begins, RunKinds
  <1>8. QED
    BY <1>7 DEF p

\* A watch --once.
LEMMA WatchOnceBegins ==
    Begins("watch", Watch(TRUE))
  <1> DEFINE p == Watch(TRUE)
  <1>1. /\ p \in Seq(StepNames) /\ Len(p) = 3
        /\ p[1] = "open" /\ p[2] = "listen" /\ p[3] = "end"
    BY DEF Watch, StepNames, Asks
  <1> HIDE DEF p
  <1>2. p # <<>> /\ Head(p) = "open" /\ DOMAIN p = 1..3
    <2>1. p \in Seq(StepNames) /\ Len(p) > 0
      BY <1>1
    <2>2. p # <<>> /\ Head(p) = p[1] /\ DOMAIN p = 1..Len(p)
      BY <2>1, SomeSteps
    <2>3. QED
      BY <1>1, <2>2
  <1>3. Watching(p)
    BY <1>1, <1>2 DEF Watching, WatchSteps
  <1>5. Guarded(p)
    BY <1>1, <1>2 DEF Guarded, Starts, Asks
  <1>6. \A k : k.kind = "watch" /\ k.todo = p => OnCourse(k)
    BY <1>3 DEF OnCourse
  <1>7. Begins("watch", p)
    BY <1>1, <1>2, <1>5, <1>6 DEF Begins, RunKinds
  <1>8. QED
    BY <1>7 DEF p

\* Every plan.
LEMMA PlansBegin ==
    ASSUME worker \in {"local", "remote", "mirror"}, NEW plan \in Plans
    PROVE  Begins(plan[1], plan[2])
  <1>1. CASE \E ask \in Asks : plan = <<"control", Control(ask)>>
    <2>1. PICK ask \in Asks : plan = <<"control", Control(ask)>>
      BY <1>1
    <2>2. plan[1] = "control" /\ plan[2] = Control(ask)
      BY <2>1
    <2>3. CASE worker = "mirror"
      BY <2>2, <2>3, MirrorControlBegins DEF Control
    <2>4. CASE worker = "local" /\ ask # "stop"
      BY <2>2, <2>4, LocalControlBegins DEF Control
    <2>5. CASE worker = "local" /\ ask = "stop"
      BY <2>2, <2>5, LocalStopBegins DEF Control
    <2>6. CASE worker = "remote"
      BY <2>2, <2>6, RemoteControlBegins DEF Control
    <2>7. QED
      BY <2>3, <2>4, <2>5, <2>6
  <1>2. CASE worker = "mirror" /\ plan \in MirrorPlans
    <2>1. CASE \E ask \in Asks : plan = <<"control", MirrorSync \o <<ask, "save">>>>
      <3>1. PICK ask \in Asks : plan = <<"control", MirrorSync \o <<ask, "save">>>>
        BY <2>1
      <3>2. plan[1] = "control" /\ plan[2] = MirrorSync \o <<ask, "save">>
        BY <3>1
      <3>3. QED
        BY <1>2, <3>2, MirrorSyncControlBegins
    <2>2. \/ \E ask \in Asks : plan = <<"control", MirrorSync \o <<ask, "save">>>>
          \/ plan[1] = "up" /\ plan[2] = MirrorSync \o ServicesUp
          \/ plan[1] = "up" /\ plan[2] = <<"prepare">> \o ServicesUp
          \/ plan[1] = "up" /\ plan[2] = MirrorSync \o <<"install">> \o ServicesUp
          \/ plan[1] = "cleanup" /\ plan[2] = MirrorCleanup
          \/ plan[1] = "removal" /\ plan[2] = MirrorRemoval
      <3>1. \/ \E ask \in Asks : plan = <<"control", MirrorSync \o <<ask, "save">>>>
            \/ plan = <<"up", MirrorSync \o ServicesUp>>
            \/ plan = <<"up", <<"prepare">> \o ServicesUp>>
            \/ plan = <<"up", MirrorSync \o <<"install">> \o ServicesUp>>
            \/ plan = <<"cleanup", MirrorCleanup>>
            \/ plan = <<"removal", MirrorRemoval>>
        BY <1>2, Zenon DEF MirrorPlans
      <3>2. \A a, b : plan = <<a, b>> => plan[1] = a /\ plan[2] = b
        OBVIOUS
      <3>3. QED
        BY <3>1, <3>2, Zenon
    <2>3. QED
      BY <1>2, <2>1, <2>2, UpBegins, UpSyncBegins, UpInstallBegins, MirrorCleanupBegins,
         MirrorRemovalBegins
  <1>3. CASE worker # "mirror" /\ plan \in RunPlans
    <2>1. \/ plan[1] = "deploy" /\ plan[2] = Deployment
          \/ plan[1] = "deploy" /\ plan[2] = Fresh \o Deployment
          \/ plan[1] = "deploy" /\ plan[2] = <<"install">> \o Deployment
          \/ plan[1] = "sync" /\ plan[2] = Sync
          \/ plan[1] = "cleanup" /\ plan[2] = Cleanup
          \/ plan[1] = "removal" /\ plan[2] = Removal
          \/ plan[1] = "watch" /\ (plan[2] = Watch(TRUE) \/ plan[2] = Watch(FALSE))
      <3>1. \/ plan = <<"deploy", Deployment>> \/ plan = <<"deploy", Fresh \o Deployment>>
            \/ plan = <<"deploy", <<"install">> \o Deployment>>
            \/ plan = <<"sync", Sync>> \/ plan = <<"cleanup", Cleanup>>
            \/ plan = <<"removal", Removal>>
            \/ plan = <<"watch", Watch(TRUE)>> \/ plan = <<"watch", Watch(FALSE)>>
        BY <1>3, Zenon DEF RunPlans
      <3>2. \A a, b : plan = <<a, b>> => plan[1] = a /\ plan[2] = b
        OBVIOUS
      <3>3. QED
        BY <3>1, <3>2, Zenon
    <2>2. QED
      BY <2>1, DeployBegins, FreshBegins, InstallBegins, SyncBegins, RemoteCleanupBegins,
         LocalCleanupBegins, RemovalBegins, WatchBegins, WatchOnceBegins
  <1>4. QED
    BY <1>1, <1>2, <1>3 DEF Plans

\* The restarts of a watch.
LEMMA RestartsSteps ==
    ASSUME NEW n \in Nat
    PROVE  Restarts(n) \in Seq({"save", "restart"})
  <1> DEFINE S == {"save", "restart"}
  <1>1. CASE worker = "remote"
    <2> DEFINE one == <<"save", "restart">>
    <2>1. RemoteControl("restart") = one /\ Len(one) = 2 /\ one[1] \in S /\ one[2] \in S
      BY DEF RemoteControl
    <2> HIDE DEF one
    <2>2. Restarts(n) = [i \in 1..n * Len(one) |-> one[((i - 1) % Len(one)) + 1]]
      BY <1>1, <2>1 DEF Restarts
    <2>3. n * Len(one) = n * 2 /\ n * 2 \in Nat
      BY <2>1
    <2>4. \A i \in 1..n * 2 : one[((i - 1) % 2) + 1] \in S
      <3>1. SUFFICES ASSUME NEW i \in 1..n * 2 PROVE one[((i - 1) % 2) + 1] \in S
        OBVIOUS
      <3>2. i - 1 \in Int
        BY <2>3
      <3>3. (i - 1) % 2 = 0 \/ (i - 1) % 2 = 1
        BY <3>2
      <3>4. QED
        BY <2>1, <3>3
    <2>5. Restarts(n) = [i \in 1..n * 2 |-> one[((i - 1) % 2) + 1]]
      BY <2>1, <2>2
    <2>6. QED
      BY <2>3, <2>4, <2>5
  <1>2. CASE worker # "remote"
    <2> DEFINE one == <<"restart">>
    <2>1. Len(one) = 1 /\ one[1] = "restart"
      OBVIOUS
    <2> HIDE DEF one
    <2>2. Restarts(n) = [i \in 1..n * Len(one) |-> one[((i - 1) % Len(one)) + 1]]
      BY <1>2 DEF Restarts, one
    <2>3. n * Len(one) = n /\ \A i \in 1..n : (i - 1) % 1 = 0
      BY <2>1
    <2>4. Restarts(n) = [i \in 1..n |-> one[((i - 1) % 1) + 1]]
      BY <2>1, <2>2, <2>3
    <2>5. \A i \in 1..n : one[((i - 1) % 1) + 1] \in S
      BY <2>1, <2>3
    <2>6. QED
      BY <2>4, <2>5
  <1>3. QED
    BY <1>1, <1>2

\* What a watch sets out to do for a change.
LEMMA RoundSteps ==
    ASSUME NEW n \in Nat, NEW e \in {"end", "listen"}
    PROVE  LET t == <<"settle">> \o Sync \o Restarts(n) \o <<e>>
           IN  /\ t \in Seq(StepNames) /\ t # <<>> /\ Head(t) = "settle"
               /\ Watching(t) /\ Guarded(t)
  <1> DEFINE a == <<"settle">> \o Sync
             r == Restarts(n)
             b == a \o r
             t == b \o <<e>>
  <1>1. /\ a \in Seq(StepNames) /\ Len(a) = 5 /\ a[1] = "settle" /\ a[2] = "prepare"
        /\ a[3] = "rsync" /\ a[4] = "copied" /\ a[5] = "save"
    BY DEF Sync, StepNames, Asks
  <1>2. r \in Seq({"save", "restart"}) /\ Len(r) \in Nat
        /\ \A i \in 1..Len(r) : r[i] \in {"save", "restart"}
    BY RestartsSteps
  <1>3. r \in Seq(StepNames)
    <2>1. {"save", "restart"} \subseteq StepNames
      BY DEF StepNames, Asks
    <2>2. QED
      BY <1>2, <2>1
  <1> HIDE DEF a, r
  <1>4. /\ b \in Seq(StepNames) /\ Len(b) = 5 + Len(r)
        /\ \A i \in 1..Len(b) : b[i] = IF i <= 5 THEN a[i] ELSE r[i - 5]
    <2>1. /\ b \in Seq(StepNames) /\ Len(b) = Len(a) + Len(r)
          /\ \A i \in 1..Len(a) + Len(r) : b[i] = IF i <= Len(a) THEN a[i] ELSE r[i - Len(a)]
      BY <1>1, <1>3, ConcatProperties
    <2> HIDE DEF b
    <2>2. QED
      BY <1>1, <1>2, <2>1
  <1> HIDE DEF b
  <1>5. <<e>> \in Seq(StepNames) /\ Len(<<e>>) = 1 /\ <<e>>[1] = e
    BY DEF StepNames
  <1>6. /\ t \in Seq(StepNames) /\ Len(t) = 6 + Len(r)
        /\ \A i \in 1..Len(t) : t[i] = IF i <= Len(b) THEN b[i] ELSE <<e>>[i - Len(b)]
    BY <1>2, <1>4, <1>5, ConcatProperties
  <1> HIDE DEF t
  <1>7. t # <<>> /\ Head(t) = t[1] /\ DOMAIN t = 1..Len(t)
    BY <1>2, <1>6, SomeSteps
  <1>8. /\ t[1] = "settle" /\ t[2] = "prepare" /\ t[3] = "rsync" /\ t[4] = "copied"
        /\ t[5] = "save"
    BY <1>1, <1>2, <1>4, <1>6
  <1>9. \A i \in 1..Len(t) : 5 < i /\ i < 6 + Len(r) => t[i] \in {"save", "restart"}
    <2>1. SUFFICES ASSUME NEW i \in 1..Len(t), 5 < i, i < 6 + Len(r)
                   PROVE  t[i] \in {"save", "restart"}
      OBVIOUS
    <2>2. i \in 1..Len(b) /\ t[i] = b[i] /\ b[i] = r[i - 5] /\ i - 5 \in 1..Len(r)
      BY <1>2, <1>4, <1>6, <2>1
    <2>3. QED
      BY <1>2, <2>2
  <1>10. t[6 + Len(r)] = e
    BY <1>2, <1>4, <1>5, <1>6
  <1>11. \A i \in 1..Len(t) : i \in Nat /\ (i = 1 \/ i = 2 \/ i = 3 \/ i = 4 \/ i = 5
                               \/ (5 < i /\ i < 6 + Len(r)) \/ i = 6 + Len(r))
    BY <1>2, <1>6
  <1>12. Watching(t)
    <2>1. SUFFICES ASSUME NEW i \in 1..Len(t)
                   PROVE  /\ t[i] \in WatchSteps /\ t[i] # "open"
                          /\ t[i] = "settle" => i + 1 \in 1..Len(t) /\ t[i + 1] = "prepare"
                          /\ t[i] = "prepare" => i + 1 \in 1..Len(t) /\ t[i + 1] = "rsync"
                          /\ t[i] = "rsync" => i + 1 \in 1..Len(t) /\ t[i + 1] = "copied"
                          /\ t[i] = "copied" /\ i > 1 => t[i - 1] = "rsync"
                          /\ t[i] = "listen" => i = Len(t)
      BY <1>6, <1>7, <1>2 DEF Watching
    <2>2. CASE i = 1 \/ i = 2 \/ i = 3 \/ i = 4 \/ i = 5
      BY <1>2, <1>6, <1>8, <2>2 DEF WatchSteps
    <2>3. CASE 5 < i /\ i < 6 + Len(r)
      BY <1>9, <2>3 DEF WatchSteps
    <2>4. CASE i = 6 + Len(r)
      BY <1>6, <1>10, <2>4 DEF WatchSteps
    <2>5. QED
      BY <1>11, <2>2, <2>3, <2>4
  <1>13. Guarded(t)
    <2>1. SUFFICES ASSUME NEW i \in 1..Len(t), t[i] \in Starts
                   PROVE  \E m \in 1..i : t[m] = "save"
      BY <1>7 DEF Guarded
    <2>2. 5 < i
      BY <1>8, <1>11, <2>1, <1>2 DEF Starts
    <2>3. QED
      BY <1>8, <1>11, <2>2
  <1>14. QED
    BY <1>6, <1>7, <1>8, <1>12, <1>13 DEF t, b, a, r

(***************************************************************************)
(* What a step does to the commands                                        *)
(***************************************************************************)

CmdPlotted == cmd \in [Clients -> Command] /\ \A c \in Clients : Plotted(cmd[c])

\* t is k some steps on.
Moved(k, t) ==
    /\ Plotted(t)
    /\ \/ t.kind = "none"
       \/ /\ t.kind = k.kind /\ t.services = k.services /\ t.told = k.told
          /\ t.alone = k.alone /\ t.stopped = k.stopped
          /\ \/ Len(t.todo) = Len(k.todo) - 1 /\ Head(t.todo) = k.todo[2]
             \/ Head(k.todo) = "exists" /\ Len(k.todo) = 13 /\ Len(t.todo) = 9
    /\ Guarded(k.todo) /\ Head(k.todo) # "save" => Guarded(t.todo)

\* An idle client starts nothing.
LEMMA IdleGuarded ==
    ASSUME NEW t, t.todo = <<"idle">> PROVE Guarded(t.todo)
  BY DEF Guarded, Starts

\* A step done moves a command on.
LEMMA ThenMoves ==
    ASSUME NEW k, Plotted(k) PROVE Moved(k, Then(k))
  <1> DEFINE t == Then(k)
  <1>1. Plotted(t) /\ (t = Idle \/ Onward(k, t))
    BY ThenFields
  <1> HIDE DEF t
  <1>2. CASE t = Idle
    BY <1>1, <1>2, IdleFields, IdleGuarded DEF Moved, t
  <1>3. CASE Onward(k, t)
    <2>1. k.todo \in Seq(StepNames) /\ k.todo # <<>> /\ Len(k.todo) # 1 /\ t.todo = Tail(k.todo)
      BY <1>3 DEF Plotted, Command, Onward
    <2>2. /\ \A i \in DOMAIN t.todo : i \in Nat /\ i + 1 \in DOMAIN k.todo
                                      /\ t.todo[i] = k.todo[i + 1]
          /\ Head(k.todo) = k.todo[1] /\ Len(k.todo) \in Nat
          /\ DOMAIN k.todo = 1..Len(k.todo) /\ DOMAIN t.todo = 1..Len(k.todo) - 1
      BY <2>1, TailSteps
    <2>3. ASSUME Guarded(k.todo), Head(k.todo) # "save", NEW i \in DOMAIN t.todo,
                 t.todo[i] \in Starts
          PROVE  \E n \in 1..i : t.todo[n] = "save"
      <3>1. PICK n \in 1..i + 1 : k.todo[n] = "save"
        BY <2>2, <2>3 DEF Guarded
      <3>2. n # 1 /\ n \in Nat /\ n - 1 \in 1..i /\ i \in Nat
        BY <2>2, <2>3, <3>1
      <3>3. n - 1 \in DOMAIN t.todo /\ n - 1 + 1 = n
        BY <2>2, <3>2
      <3>4. t.todo[n - 1] = "save"
        BY <2>2, <3>1, <3>3
      <3>5. QED
        BY <3>2, <3>4
    <2>4. QED
      BY <1>1, <1>3, <2>3 DEF Moved, Onward, SameBut, Guarded, t
  <1>4. QED
    BY <1>1, <1>2, <1>3 DEF t

\* A moved command of which other fields change is a moved command.
LEMMA MovedToo ==
    ASSUME NEW k, NEW t, Moved(k, t), NEW u \in Command,
           u.kind = t.kind, u.todo = t.todo, u.services = t.services, u.told = t.told,
           u.alone = t.alone, u.stopped = t.stopped
    PROVE  Moved(k, u)
  BY DEF Moved, Plotted, OnCourse

\* A command of which neither the kind nor the steps nor the services change.
LEMMA PlottedToo ==
    ASSUME NEW t, Plotted(t), NEW u \in Command,
           u.kind = t.kind, u.todo = t.todo, u.services = t.services
    PROVE  Plotted(u)
  BY DEF Plotted, OnCourse

\* A step of one client.
LEMMA OneCmd ==
    ASSUME CmdPlotted, NEW c \in Clients, NEW t, Plotted(t), cmd' = [cmd EXCEPT ![c] = t]
    PROVE  CmdPlotted' /\ cmd'[c] = t /\ \A b \in Clients \ {c} : cmd'[b] = cmd[b]
  <1>1. t \in Command
    BY DEF Plotted
  <1>2. cmd' \in [Clients -> Command]
    BY <1>1 DEF CmdPlotted
  <1>3. cmd'[c] = t /\ \A b \in Clients \ {c} : cmd'[b] = cmd[b]
    BY DEF CmdPlotted
  <1>4. \A b \in Clients : Plotted(cmd'[b])
    BY <1>3 DEF CmdPlotted
  <1>5. QED
    BY <1>2, <1>3, <1>4 DEF CmdPlotted, Plotted, OnCourse

\* A step of c that asks the daemon for nothing, and does not begin anything.
Steady(c) ==
    /\ CmdPlotted' /\ Moved(cmd[c], cmd'[c])
    /\ \A b \in Clients \ {c} : cmd'[b] = cmd[b]
    /\ Head(cmd[c].todo) \notin Asks \cup {"idle", "listen", "install"}
    /\ jobs' = jobs \/ jobs' = Soiled(jobs)
    /\ UNCHANGED <<worker, edit>>
    /\ alive' = alive \/ AllDown'
    /\ cmd[c].kind \in RunKinds \/ UNCHANGED <<runVars, jobs>>

\* In which what the properties compare stays as it is.
Quiet(c) ==
    /\ Steady(c)
    /\ UNCHANGED <<source, made, alive>>
    /\ cmd'[c].kind # "none" => cmd'[c].from = cmd[c].from /\ SameNotes(cmd[c], cmd'[c])
    /\ Head(cmd[c].todo) \notin {"remove", "rsync", "copied", "settle"}

\* The command of a client that advances.
LEMMA AdvanceMoves ==
    ASSUME CmdPlotted, NEW c \in Clients, Advance(c)
    PROVE  /\ CmdPlotted' /\ Moved(cmd[c], cmd'[c]) /\ cmd'[c] = Then(cmd[c])
           /\ \A b \in Clients \ {c} : cmd'[b] = cmd[b]
           /\ cmd'[c].kind # "none" => cmd'[c].from = cmd[c].from /\ SameNotes(cmd[c], cmd'[c])
  <1> DEFINE t == Then(cmd[c])
  <1>1. Plotted(cmd[c])
    BY DEF CmdPlotted
  <1>2. Plotted(t) /\ Moved(cmd[c], t) /\ (t = Idle \/ Onward(cmd[c], t))
    BY <1>1, ThenFields, ThenMoves
  <1>3. cmd' = [cmd EXCEPT ![c] = t]
    BY DEF Advance
  <1> HIDE DEF t
  <1>4. CmdPlotted' /\ cmd'[c] = t /\ \A b \in Clients \ {c} : cmd'[b] = cmd[b]
    BY <1>2, <1>3, OneCmd
  <1>5. t.kind # "none" => t.from = cmd[c].from /\ SameNotes(cmd[c], t)
    BY <1>2, IdleFields DEF Onward, SameBut
  <1>6. QED
    BY <1>2, <1>4, <1>5 DEF t

\* The quiet steps by which a client only advances.
LEMMA AdvanceQuiet ==
    ASSUME CmdPlotted, NEW c \in Clients,
           \/ Save(c) \/ Unsave(c) \/ Prepare(c) \/ Wait(c) \/ Report(c) \/ WatchOpen(c)
    PROVE  Quiet(c) /\ jobs' = jobs
  <1>1. /\ CmdPlotted' /\ Moved(cmd[c], cmd'[c])
        /\ \A b \in Clients \ {c} : cmd'[b] = cmd[b]
        /\ cmd'[c].kind # "none" => cmd'[c].from = cmd[c].from /\ SameNotes(cmd[c], cmd'[c])
    <2>1. Advance(c)
      BY DEF Save, Unsave, Prepare, Wait, Report, WatchOpen
    <2>2. QED
      BY <2>1, AdvanceMoves
  <1>2. /\ Head(cmd[c].todo) \in {"save", "unsave", "prepare", "wait", "end", "open"}
        /\ UNCHANGED <<worker, edit, source, made, alive, jobs>>
    BY DEF Save, Unsave, Prepare, Wait, Report, WatchOpen, At, runVars
  <1>3. Head(cmd[c].todo) \in {"prepare", "wait", "end", "open"} => cmd[c].kind \in RunKinds
    BY KindOfStep DEF CmdPlotted
  <1>4. Head(cmd[c].todo) \in {"save", "unsave"} => UNCHANGED runVars
    BY DEF Save, Unsave, Prepare, Wait, Report, WatchOpen, At
  <1>5. QED
    BY <1>1, <1>2, <1>3, <1>4 DEF Quiet, Steady, Asks

\* A load of the registry.
LEMMA LoadQuiet ==
    ASSUME CmdPlotted, listed \in BOOLEAN, NEW c \in Clients, Load(c)
    PROVE  Quiet(c) /\ jobs' = jobs
  <1> DEFINE t == Then(cmd[c])
             u == [t EXCEPT !.copy = listed]
  <1>1. Plotted(cmd[c])
    BY DEF CmdPlotted
  <1>2. Plotted(t) /\ Moved(cmd[c], t) /\ (t = Idle \/ Onward(cmd[c], t)) /\ t \in Command
    BY <1>1, ThenFields, ThenMoves DEF Plotted
  <1>3. cmd' = [cmd EXCEPT ![c] = u]
    BY DEF Load
  <1> HIDE DEF t
  <1>4. /\ u \in Command /\ u.kind = t.kind /\ u.todo = t.todo /\ u.services = t.services
        /\ u.told = t.told /\ u.alone = t.alone /\ u.stopped = t.stopped /\ u.from = t.from
        /\ SameNotes(t, u)
    BY <1>2 DEF Command, SameNotes, SameTidings
  <1> HIDE DEF u
  <1>5. Moved(cmd[c], u) /\ Plotted(u)
    <2>1. Moved(cmd[c], u)
      BY <1>2, <1>4, MovedToo
    <2>2. QED
      BY <2>1 DEF Moved
  <1>6. CmdPlotted' /\ cmd'[c] = u /\ \A b \in Clients \ {c} : cmd'[b] = cmd[b]
    BY <1>3, <1>5, OneCmd
  <1>7. u.kind # "none" => u.from = cmd[c].from /\ SameNotes(cmd[c], u)
    BY <1>2, <1>4, IdleFields DEF Onward, SameBut, SameNotes, SameTidings
  <1>8. UNCHANGED <<worker, edit, runVars, jobs>> /\ Head(cmd[c].todo) = "load"
    BY DEF Load, At
  <1>9. QED
    BY <1>5, <1>6, <1>7, <1>8 DEF Quiet, Steady, Asks, runVars

\* deploy --fresh looks for the run directory.
LEMMA ExistsQuiet ==
    ASSUME CmdPlotted, NEW c \in Clients, Exists(c)
    PROVE  Quiet(c) /\ jobs' = jobs
  <1> DEFINE k == cmd[c]
             skip == SubSeq(k.todo, 5, 13)
             u == [k EXCEPT !.todo = skip]
  <1>1. Plotted(k) /\ Head(k.todo) = "exists" /\ k \in Command /\ k.todo \in Seq(StepNames)
    BY DEF CmdPlotted, Exists, At, Plotted, Command
  <1>2. k.kind = "deploy" /\ Len(k.todo) = 13
    BY <1>1, KindOfStep, DeployCourse DEF InDeploy, AtDeploy
  <1>3. UNCHANGED <<worker, edit, runVars, jobs>> /\ k.kind \in RunKinds
    BY <1>2 DEF Exists, RunKinds
  <1>4. CASE dir # "missing"
    <2>1. Then(k) = [k EXCEPT !.todo = Tail(@)]
      BY <1>2 DEF Then
    <2>2. cmd' = [cmd EXCEPT ![c] = Then(k)]
      BY <1>4, <2>1 DEF Exists, CmdPlotted
    <2>3. Advance(c)
      BY <2>2 DEF Advance
    <2>4. QED
      BY <1>1, <1>3, <2>3, AdvanceMoves DEF Quiet, Steady, runVars, Asks
  <1>5. CASE dir = "missing"
    <2>1. Len(Fresh) + 1 = 5
      BY DEF Fresh
    <2>2. cmd' = [cmd EXCEPT ![c] = u]
      BY <1>2, <1>5, <2>1 DEF Exists, CmdPlotted
    <2>3. /\ skip \in Seq(StepNames) /\ Len(skip) = 9
          /\ \A i \in 1..9 : skip[i] = k.todo[i + 4] /\ i + 4 \in DOMAIN k.todo
      <3>1. \A i \in 5..13 : k.todo[i] \in StepNames
        BY <1>1, <1>2
      <3>2. /\ skip \in Seq(StepNames) /\ Len(skip) = 13 - 5 + 1
            /\ \A i \in 1..13 - 5 + 1 : skip[i] = k.todo[5 + i - 1]
        BY <3>1, SubSeqProperties
      <3>3. \A i \in 1..9 : i + 4 \in DOMAIN k.todo /\ 5 + i - 1 = i + 4
        BY <1>1, <1>2
      <3>4. QED
        BY <3>2, <3>3
    <2>4. skip # <<>> /\ DOMAIN skip = 1..9
      BY <2>3, SomeSteps
    <2> HIDE DEF skip
    <2>5. u \in Command /\ u.todo = skip /\ SameBut(k, u)
      BY <1>1, <2>3 DEF Command, SameBut, SameNotes, SameTidings
    <2> HIDE DEF u
    <2>6. Countdown(k.todo, Deploying)
      BY <1>1, <1>2 DEF Plotted, OnCourse
    <2>7. Countdown(skip, Deploying)
      <3>1. \A i \in 1..9 : 13 - (i + 4) + 1 = 9 - i + 1
        OBVIOUS
      <3>2. \A i \in 1..9 : k.todo[i + 4] \in Deploying[13 - (i + 4) + 1]
        BY <1>2, <2>3, <2>6 DEF Countdown
      <3>3. QED
        BY <2>3, <2>4, <3>1, <3>2, DeployingIs DEF Countdown
    <2>8. Plotted(u)
      BY <1>2, <2>4, <2>5, <2>7 DEF Plotted, OnCourse, SameBut
    <2>9. Guarded(u.todo)
      <3>1. \A i \in 1..9 : skip[i] \in Deploying[9 - i + 1]
        BY <2>3, <2>4, <2>7 DEF Countdown
      <3>2. skip[4] = "save" /\ skip[1] = "prepare" /\ skip[2] = "rsync" /\ skip[3] = "copied"
        <4>1. skip[4] \in Deploying[6] /\ skip[1] \in Deploying[9] /\ skip[2] \in Deploying[8]
              /\ skip[3] \in Deploying[7]
          BY <3>1
        <4>2. QED
          BY <4>1, DeployingIs
      <3>3. QED
        BY <2>4, <2>5, <3>2 DEF Guarded, Starts
    <2>10. Moved(k, u)
      BY <1>1, <1>2, <2>3, <2>5, <2>8, <2>9 DEF Moved, SameBut
    <2>11. CmdPlotted' /\ cmd'[c] = u /\ \A b \in Clients \ {c} : cmd'[b] = cmd[b]
      BY <2>2, <2>8, OneCmd
    <2>12. QED
      BY <1>1, <1>3, <2>5, <2>10, <2>11 DEF Quiet, Steady, runVars, Asks, SameBut
  <1>6. QED
    BY <1>4, <1>5

\* A client that advances, with another version.
LEMMA FromMoves ==
    ASSUME CmdPlotted, NEW c \in Clients, NEW v \in Contents,
           cmd' = [cmd EXCEPT ![c] = [Then(@) EXCEPT !.from = v]]
    PROVE  /\ CmdPlotted' /\ Moved(cmd[c], cmd'[c])
           /\ \A b \in Clients \ {c} : cmd'[b] = cmd[b]
           /\ cmd'[c].from = v /\ cmd'[c].kind = Then(cmd[c]).kind
           /\ cmd'[c].kind # "none" => SameNotes(cmd[c], cmd'[c])
  <1> DEFINE t == Then(cmd[c])
             u == cmd'[c]
  <1>1. /\ Plotted(t) /\ Moved(cmd[c], t) /\ t \in Command
        /\ t.kind # "none" => SameNotes(cmd[c], t)
    <2>1. Plotted(cmd[c])
      BY DEF CmdPlotted
    <2>2. Plotted(t) /\ Moved(cmd[c], t) /\ (t = Idle \/ Onward(cmd[c], t))
      BY <2>1, ThenFields, ThenMoves
    <2>3. QED
      BY <2>2, IdleFields DEF Plotted, Onward, SameBut
  <1>2. cmd' = [cmd EXCEPT ![c] = [t EXCEPT !.from = v]]
    BY DEF t
  <1> HIDE DEF t
  <1>3. u = [t EXCEPT !.from = v]
    BY <1>2 DEF CmdPlotted
  <1>4. cmd' = [cmd EXCEPT ![c] = u]
    BY <1>2, <1>3
  <1> HIDE DEF u
  <1>5. /\ u \in Command /\ u.kind = t.kind /\ u.todo = t.todo /\ u.services = t.services
        /\ u.told = t.told /\ u.alone = t.alone /\ u.stopped = t.stopped /\ u.from = v
        /\ SameNotes(t, u)
    BY <1>1, <1>3 DEF Command, SameNotes, SameTidings
  <1>6. Moved(cmd[c], u)
    BY <1>1, <1>5, MovedToo
  <1>7. Plotted(u)
    BY <1>6 DEF Moved
  <1>8. CmdPlotted' /\ cmd'[c] = u /\ \A b \in Clients \ {c} : cmd'[b] = cmd[b]
    BY <1>4, <1>7, OneCmd
  <1>9. QED
    BY <1>1, <1>5, <1>6, <1>8 DEF t, SameNotes, SameTidings

\* A client that advances, with a new snapshot.
LEMMA SnapshotMoves ==
    ASSUME CmdPlotted, NEW c \in Clients,
           cmd' = [cmd EXCEPT ![c] = [Then(@) EXCEPT !.differs = FALSE]]
    PROVE  /\ CmdPlotted' /\ Moved(cmd[c], cmd'[c])
           /\ \A b \in Clients \ {c} : cmd'[b] = cmd[b]
           /\ cmd'[c].kind # "none" =>
                 cmd'[c].from = cmd[c].from /\ SameTidings(cmd[c], cmd'[c])
  <1> DEFINE t == Then(cmd[c])
             u == cmd'[c]
  <1>1. /\ Plotted(t) /\ Moved(cmd[c], t) /\ t \in Command
        /\ t.kind # "none" => t.from = cmd[c].from /\ SameTidings(cmd[c], t)
    <2>1. Plotted(cmd[c])
      BY DEF CmdPlotted
    <2>2. Plotted(t) /\ Moved(cmd[c], t) /\ (t = Idle \/ Onward(cmd[c], t))
      BY <2>1, ThenFields, ThenMoves
    <2>3. QED
      BY <2>2, IdleFields DEF Plotted, Onward, SameBut, SameNotes
  <1>2. cmd' = [cmd EXCEPT ![c] = [t EXCEPT !.differs = FALSE]]
    BY DEF t
  <1> HIDE DEF t
  <1>3. u = [t EXCEPT !.differs = FALSE]
    BY <1>2 DEF CmdPlotted
  <1>4. cmd' = [cmd EXCEPT ![c] = u]
    BY <1>2, <1>3
  <1> HIDE DEF u
  <1>5. /\ u \in Command /\ u.kind = t.kind /\ u.todo = t.todo /\ u.services = t.services
        /\ u.told = t.told /\ u.alone = t.alone /\ u.stopped = t.stopped
        /\ u.from = t.from /\ SameTidings(t, u)
    BY <1>1, <1>3 DEF Command, SameTidings
  <1>6. Moved(cmd[c], u)
    BY <1>1, <1>5, MovedToo
  <1>7. Plotted(u)
    BY <1>6 DEF Moved
  <1>8. CmdPlotted' /\ cmd'[c] = u /\ \A b \in Clients \ {c} : cmd'[b] = cmd[b]
    BY <1>4, <1>7, OneCmd
  <1>9. QED
    BY <1>1, <1>5, <1>6, <1>8 DEF t, SameTidings

\* The numbers of versions.
LEMMA VersionFacts ==
    /\ Versions \subseteq Contents /\ None \in Contents /\ Mixed \in Contents
    /\ None \notin Versions /\ Mixed \notin Versions /\ None # Mixed /\ Versions \subseteq Nat
  BY BoundsAssumption DEF Versions, None, Mixed, Contents

\* The end of the debounce.
LEMMA SettleSteady ==
    ASSUME CmdPlotted, TypeOK, NEW c \in Clients, Settle(c)
    PROVE  /\ Steady(c) /\ jobs' = jobs /\ UNCHANGED runVars /\ Head(cmd[c].todo) = "settle"
           /\ cmd[c].kind \in RunKinds
           /\ cmd'[c].kind # "none" =>
                 cmd'[c].from = cmd[c].from /\ SameTidings(cmd[c], cmd'[c])
  <1>2. cmd' = [cmd EXCEPT ![c] = [Then(@) EXCEPT !.differs = FALSE]]
        /\ Head(cmd[c].todo) = "settle" /\ UNCHANGED <<worker, edit, runVars, jobs>>
    BY DEF Settle, At
  <1>3. /\ CmdPlotted' /\ Moved(cmd[c], cmd'[c])
        /\ \A b \in Clients \ {c} : cmd'[b] = cmd[b]
        /\ cmd'[c].kind # "none" =>
              cmd'[c].from = cmd[c].from /\ SameTidings(cmd[c], cmd'[c])
    BY <1>2, SnapshotMoves
  <1>4. cmd[c].kind \in RunKinds
    BY <1>2, KindOfStep DEF CmdPlotted
  <1>5. QED
    BY <1>2, <1>3, <1>4 DEF Steady, runVars, Asks

\* rsync begins.
LEMMA RsyncSteady ==
    ASSUME CmdPlotted, TypeOK, NEW c \in Clients, Rsync(c)
    PROVE  /\ Steady(c) /\ Head(cmd[c].todo) = "rsync" /\ cmd[c].kind \in RunKinds
           /\ cmd'[c].from = edit /\ alive' = alive
           /\ cmd'[c].kind # "none" => SameNotes(cmd[c], cmd'[c])
  <1>1. edit \in Contents
    BY VersionFacts DEF TypeOK
  <1>2. /\ cmd' = [cmd EXCEPT ![c] = [Then(@) EXCEPT !.from = edit]]
        /\ Head(cmd[c].todo) = "rsync" /\ UNCHANGED <<worker, edit, alive>>
        /\ jobs' = Soiled(jobs)
    BY DEF Rsync, At
  <1>3. /\ CmdPlotted' /\ Moved(cmd[c], cmd'[c])
        /\ \A b \in Clients \ {c} : cmd'[b] = cmd[b]
        /\ cmd'[c].from = edit
        /\ cmd'[c].kind # "none" => SameNotes(cmd[c], cmd'[c])
    BY <1>1, <1>2, FromMoves
  <1>4. cmd[c].kind \in RunKinds
    BY <1>2, KindOfStep DEF CmdPlotted
  <1>5. QED
    BY <1>2, <1>3, <1>4 DEF Steady, Asks

\* rsync has copied a version.
LEMMA CopiedSteady ==
    ASSUME CmdPlotted, TypeOK, NEW c \in Clients, Copied(c)
    PROVE  /\ Steady(c) /\ Head(cmd[c].todo) = "copied" /\ cmd[c].kind \in RunKinds
           /\ cmd[c].kind \in {"deploy", "up"} => cmd'[c].from = source'
           /\ cmd[c].kind = "watch" => cmd'[c].from = cmd[c].from
           /\ UNCHANGED <<made, alive>> /\ source' \in Contents
           /\ cmd'[c].kind # "none" => SameNotes(cmd[c], cmd'[c])
  <1> DEFINE v == Synced(cmd[c], source')
  <1>1. v \in Contents /\ source' \in Contents
    BY VersionFacts DEF TypeOK, Copied, Synced, CmdPlotted, Command
  <1>2. /\ cmd' = [cmd EXCEPT ![c] = [Then(@) EXCEPT !.from = v]]
        /\ Head(cmd[c].todo) = "copied" /\ UNCHANGED <<worker, edit, made, alive>>
        /\ jobs' = Soiled(jobs)
    BY DEF Copied, At
  <1> HIDE DEF v
  <1>3. /\ CmdPlotted' /\ Moved(cmd[c], cmd'[c])
        /\ \A b \in Clients \ {c} : cmd'[b] = cmd[b]
        /\ cmd'[c].from = v
        /\ cmd'[c].kind # "none" => SameNotes(cmd[c], cmd'[c])
    BY <1>1, <1>2, FromMoves
  <1>4. cmd[c].kind \in RunKinds
    BY <1>2, KindOfStep DEF CmdPlotted
  <1>5. QED
    BY <1>1, <1>2, <1>3, <1>4 DEF Steady, Asks, v, Synced

\* A run directory is removed.
LEMMA RemoveSteady ==
    ASSUME CmdPlotted, NEW c \in Clients, Remove(c)
    PROVE  /\ Steady(c) /\ Head(cmd[c].todo) = "remove" /\ cmd[c].kind \in RunKinds
           /\ AllDown'
           /\ cmd'[c].kind # "none" => cmd'[c].from = cmd[c].from /\ SameNotes(cmd[c], cmd'[c])
  <1>1. Advance(c)
    BY DEF Remove
  <1>2. AllDown' /\ Head(cmd[c].todo) = "remove" /\ UNCHANGED <<worker, edit>>
        /\ jobs' = Soiled(jobs)
    BY DEF Remove, Forgotten, AllDown, At, Down
  <1>3. cmd[c].kind \in RunKinds
    BY <1>2, KindOfStep DEF CmdPlotted
  <1>4. QED
    BY <1>1, <1>2, <1>3, AdvanceMoves DEF Steady, Asks

(***************************************************************************)
(* The other commands                                                      *)
(***************************************************************************)

CleanedUp(c) ==
    (/\ At(c, "remove") /\ cmd[c].alone /\ cmd[c].kind # "removal"
     /\ cmd[c].stopped \/ (worker = "remote" /\ cmd[c].kind = "cleanup"))
    => AllDown

\* What a command relies on, with what it promises when it removes the run.
Private(c) == Own(c) /\ CleanedUp(c)

\* A step may note that b was disturbed, or that it is told of an edit.
Alike(b) ==
    /\ cmd'[b].kind = cmd[b].kind /\ cmd'[b].todo = cmd[b].todo
    /\ cmd'[b].services = cmd[b].services /\ cmd'[b].from = cmd[b].from
    /\ cmd'[b].stopped = cmd[b].stopped
    /\ cmd'[b].alone => cmd[b].alone
    /\ edit' = edit => SameNotes(cmd[b], cmd'[b])

\* What the claims of an undisturbed command are about stays as it is, but for
\* services that go down, and nothing is made for it.
Kept(b) ==
    /\ UNCHANGED <<source, made>>
    /\ \A s \in Services : alive'[s] = alive[s] \/ alive'[s] = Down
    /\ \A i \in jobs' : b \in i.by /\ i.op \in {"setup", "build"} => i \in jobs

\* A command keeps its claims while nothing happens to the run, or when they
\* are no longer its own to keep.
LEMMA OthersKeepClaims ==
    ASSUME CmdPlotted, CmdPlotted', UNCHANGED worker, NEW b \in Clients,
           Private(b), Alike(b), Undisturbed(b)' => Kept(b),
           UNCHANGED edit \/ (cmd'[b].kind = "watch" => Watched(b)')
    PROVE  Private(b)'
  <1>1. CASE Undisturbed(b)'
    <2>1. Kept(b) /\ Undisturbed(b)
      BY <1>1 DEF Undisturbed, Alike
    <2>2. AllDown => AllDown'
      BY <2>1 DEF AllDown, Kept, Down, None
    <2>6. UnsavedIsDown(b)'
      BY <2>1, <2>2 DEF Private, Own, UnsavedIsDown, At, Alike
    <2>3. ASSUME cmd'[b].kind \in {"deploy", "up"} PROVE Deploys(b)'
      <3>1. Deploys(b)
        BY <2>3 DEF Private, Own, Alike
      <3>2. Deployed(b)
        BY <2>1, <3>1 DEF Deploys, Undisturbed
      <3>3. Deployed(b)'
        <4>1. /\ cmd'[b].todo = cmd[b].todo /\ cmd'[b].from = cmd[b].from
              /\ cmd'[b].services = cmd[b].services /\ cmd'[b].stopped = cmd[b].stopped
              /\ Ahead(cmd'[b]) = Ahead(cmd[b])
              /\ UNCHANGED <<source, made>>
              /\ cmd[b].services \subseteq Services
          BY <2>1 DEF Alike, Ahead, Kept, CmdPlotted, Command
        <4>2. cmd'[b].from \in Versions' /\ ~At(b, "copied")' => source' = cmd'[b].from
          BY <3>2, <4>1 DEF Deployed, At, Versions
        <4>3. /\ Ahead(cmd'[b]) <= 4 => made'.setup = source'
              /\ Ahead(cmd'[b]) <= 3 => made'.build = source'
          BY <3>2, <4>1 DEF Deployed
        <4>4. \A i \in jobs' : b \in i.by /\ i.op \in {"setup", "build"} => i.clean
          BY <2>1, <3>2 DEF Deployed, Kept
        <4>5. ASSUME Ahead(cmd'[b]) \in {1, 2}, cmd'[b].stopped, cmd'[b].from \in Versions
              PROVE  \A s \in cmd'[b].services :
                        alive'[s] # Down => alive'[s] = [from |-> cmd'[b].from, prepared |-> TRUE]
          <5>1. \A s \in cmd[b].services :
                   alive[s] # Down => alive[s] = [from |-> cmd[b].from, prepared |-> TRUE]
            BY <3>2, <4>1, <4>5 DEF Deployed
          <5>2. \A s \in cmd[b].services : alive'[s] = alive[s] \/ alive'[s] = Down
            BY <2>1, <4>1 DEF Kept
          <5>3. QED
            BY <4>1, <5>1, <5>2
        <4>6. QED
          BY <4>2, <4>3, <4>4, <4>5 DEF Deployed, Down, None, Versions
      <3>4. QED
        BY <3>1, <3>3 DEF Deploys, Alike, At, None
    <2>4. ASSUME cmd'[b].kind = "watch" PROVE Watched(b)'
      <3>1. CASE UNCHANGED edit
        <4>1. Watched(b) /\ cmd'[b].kind = cmd[b].kind /\ cmd'[b].todo = cmd[b].todo
              /\ cmd'[b].from = cmd[b].from /\ cmd'[b].heard = cmd[b].heard
              /\ cmd'[b].differs = cmd[b].differs /\ cmd'[b].events = cmd[b].events
              /\ cmd'[b].told = cmd[b].told /\ (cmd'[b].alone => cmd[b].alone)
          BY <2>4, <3>1 DEF Private, Own, Alike, SameNotes, SameTidings
        <4>2. source' = source
          BY <2>1 DEF Kept
        <4>3. QED
          BY <3>1, <4>1, <4>2 DEF Watched, At, CopyOf, Begun
      <3>2. QED
        BY <2>4, <3>1
    <2>5. CleanedUp(b)'
      BY <2>1, <2>2 DEF Private, CleanedUp, Alike, At, Undisturbed
    <2>7. QED
      BY <2>6, <2>3, <2>4, <2>5 DEF Private, Own
  <1>2. CASE ~Undisturbed(b)'
    <2>1. UnsavedIsDown(b)'
      BY <1>2 DEF UnsavedIsDown
    <2>2. ASSUME cmd'[b].kind \in {"deploy", "up"} PROVE Deploys(b)'
      <3>1. Deploys(b)
        BY <2>2 DEF Private, Own, Alike
      <3>2. ~cmd'[b].alone
        BY <1>2, <2>2 DEF Undisturbed, RunKinds
      <3>3. QED
        BY <3>1, <3>2 DEF Deploys, Alike, At
    <2>3. ASSUME cmd'[b].kind = "watch" PROVE Watched(b)'
      <3>1. Watched(b)
        BY <2>3 DEF Private, Own, Alike
      <3>2. ~cmd'[b].alone
        BY <1>2, <2>3 DEF Undisturbed, RunKinds
      <3>3. CASE UNCHANGED edit
        <4>1. cmd'[b].kind = cmd[b].kind /\ cmd'[b].todo = cmd[b].todo
              /\ cmd'[b].from = cmd[b].from /\ cmd'[b].heard = cmd[b].heard
              /\ cmd'[b].differs = cmd[b].differs /\ cmd'[b].events = cmd[b].events
              /\ cmd'[b].told = cmd[b].told
          BY <3>3 DEF Alike, SameNotes, SameTidings
        <4>2. QED
          BY <3>1, <3>2, <3>3, <4>1 DEF Watched, At, Begun
      <3>4. QED
        BY <2>3, <3>3
    <2>4. CleanedUp(b)'
      <3>1. Plotted(cmd'[b])
        BY DEF CmdPlotted, Plotted, OnCourse
      <3>2. At(b, "remove")' => cmd'[b].kind \in RunKinds
        BY <3>1, KindOfStep DEF At
      <3>3. QED
        BY <1>2, <3>2 DEF CleanedUp, Undisturbed
    <2>5. QED
      BY <2>1, <2>2, <2>3, <2>4 DEF Private, Own
  <1>3. QED
    BY <1>1, <1>2

\* Next to an undisturbed command nobody takes a step that changes the run.
LEMMA SteadyKeeps ==
    ASSUME CmdPlotted, AloneIsAlone, NEW c \in Clients, Steady(c), NEW b \in Clients \ {c}
    PROVE  Alike(b) /\ (Undisturbed(b)' => Kept(b))
  <1>1. cmd'[b] = cmd[b]
    BY DEF Steady
  <1>2. ASSUME Undisturbed(b)' PROVE Kept(b)
    <2>1. ~Working(c)
      BY <1>1, <1>2 DEF AloneIsAlone, Undisturbed
    <2>2. cmd[c].kind \notin RunKinds
      BY <2>1 DEF Working, At, Steady
    <2>3. QED
      BY <2>2 DEF Steady, Kept, runVars
  <1>3. QED
    BY <1>1, <1>2 DEF Alike, SameNotes, SameTidings

(***************************************************************************)
(* Jobs, and who waits for them                                            *)
(***************************************************************************)

\* A client that is not at a request waits for no job.
LEMMA NotAsking ==
    ASSUME Awaited, NEW c \in Clients, jobs \subseteq Job,
           Head(cmd[c].todo) \notin Asks
    PROVE  \A j \in jobs : c \notin j.by
  <1>1. SUFFICES ASSUME NEW j \in jobs, c \in j.by PROVE FALSE
    OBVIOUS
  <1>2. At(c, j.op) \/ At(c, "restart")
    BY <1>1 DEF Awaited
  <1>3. j.op \in Asks
    BY DEF Job
  <1>4. QED
    BY <1>2, <1>3 DEF At, Asks

\* Who waits for a job goes on waiting for it.
LEMMA AwaitedStays ==
    ASSUME Awaited, jobs \subseteq Job, jobs' = jobs \/ jobs' = Soiled(jobs),
           \A c \in Clients : Head(cmd[c].todo) \in Asks => Alike(c)
    PROVE  Awaited' /\ jobs' \subseteq Job
  <1>1. \A i \in jobs' : \E j \in jobs :
           /\ i.by = j.by /\ i.op = j.op /\ i.rest = j.rest
           /\ i = j \/ i = [j EXCEPT !.clean = FALSE]
    BY DEF Soiled, Job
  <1>2. jobs' \subseteq Job
    BY <1>1 DEF Job
  <1>3. ASSUME NEW i \in jobs', NEW c \in i.by
        PROVE  /\ i.by = {c}
               /\ \A h \in jobs' : c \in h.by => h = i
               /\ At(c, i.op)' \/ (i.op = "start" /\ At(c, "restart")')
               /\ i.op = "stop" => i.rest = Subject(cmd[c])'
    <2>1. PICK j \in jobs : i.by = j.by /\ i.op = j.op /\ i.rest = j.rest
      BY <1>1
    <2>2. c \in Clients
      BY <2>1 DEF Job
    <2>3. Alike(c)
      BY <2>1, <2>2, NotAsking
    <2>4. j.by = {c} /\ (At(c, j.op) \/ (j.op = "start" /\ At(c, "restart")))
          /\ (j.op = "stop" => j.rest = Subject(cmd[c]))
      BY <2>1 DEF Awaited
    <2>5. \A h \in jobs : c \in h.by => h = j
      BY <2>1 DEF Awaited
    <2>6. \A h \in jobs' : c \in h.by => h = i
      <3>1. CASE jobs' = jobs
        BY <3>1 DEF Awaited
      <3>2. CASE jobs' = Soiled(jobs)
        <4>1. ASSUME NEW h \in jobs', c \in h.by PROVE h = [j EXCEPT !.clean = FALSE]
          <5>1. PICK g \in jobs : h = [g EXCEPT !.clean = FALSE]
            BY <3>2 DEF Soiled
          <5>2. c \in g.by
            BY <4>1, <5>1 DEF Job
          <5>3. QED
            BY <2>5, <5>1, <5>2
        <4>2. QED
          BY <4>1
      <3>3. QED
        BY <3>1, <3>2
    <2>7. Subject(cmd[c])' = Subject(cmd[c])
      BY <2>3 DEF Subject, Alike
    <2>8. QED
      BY <2>1, <2>3, <2>4, <2>6, <2>7 DEF At, Alike
  <1>4. QED
    BY <1>2, <1>3 DEF Awaited

\* A steady step changes nothing in who waits and who is alone.
LEMMA SteadyShares ==
    ASSUME CmdPlotted, Awaited, AloneIsAlone, jobs \subseteq Job, NEW c \in Clients, Steady(c)
    PROVE  Awaited' /\ AloneIsAlone' /\ jobs' \subseteq Job
  <1>1. \A b \in Clients : Head(cmd[b].todo) \in Asks => Alike(b)
    BY DEF Steady, Alike, SameNotes, SameTidings
  <1>2. Awaited' /\ jobs' \subseteq Job
    BY <1>1, AwaitedStays DEF Steady
  <1>3. AloneIsAlone'
    <2>1. SUFFICES ASSUME NEW b \in Clients, Undisturbed(b)'
                   PROVE  /\ \A d \in Clients \ {b} : ~Working(d)'
                          /\ \A j \in jobs' : j.by = {b} \/ (j.by = {} /\ j.op = "stop")
      BY DEF AloneIsAlone
    <2>2. Undisturbed(b)
      BY <2>1 DEF Steady, Moved, Undisturbed, RunKinds
    <2>3. /\ \A d \in Clients \ {b} : ~Working(d)
          /\ \A j \in jobs : j.by = {b} \/ (j.by = {} /\ j.op = "stop")
      BY <2>2 DEF AloneIsAlone
    <2>4. Working(c)' => Working(c)
      BY DEF Steady, Moved, Working, At, RunKinds
    <2>5. \A d \in Clients \ {b} : ~Working(d)'
      BY <2>3, <2>4 DEF Steady, Working, At
    <2>6. \A i \in jobs' : \E j \in jobs : i.by = j.by /\ i.op = j.op
      BY DEF Steady, Soiled, Job
    <2>7. QED
      BY <2>3, <2>5, <2>6
  <1>4. QED
    BY <1>2, <1>3

(***************************************************************************)
(* What a command relies on, after a steady step of its own                *)
(***************************************************************************)

\* How far it is: by one step, or all of --fresh.
LEMMA MovedLength ==
    ASSUME NEW k, Plotted(k), NEW t, Moved(k, t), t.kind # "none"
    PROVE  /\ t.kind = k.kind /\ t.services = k.services /\ t.told = k.told
           /\ t.alone = k.alone /\ t.stopped = k.stopped
           /\ Plotted(t) /\ Len(t.todo) \in Nat /\ Len(k.todo) \in Nat
           /\ k.kind = "deploy" => \/ Len(k.todo) = Len(t.todo) + 1
                                   \/ Len(k.todo) = 13 /\ Len(t.todo) = 9
           /\ k.kind # "deploy" => Len(k.todo) = Len(t.todo) + 1 /\ Head(t.todo) = k.todo[2]
  <1>1. k.todo \in Seq(StepNames) /\ t.todo \in Seq(StepNames)
    BY DEF Moved, Plotted, Command
  <1>2. Len(t.todo) \in Nat /\ Len(k.todo) \in Nat
    BY <1>1
  <1>3. Head(k.todo) = "exists" => k.kind = "deploy"
    BY KindOfStep
  <1>4. QED
    BY <1>2, <1>3 DEF Moved

\* A deploy, from h with n steps left to g with m.
LEMMA DeployStep ==
    ASSUME NEW h, NEW n, AtDeploy(h, n), NEW g, NEW m, AtDeploy(g, m),
           n = m + 1 \/ (n = 13 /\ m = 9)
    PROVE  /\ g = "unsave" => h = "remove"
           /\ g = "remove" => h = "stop" /\ m = 11
           /\ g = "rsync" => h = "prepare"
           /\ h = "rsync" => g = "copied"
           /\ m >= 8 => n >= 9 /\ h \notin {"rsync", "copied", "settle"}
           /\ h = "remove" => n >= 8
           /\ h = "start" => g = "wait" /\ m = 1
           /\ h = "build" => g = "stop" /\ m = 3
           /\ h = "setup" => g = "build" /\ m = 4
           /\ h = "stop" => (g = "start" /\ m = 2) \/ (g = "remove" /\ m = 11)
           /\ h \notin Asks => m \notin 1..4
  <1>1. n \in 1..13 /\ m \in 1..13
    BY DEF AtDeploy
  <1>2. \/ n = 1 \/ n = 2 \/ n = 3 \/ n = 4 \/ n = 5 \/ n = 6 \/ n = 7 \/ n = 8 \/ n = 9
        \/ n = 10 \/ n = 11 \/ n = 12 \/ n = 13
    BY <1>1
  <1>3. \/ n = 2 /\ m = 1 /\ h = "start" /\ g = "wait"
        \/ n = 3 /\ m = 2 /\ h = "stop" /\ g = "start"
        \/ n = 4 /\ m = 3 /\ h = "build" /\ g = "stop"
        \/ n = 5 /\ m = 4 /\ h = "setup" /\ g = "build"
        \/ n = 6 /\ m = 5 /\ h = "save" /\ g = "setup"
        \/ n = 7 /\ m = 6 /\ h = "copied" /\ g = "save"
        \/ n = 8 /\ m = 7 /\ h = "rsync" /\ g = "copied"
        \/ n = 9 /\ m = 8 /\ h = "prepare" /\ g = "rsync"
        \/ n = 10 /\ m = 9 /\ h \in {"unsave", "install"} /\ g = "prepare"
        \/ n = 11 /\ m = 10 /\ h = "remove" /\ g \in {"unsave", "install"}
        \/ n = 12 /\ m = 11 /\ h = "stop" /\ g = "remove"
        \/ n = 13 /\ m = 12 /\ h = "exists" /\ g = "stop"
        \/ n = 13 /\ m = 9 /\ h = "exists" /\ g = "prepare"
    BY <1>1, <1>2 DEF AtDeploy
  <1>4. QED
    BY <1>3 DEF Asks

\* A services up, likewise.
LEMMA UpStep ==
    ASSUME NEW h, NEW n, AtUp(h, n), NEW g, NEW m, AtUp(g, m), n = m + 1
    PROVE  /\ h = "start" => g = "wait" /\ m = 2
           /\ h = "build" => g = "stop" /\ m = 4
           /\ h = "setup" => g = "build" /\ m = 5
           /\ h = "stop" => g = "start" /\ m = 3
           /\ h = "wait" => g = "save" /\ m = 1
           /\ h \notin Asks \cup {"wait"} => m \notin 1..5
           /\ h \notin {"settle", "remove", "unsave", "restart"}
  <1>1. n \in 1..10 /\ m \in 1..10
    BY DEF AtUp
  <1>2. \/ n = 2 /\ m = 1 /\ h = "wait" /\ g = "save"
        \/ n = 3 /\ m = 2 /\ h = "start" /\ g = "wait"
        \/ n = 4 /\ m = 3 /\ h = "stop" /\ g = "start"
        \/ n = 5 /\ m = 4 /\ h = "build" /\ g = "stop"
        \/ n = 6 /\ m = 5 /\ h = "setup" /\ g = "build"
        \/ m \in 6..10 /\ h \in {"prepare", "install", "copied", "rsync"}
    BY <1>1 DEF AtUp
  <1>3. QED
    BY <1>2 DEF Asks

\* A command comes to its removal by a stop, and to unsave by the removal.
LEMMA MovedRemoval ==
    ASSUME NEW k, Plotted(k), NEW t, Moved(k, t)
    PROVE  /\ Head(t.todo) = "unsave" => t.kind # "none" /\ Head(k.todo) = "remove"
           /\ Head(t.todo) = "remove" /\ t.kind # "removal" =>
                 /\ t.kind # "none" /\ Head(k.todo) = "stop"
                 /\ t.kind = "deploy" => Len(t.todo) = 11
                 /\ t.kind = "cleanup" => Len(t.todo) = 2
                 /\ t.kind \in {"deploy", "cleanup"}
  <1>1. Plotted(t)
    BY DEF Moved
  <1>2. CASE t.kind = "none"
    BY <1>1, <1>2, KindOfStep
  <1>3. CASE t.kind # "none"
    <2>1. /\ t.kind = k.kind /\ Len(t.todo) \in Nat /\ Len(k.todo) \in Nat
          /\ k.kind = "deploy" => \/ Len(k.todo) = Len(t.todo) + 1
                                  \/ Len(k.todo) = 13 /\ Len(t.todo) = 9
          /\ k.kind # "deploy" => Len(k.todo) = Len(t.todo) + 1
      BY <1>3, MovedLength
    <2>2. CASE t.kind = "deploy"
      <3>1. InDeploy(k) /\ InDeploy(t)
        BY <1>1, <2>1, <2>2, DeployCourse
      <3>2. /\ Head(t.todo) = "unsave" => Head(k.todo) = "remove"
            /\ Head(t.todo) = "remove" => Head(k.todo) = "stop" /\ Len(t.todo) = 11
        <4>1. Len(k.todo) = Len(t.todo) + 1 \/ (Len(k.todo) = 13 /\ Len(t.todo) = 9)
          BY <2>1, <2>2
        <4>2. AtDeploy(Head(k.todo), Len(k.todo)) /\ AtDeploy(Head(t.todo), Len(t.todo))
          BY <3>1 DEF InDeploy
        <4> DEFINE h == Head(k.todo)
                   g == Head(t.todo)
                   n == Len(k.todo)
                   m == Len(t.todo)
        <4> HIDE DEF h, g, n, m
        <4>3. AtDeploy(h, n) /\ AtDeploy(g, m) /\ (n = m + 1 \/ (n = 13 /\ m = 9))
          BY <4>1, <4>2, Zenon DEF h, g, n, m
        <4>4. (g = "unsave" => h = "remove") /\ (g = "remove" => h = "stop" /\ m = 11)
          BY <4>3, DeployStep
        <4>5. QED
          BY <4>4, Zenon DEF h, g, n, m
      <3>3. QED
        BY <1>3, <2>2, <3>2
    <2>3. CASE t.kind = "cleanup"
      <3>1. /\ Len(t.todo) = 1 <=> Head(t.todo) = "unsave"
            /\ Len(t.todo) = 2 <=> Head(t.todo) = "remove"
        BY <1>1, <2>3, OtherCourses DEF InOther
      <3>2. /\ Len(k.todo) = 2 <=> Head(k.todo) = "remove"
            /\ Len(k.todo) = 3 <=> Head(k.todo) = "stop"
        BY <2>1, <2>3, OtherCourses DEF InOther
      <3>3. Len(k.todo) = Len(t.todo) + 1
        BY <2>1, <2>3
      <3> DEFINE h == Head(k.todo)
                 g == Head(t.todo)
                 n == Len(k.todo)
                 m == Len(t.todo)
      <3> HIDE DEF h, g, n, m
      <3>4. (g = "unsave" => h = "remove") /\ (g = "remove" => h = "stop" /\ m = 2)
        <4>1. /\ m = 1 <=> g = "unsave"
              /\ m = 2 <=> g = "remove"
              /\ n = 2 <=> h = "remove"
              /\ n = 3 <=> h = "stop"
              /\ n = m + 1
          BY <3>1, <3>2, <3>3 DEF h, g, n, m
        <4>2. QED
          BY <4>1
      <3>5. QED
        BY <1>3, <2>3, <3>4, Zenon DEF h, g, n, m
    <2>7. CASE t.kind = "removal"
      <3>1. Len(t.todo) = 1 <=> Head(t.todo) = "unsave"
        BY <1>1, <2>7, OtherCourses DEF InOther
      <3>2. Len(k.todo) = 2 <=> Head(k.todo) = "remove"
        BY <2>1, <2>7, OtherCourses DEF InOther
      <3>3. Len(k.todo) = Len(t.todo) + 1
        BY <2>1, <2>7
      <3>4. Head(t.todo) = "unsave" => Head(k.todo) = "remove"
        <4> DEFINE n == Len(k.todo)
                   m == Len(t.todo)
        <4>1. /\ m = 1 <=> Head(t.todo) = "unsave"
              /\ n = 2 <=> Head(k.todo) = "remove"
              /\ n = m + 1
          BY <3>1, <3>2, <3>3
        <4> HIDE DEF n, m
        <4>2. QED
          BY <4>1
      <3>5. QED
        BY <1>3, <2>7, <3>4, Zenon
    <2>4. CASE t.kind = "forget"
      <3>1. Len(t.todo) = 1 /\ Len(k.todo) = 1
        BY <1>1, <2>1, <2>4, OtherCourses DEF InOther
      <3>2. QED
        BY <2>1, <2>4, <3>1
    <2>5. CASE t.kind \notin {"deploy", "cleanup", "removal", "forget"}
      BY <1>1, <2>5, KindOfStep
    <2>6. QED
      BY <2>2, <2>3, <2>7, <2>4, <2>5
  <1>4. QED
    BY <1>2, <1>3

\* The claims of a command about removals.
LEMMA SteadyRemoval ==
    ASSUME CmdPlotted, NEW c \in Clients, Steady(c), Private(c),
           Head(cmd[c].todo) = "remove" => AllDown'
    PROVE  UnsavedIsDown(c)' /\ CleanedUp(c)'
  <1>1. Plotted(cmd[c]) /\ Moved(cmd[c], cmd'[c]) /\ Head(cmd[c].todo) # "stop"
    BY DEF CmdPlotted, Steady, Asks
  <1>2. ~(At(c, "remove")' /\ cmd'[c].kind # "removal")
    BY <1>1, MovedRemoval DEF At
  <1>3. At(c, "unsave")' => AllDown'
    BY <1>1, MovedRemoval DEF At
  <1>4. QED
    BY <1>2, <1>3 DEF UnsavedIsDown, CleanedUp

\* Where a deploy or services up is, after a step that asks for nothing.
LEMMA MovedAhead ==
    ASSUME NEW k, Plotted(k), NEW t, Moved(k, t), t.kind \in {"deploy", "up"},
           Head(k.todo) \notin Asks
    PROVE  /\ t.kind = k.kind /\ Ahead(t) \in Int /\ Ahead(k) \in Int
           /\ Ahead(t) \notin {1, 2}
           /\ Ahead(t) <= 4 => Ahead(t) = 0 /\ Ahead(k) = 1 /\ Head(k.todo) = "wait"
           /\ Head(t.todo) = "rsync" => k.kind = "deploy" /\ Head(k.todo) = "prepare"
           /\ t.kind = "deploy" /\ Len(t.todo) >= 8 =>
                 Len(k.todo) >= 9 /\ Head(k.todo) \notin {"rsync", "copied", "settle"}
           /\ Head(k.todo) = "rsync" => Head(t.todo) = "copied"
           /\ Head(k.todo) = "remove" => k.kind = "deploy" /\ Len(k.todo) >= 8
  <1>1. /\ t.kind = k.kind /\ Plotted(t) /\ Len(t.todo) \in Nat /\ Len(k.todo) \in Nat
        /\ k.kind = "deploy" => \/ Len(k.todo) = Len(t.todo) + 1
                                \/ Len(k.todo) = 13 /\ Len(t.todo) = 9
        /\ k.kind # "deploy" => Len(k.todo) = Len(t.todo) + 1 /\ Head(t.todo) = k.todo[2]
    BY MovedLength
  <1>2. CASE k.kind = "deploy"
    <2>1. InDeploy(k) /\ InDeploy(t)
      BY <1>1, <1>2, DeployCourse
    <2>2. /\ Head(t.todo) = "rsync" => Head(k.todo) = "prepare"
          /\ Head(k.todo) = "rsync" => Head(t.todo) = "copied"
          /\ Len(t.todo) >= 8 =>
                Len(k.todo) >= 9 /\ Head(k.todo) \notin {"rsync", "copied", "settle"}
          /\ Head(k.todo) = "remove" => Len(k.todo) >= 8
          /\ Len(t.todo) \notin 1..4
      <3>1. Len(k.todo) = Len(t.todo) + 1 \/ (Len(k.todo) = 13 /\ Len(t.todo) = 9)
        BY <1>1, <1>2
      <3>2. AtDeploy(Head(k.todo), Len(k.todo)) /\ AtDeploy(Head(t.todo), Len(t.todo))
        BY <2>1 DEF InDeploy
      <3> DEFINE h == Head(k.todo)
                 g == Head(t.todo)
                 n == Len(k.todo)
                 m == Len(t.todo)
      <3> HIDE DEF h, g, n, m
      <3>3. AtDeploy(h, n) /\ AtDeploy(g, m) /\ (n = m + 1 \/ (n = 13 /\ m = 9))
        BY <3>1, <3>2, Zenon DEF h, g, n, m
      <3>4. /\ g = "rsync" => h = "prepare"
            /\ h = "rsync" => g = "copied"
            /\ m >= 8 => n >= 9 /\ h \notin {"rsync", "copied", "settle"}
            /\ h = "remove" => n >= 8
            /\ h \notin Asks => m \notin 1..4
        BY <3>3, DeployStep
      <3>5. QED
        BY <3>4, Zenon DEF h, g, n, m
    <2>3. Len(t.todo) > 0
      BY <2>1 DEF InDeploy, AtDeploy
    <2>4. Ahead(t) = Len(t.todo) /\ Ahead(k) = Len(k.todo)
      BY <1>1, <1>2 DEF Ahead
    <2>5. Ahead(t) > 4 /\ Ahead(t) \in Int /\ Ahead(k) \in Int
      <3> DEFINE n == Len(k.todo)
                 m == Len(t.todo)
      <3>1. /\ n \in Nat /\ m \in Nat /\ m > 0 /\ m \notin 1..4
            /\ Ahead(t) = m /\ Ahead(k) = n
        BY <1>1, <2>2, <2>3, <2>4
      <3> HIDE DEF n, m
      <3>2. QED
        BY <3>1
    <2>6. QED
      BY <1>1, <1>2, <2>2, <2>5
  <1>3. CASE k.kind = "up"
    <2>1. Head(k.todo) = "rsync" => Head(t.todo) = "copied"
      <3>1. k.todo \in Seq(StepNames) /\ k.todo # <<>>
        BY DEF Plotted, Command
      <3>2. 1 \in DOMAIN k.todo /\ Head(k.todo) = k.todo[1]
        BY <3>1, HeadStep
      <3>3. QED
        BY <1>1, <1>3, <3>2, UpCourse DEF InUp, AtUp
    <2>2. Head(t.todo) # "rsync"
      <3>1. k.todo \in Seq(StepNames) /\ DOMAIN k.todo = 1..Len(k.todo)
            /\ t.todo \in Seq(StepNames) /\ t.todo # <<>>
        BY <1>1 DEF Plotted, Command
      <3>2. Len(t.todo) > 0
        BY <3>1, HeadStep
      <3>3. 2 \in DOMAIN k.todo
        BY <1>1, <1>3, <3>1, <3>2
      <3>4. k.todo[2] # "rsync"
        BY <1>3, <3>3, UpCourse DEF InUp, AtUp
      <3>5. QED
        BY <1>1, <1>3, <3>4
    <2>3. InUp(k) /\ InUp(t)
      BY <1>1, <1>3, UpCourse
    <2>4. /\ Head(k.todo) = "wait" => Len(t.todo) = 1
          /\ Head(k.todo) # "wait" => Len(t.todo) \notin 1..5
          /\ Head(k.todo) \notin {"settle", "remove"}
      <3>1. Len(k.todo) = Len(t.todo) + 1
        BY <1>1, <1>3
      <3>2. AtUp(Head(k.todo), Len(k.todo)) /\ AtUp(Head(t.todo), Len(t.todo))
        BY <2>3 DEF InUp
      <3>3. QED
        BY <3>1, <3>2, UpStep
    <2>5. Len(t.todo) > 0
      BY <2>3 DEF InUp, AtUp
    <2>6. Ahead(t) = Len(t.todo) - 1 /\ Ahead(k) = Len(k.todo) - 1
      BY <1>1, <1>3 DEF Ahead
    <2>7. /\ Ahead(t) \in Int /\ Ahead(k) \in Int
          /\ Head(k.todo) = "wait" => Ahead(t) = 0 /\ Ahead(k) = 1
          /\ Head(k.todo) # "wait" => Ahead(t) > 4
      <3> DEFINE n == Len(k.todo)
                 m == Len(t.todo)
      <3>1. /\ n \in Nat /\ m \in Nat /\ m > 0 /\ n = m + 1
            /\ Ahead(t) = m - 1 /\ Ahead(k) = n - 1
            /\ Head(k.todo) = "wait" => m = 1
            /\ Head(k.todo) # "wait" => m \notin 1..5
        BY <1>1, <1>3, <2>4, <2>5, <2>6
      <3> HIDE DEF n, m
      <3>2. QED
        BY <3>1
    <2>8. QED
      BY <1>1, <1>3, <2>1, <2>2, <2>4, <2>7
  <1>4. QED
    BY <1>1, <1>2, <1>3

\* The claims of a deploy or services up after a step that asks for nothing.
LEMMA MovedDeploys ==
    ASSUME CmdPlotted, NEW c \in Clients, Private(c),
           Moved(cmd[c], cmd'[c]), Head(cmd[c].todo) \notin Asks, \A j \in jobs' : c \notin j.by,
           cmd'[c].kind \in {"deploy", "up"},
           Head(cmd[c].todo) \notin {"rsync", "copied"} =>
              /\ cmd'[c].from = cmd[c].from
              /\ Head(cmd[c].todo) # "remove" => UNCHANGED <<source, made>>,
           Head(cmd[c].todo) = "copied" => cmd'[c].from = source'
    PROVE  Deploys(c)'
  <1> DEFINE k == cmd[c]
             t == cmd'[c]
  <1>1. Plotted(k) /\ Moved(k, t) /\ Head(k.todo) \notin Asks
    BY DEF CmdPlotted
  <1>2. /\ t.kind = k.kind /\ Ahead(t) \in Int /\ Ahead(k) \in Int
        /\ Ahead(t) \notin {1, 2}
        /\ Ahead(t) <= 4 => Ahead(t) = 0 /\ Ahead(k) = 1 /\ Head(k.todo) = "wait"
        /\ Head(t.todo) = "rsync" => k.kind = "deploy" /\ Head(k.todo) = "prepare"
        /\ t.kind = "deploy" /\ Len(t.todo) >= 8 =>
              Len(k.todo) >= 9 /\ Head(k.todo) \notin {"rsync", "copied", "settle"}
        /\ Head(k.todo) = "rsync" => Head(t.todo) = "copied"
        /\ Head(k.todo) = "remove" => k.kind = "deploy" /\ Len(k.todo) >= 8
    BY <1>1, MovedAhead
  <1>3. /\ At(c, "rsync") => k.from = None
        /\ k.kind = "deploy" /\ Len(k.todo) >= 8 => k.from = None
        /\ k.alone => Deployed(c)
    BY <1>2 DEF Private, Own, Deploys
  <1>4. Len(k.todo) \in Nat /\ Len(t.todo) \in Nat
    BY <1>1, MovedLength
  <1>5. Head(k.todo) = "prepare" /\ k.kind = "deploy" => Len(k.todo) >= 8
    <2>1. k.kind = "deploy" => InDeploy(k)
      BY <1>1, DeployCourse
    <2> DEFINE n == Len(k.todo)
    <2>2. Head(k.todo) = "prepare" /\ k.kind = "deploy" => n = 9
      BY <2>1 DEF InDeploy, AtDeploy
    <2> HIDE DEF n
    <2>3. Head(k.todo) = "prepare" /\ k.kind = "deploy" => n >= 8
      BY <2>2
    <2>4. QED
      BY <2>3, Zenon DEF n
  <1>6. t.alone = k.alone
    BY <1>1, MovedLength
  <1>7. \A j \in jobs' : c \notin j.by
    OBVIOUS
  <1> HIDE DEF k, t
  <1>8. (Head(t.todo) = "rsync" => t.from = None)
        /\ (t.kind = "deploy" /\ Len(t.todo) >= 8 => t.from = None)
    BY <1>2, <1>3, <1>4, <1>5 DEF k, t
  <1>9. ASSUME t.alone
        PROVE  /\ t.from \in Versions /\ Head(t.todo) # "copied" => source' = t.from
               /\ Ahead(t) <= 4 => made'.setup = source'
               /\ Ahead(t) <= 3 => made'.build = source'
    <2>1. Deployed(c)
      BY <1>3, <1>6, <1>9
    <2>2. ASSUME t.from \in Versions, Head(t.todo) # "copied" PROVE source' = t.from
      <3>1. CASE Head(k.todo) = "copied"
        BY <3>1 DEF k, t
      <3>2. Head(k.todo) # "rsync"
        BY <1>2, <2>2
      <3>3. CASE Head(k.todo) \notin {"copied", "rsync"}
        <4>1. t.from = k.from /\ Head(k.todo) # "remove"
          BY <1>2, <1>3, <2>2, <3>3, VersionFacts DEF k, t
        <4>2. source' = source
          BY <3>3, <4>1 DEF k
        <4>3. source = k.from
          BY <2>1, <2>2, <3>3, <4>1 DEF Deployed, At, k
        <4>4. QED
          BY <4>1, <4>2, <4>3
      <3>4. QED
        BY <3>1, <3>2, <3>3
    <2>3. ASSUME Ahead(t) <= 4 PROVE made'.setup = source' /\ made'.build = source'
      <3>1. Ahead(k) = 1 /\ Head(k.todo) = "wait"
        BY <1>2, <2>3
      <3>2. made.setup = source /\ made.build = source
        BY <2>1, <3>1 DEF Deployed, k
      <3>3. QED
        BY <3>1, <3>2 DEF k
    <2>4. QED
      BY <1>2, <2>2, <2>3
  <1>10. QED
    BY <1>2, <1>7, <1>8, <1>9 DEF Deploys, Deployed, At, t, Ahead

\* Where a watch is after a step that asks for nothing.
LEMMA MovedWatch ==
    ASSUME NEW k, Plotted(k), NEW t, Moved(k, t), t.kind = "watch"
    PROVE  /\ k.kind = "watch" /\ t.told = k.told /\ t.alone = k.alone
           /\ Head(t.todo) # "open"
           /\ Head(t.todo) = "copied" => Head(k.todo) = "rsync"
           /\ Head(k.todo) = "rsync" => Head(t.todo) = "copied"
           /\ Head(k.todo) = "prepare" => Head(t.todo) = "rsync"
           /\ Head(k.todo) = "settle" => Head(t.todo) = "prepare"
           /\ Head(k.todo) = "open" => Head(t.todo) = "listen"
           /\ Head(k.todo) # "remove"
  <1>1. /\ t.kind = k.kind /\ t.told = k.told /\ t.alone = k.alone
        /\ Plotted(t) /\ Len(t.todo) \in Nat /\ Len(k.todo) \in Nat
        /\ Len(k.todo) = Len(t.todo) + 1 /\ Head(t.todo) = k.todo[2]
    BY MovedLength
  <1>2. /\ k.todo \in Seq(StepNames) /\ DOMAIN k.todo = 1..Len(k.todo) /\ k.todo # <<>>
        /\ t.todo \in Seq(StepNames) /\ t.todo # <<>>
    BY <1>1 DEF Plotted, Command
  <1>3. Watching(k.todo) /\ Head(k.todo) \in WatchSteps
    BY <1>1, OtherCourses DEF InOther
  <1>4. Head(k.todo) = k.todo[1] /\ Len(t.todo) > 0
    BY <1>2, HeadStep
  <1> DEFINE n == Len(k.todo)
             m == Len(t.todo)
  <1>5. n \in Nat /\ m \in Nat /\ m > 0 /\ n = m + 1
    BY <1>1, <1>4
  <1>6. DOMAIN k.todo = 1..n
    BY <1>2
  <1> HIDE DEF n, m
  <1>7. 1 \in DOMAIN k.todo /\ 2 \in DOMAIN k.todo
    BY <1>5, <1>6
  <1>8. /\ k.todo[2] # "open"
        /\ k.todo[2] = "copied" => k.todo[1] = "rsync"
        /\ k.todo[1] = "rsync" => k.todo[2] = "copied"
        /\ k.todo[1] = "prepare" => k.todo[2] = "rsync"
        /\ k.todo[1] = "settle" => k.todo[2] = "prepare"
        /\ k.todo[1] = "open" => k.todo[2] = "listen"
    BY <1>3, <1>7 DEF Watching
  <1>9. Head(k.todo) # "remove"
    BY <1>3 DEF WatchSteps
  <1>10. QED
    BY <1>1, <1>4, <1>8, <1>9

\* A steady step by what it does to the versions at hand.
Stepping(c) ==
    LET h == Head(cmd[c].todo)
    IN  /\ Steady(c)
        /\ h = "remove" => AllDown'
        /\ cmd'[c].kind # "none" =>
              /\ SameTidings(cmd[c], cmd'[c])
              /\ h # "settle" => SameNotes(cmd[c], cmd'[c])
        /\ cmd'[c].kind # "none" /\ h \notin {"rsync", "copied"} => cmd'[c].from = cmd[c].from
        /\ h \notin {"rsync", "copied", "remove"} => UNCHANGED <<source, made, alive>>
        /\ h = "rsync" => cmd'[c].from = edit
        /\ h = "copied" /\ cmd[c].kind \in {"deploy", "up"} => cmd'[c].from = source'
        /\ h = "copied" /\ cmd[c].kind = "watch" => cmd'[c].from = cmd[c].from
        /\ h = "copied" /\ Undisturbed(c) =>
              source' = IF cmd[c].from = edit THEN edit ELSE Mixed

\* The claims of a watch k at step h, by the versions that there are: what
\* Watched says of a state.
CopyIn(from, now, held) == held = from \/ (held = Mixed /\ from < now)
Keeping(k, h, now, held) ==
    /\ k.heard \in (0..now) \cup {None} /\ k.from \in (0..now) \cup {None}
    /\ h = "open" => k.from = None /\ k.heard = None
    /\ (h \notin Begun /\ k.heard # None /\ ~(k.differs /\ (k.events \/ k.told)))
       => k.from # None /\ k.heard <= k.from
    /\ h = "copied" => k.from # None
    /\ (k.alone /\ k.from # None /\ h \notin Begun \cup {"open", "copied"})
       => CopyIn(k.from, now, held)

\* The claims of a watch after a steady step.
LEMMA SteadyWatched ==
    ASSUME CmdPlotted, edit \in Versions, NEW c \in Clients, Stepping(c), Private(c),
           cmd'[c].kind = "watch"
    PROVE  Watched(c)'
  <1> DEFINE k == cmd[c]
             t == cmd'[c]
             h == Head(cmd[c].todo)
             g == Head(cmd'[c].todo)
  <1>1. /\ k.kind = "watch" /\ t.alone = k.alone
        /\ g # "open"
        /\ g = "copied" => h = "rsync"
        /\ h = "rsync" => g = "copied"
        /\ h = "prepare" => g = "rsync"
        /\ h = "settle" => g = "prepare"
        /\ h = "open" => g = "listen"
        /\ h # "remove"
    <2>1. Plotted(k) /\ Moved(k, t)
      BY DEF CmdPlotted, Stepping, Steady
    <2>2. QED
      BY <2>1, MovedWatch
  <1>2. Keeping(k, h, edit, source)
    BY <1>1 DEF Private, Own, Watched, At, Keeping, CopyOf, CopyIn
  <1>3. /\ edit' = edit
        /\ SameTidings(k, t) /\ (h # "settle" => SameNotes(k, t))
        /\ h # "rsync" => t.from = k.from
        /\ h \notin {"rsync", "copied"} => source' = source
        /\ h = "rsync" => t.from = edit
        /\ h = "copied" /\ k.alone => source' = IF k.from = edit THEN edit ELSE Mixed
    BY <1>1 DEF Stepping, Steady, Undisturbed, RunKinds
  <1>4. Keeping(t, g, edit', source') => Watched(c)'
    BY DEF Watched, At, Keeping, CopyOf, CopyIn, None, Mixed
  <1>5. edit \in Nat /\ edit # None /\ edit \in 0..edit /\ None \notin Versions
    BY VersionFacts DEF Versions
  <1> HIDE DEF k, t, h, g
  <1>6. Keeping(t, g, edit, source')
    <2>1. t.heard = k.heard /\ t.from \in (0..edit) \cup {None}
          /\ k.heard \in (0..edit) \cup {None}
      BY <1>2, <1>3, <1>5 DEF Keeping, SameTidings
    <2>2. ASSUME g \notin Begun, t.heard # None, ~(t.differs /\ (t.events \/ t.told))
          PROVE  t.from # None /\ t.heard <= t.from
      <3>1. CASE h = "rsync"
        BY <1>3, <1>5, <2>1, <2>2, <3>1
      <3>2. CASE h # "rsync"
        <4>1. h \notin Begun
          BY <1>1, <2>2, <3>2 DEF Begun
        <4>2. SameNotes(k, t) /\ t.from = k.from
          BY <1>3, <3>2, <4>1 DEF Begun
        <4>3. QED
          BY <1>2, <2>2, <4>1, <4>2 DEF Keeping, SameNotes, SameTidings
      <3>3. QED
        BY <3>1, <3>2
    <2>3. g = "copied" => t.from # None
      BY <1>1, <1>3, <1>5
    <2>4. ASSUME t.alone, t.from # None, g \notin Begun \cup {"open", "copied"}
          PROVE  CopyIn(t.from, edit, source')
      <3>1. h \notin Begun
        BY <1>1, <2>4 DEF Begun
      <3>2. h # "open"
        BY <1>2, <1>3, <2>4 DEF Keeping
      <3>3. CASE h = "copied"
        <4>1. k.from \in 0..edit /\ t.from = k.from
          BY <1>2, <1>3, <2>4, <3>3 DEF Keeping
        <4>2. source' = IF k.from = edit THEN edit ELSE Mixed
          BY <1>1, <1>3, <2>4, <3>3
        <4>3. QED
          BY <1>5, <4>1, <4>2 DEF CopyIn
      <3>4. CASE h # "copied"
        <4>1. source' = source /\ t.from = k.from
          BY <1>3, <3>1, <3>4 DEF Begun
        <4>2. QED
          BY <1>1, <1>2, <2>4, <3>1, <3>2, <3>4, <4>1 DEF Keeping
      <3>5. QED
        BY <3>3, <3>4
    <2>5. QED
      BY <1>1, <2>1, <2>2, <2>3, <2>4 DEF Keeping
  <1>7. QED
    BY <1>3, <1>4, <1>6

\* Every command keeps its claims in a steady step.
LEMMA SteppingPrivate ==
    ASSUME CmdPlotted, edit \in Versions, Awaited, AloneIsAlone, jobs \subseteq Job,
           NEW c \in Clients, Stepping(c), \A b \in Clients : Private(b)
    PROVE  /\ CmdPlotted' /\ Awaited' /\ AloneIsAlone' /\ jobs' \subseteq Job
           /\ \A b \in Clients : Private(b)'
  <1>1. Steady(c)
    BY DEF Stepping
  <1>2. CmdPlotted' /\ Awaited' /\ AloneIsAlone' /\ jobs' \subseteq Job
    BY <1>1, SteadyShares DEF Steady
  <1>3. ASSUME NEW b \in Clients \ {c} PROVE Private(b)'
    <2>1. Alike(b) /\ (Undisturbed(b)' => Kept(b))
      BY <1>1, SteadyKeeps
    <2>2. QED
      BY <1>1, <1>2, <2>1, OthersKeepClaims DEF Steady
  <1>4. Private(c)'
    <2>1. UnsavedIsDown(c)' /\ CleanedUp(c)'
      BY <1>1, SteadyRemoval DEF Stepping
    <2>2. cmd'[c].kind = "watch" => Watched(c)'
      BY SteadyWatched
    <2>3. cmd'[c].kind \in {"deploy", "up"} => Deploys(c)'
      <3>1. SUFFICES ASSUME cmd'[c].kind \in {"deploy", "up"} PROVE Deploys(c)'
        OBVIOUS
      <3>2. cmd[c].kind \in {"deploy", "up"}
        BY <3>1 DEF Stepping, Steady, Moved
      <3>3. /\ Head(cmd[c].todo) \notin {"rsync", "copied"} =>
                  /\ cmd'[c].from = cmd[c].from
                  /\ Head(cmd[c].todo) # "remove" => UNCHANGED <<source, made>>
            /\ Head(cmd[c].todo) = "copied" => cmd'[c].from = source'
        BY <3>1, <3>2 DEF Stepping
      <3>4. Moved(cmd[c], cmd'[c]) /\ Head(cmd[c].todo) \notin Asks
        BY <1>1 DEF Steady
      <3>5. \A j \in jobs' : c \notin j.by
        <4>1. \A j \in jobs : c \notin j.by
          BY <3>4, NotAsking
        <4>2. \A i \in jobs' : \E j \in jobs : i.by = j.by
          BY <1>1 DEF Steady, Soiled, Job
        <4>3. QED
          BY <4>1, <4>2
      <3>6. QED
        BY <3>1, <3>3, <3>4, <3>5, MovedDeploys
    <2>4. QED
      BY <2>1, <2>2, <2>3 DEF Private, Own
  <1>5. QED
    BY <1>2, <1>3, <1>4

\* The steady steps of a client.
LEMMA SteadySteps ==
    ASSUME TypeOK, CmdPlotted, AloneIsAlone, NEW c \in Clients,
           \/ Load(c) \/ Save(c) \/ Unsave(c) \/ Prepare(c) \/ Rsync(c) \/ Copied(c)
           \/ Exists(c) \/ Remove(c) \/ Wait(c) \/ Report(c) \/ WatchOpen(c) \/ Settle(c)
    PROVE  Stepping(c)
  <1>1. Quiet(c) => Stepping(c)
    BY DEF Quiet, Stepping, SameNotes
  <1>2. CASE Load(c)
    BY <1>1, <1>2, LoadQuiet DEF TypeOK
  <1>3. CASE Save(c) \/ Unsave(c) \/ Prepare(c) \/ Wait(c) \/ Report(c) \/ WatchOpen(c)
    BY <1>1, <1>3, AdvanceQuiet
  <1>4. CASE Exists(c)
    BY <1>1, <1>4, ExistsQuiet
  <1>5. CASE Settle(c)
    BY <1>5, SettleSteady DEF Stepping, runVars
  <1>6. CASE Rsync(c)
    BY <1>6, RsyncSteady DEF Stepping, SameNotes
  <1>7. CASE Remove(c)
    BY <1>7, RemoveSteady DEF Stepping, SameNotes
  <1>8. CASE Copied(c)
    <2>1. ASSUME Undisturbed(c) PROVE source' = IF cmd[c].from = edit THEN edit ELSE Mixed
      <3>1. \A b \in Clients \ {c} : ~Working(b)
        BY <2>1 DEF AloneIsAlone
      <3>2. ASSUME NEW b \in Clients \ {c}, At(b, "copied") PROVE FALSE
        <4>1. Plotted(cmd[b]) /\ Head(cmd[b].todo) = "copied"
          BY <3>2 DEF CmdPlotted, At
        <4>2. cmd[b].kind \in RunKinds
          BY <4>1, KindOfStep
        <4>3. QED
          BY <3>1, <4>1, <4>2 DEF Working, At
      <3>3. QED
        BY <1>8, <3>2 DEF Copied
    <2>2. QED
      BY <1>8, <2>1, CopiedSteady DEF Stepping, SameNotes
  <1>9. QED
    BY <1>2, <1>3, <1>4, <1>5, <1>6, <1>7, <1>8

(***************************************************************************)
(* The registry                                                            *)
(***************************************************************************)

\* A deploy has its save ahead of its start.
LEMMA DeployGuarded ==
    ASSUME NEW k, Plotted(k), k.kind = "deploy", Len(k.todo) > 6
    PROVE  Guarded(k.todo)
  <1>1. /\ k.todo \in Seq(StepNames) /\ Countdown(k.todo, Deploying)
        /\ DOMAIN k.todo = 1..Len(k.todo) /\ Len(k.todo) \in Nat
    BY DEF Plotted, Command, OnCourse
  <1> DEFINE n == Len(k.todo)
  <1>2. n \in Nat /\ n > 6 /\ n <= 13 /\ DOMAIN k.todo = 1..n
        /\ \A i \in 1..n : k.todo[i] \in Deploying[n - i + 1]
    BY <1>1, DeployingIs DEF Countdown
  <1> HIDE DEF n
  <1>3. k.todo[n - 5] = "save" /\ n - 5 \in 1..n
    <2>1. n - 5 \in 1..n /\ n - (n - 5) + 1 = 6
      BY <1>2
    <2>2. k.todo[n - 5] \in Deploying[6]
      BY <1>2, <2>1
    <2>3. QED
      BY <2>1, <2>2, DeployingIs
  <1>4. ASSUME NEW i \in 1..n, k.todo[i] \in Starts PROVE n - 5 \in 1..i
    <2>1. n - i + 1 \in 1..13
      BY <1>2
    <2>2. k.todo[i] \in Deploying[n - i + 1]
      BY <1>2
    <2>3. n - i + 1 = 2
      <3> DEFINE m == n - i + 1
      <3>1. m \in 1..13 /\ k.todo[i] \in Deploying[m]
        BY <2>1, <2>2
      <3> HIDE DEF m
      <3>2. \/ m = 1 \/ m = 2 \/ m = 3 \/ m = 4 \/ m = 5 \/ m = 6 \/ m = 7 \/ m = 8 \/ m = 9
            \/ m = 10 \/ m = 11 \/ m = 12 \/ m = 13
        BY <3>1
      <3>3. m = 2
        BY <1>4, <3>1, <3>2, DeployingIs DEF Starts
      <3>4. QED
        BY <3>3 DEF m
    <2>4. QED
      BY <1>2, <2>3
  <1>5. QED
    BY <1>2, <1>3, <1>4 DEF Guarded

\* Nothing that waits, and nothing idle or about the registry, starts services.
LEMMA RestGuarded ==
    ASSUME NEW k, Plotted(k), k.kind \notin RunKinds \/ Head(k.todo) = "listen"
    PROVE  Guarded(k.todo)
  <1>1. OnCourse(k) /\ k.todo \in Seq(StepNames) /\ k.todo # <<>>
        /\ k.kind \in RunKinds \cup {"none", "forget", "other"}
    BY DEF Plotted, Command
  <1>2. CASE k.kind \in {"none", "forget"}
    BY <1>1, <1>2 DEF OnCourse, Guarded, Starts
  <1>3. CASE k.kind = "other"
    <2> DEFINE steps == <<{"save"}, {"load"}>>
    <2>1. Countdown(k.todo, steps)
      BY <1>1, <1>3 DEF OnCourse
    <2>2. Len(steps) = 2 /\ steps[1] = {"save"} /\ steps[2] = {"load"}
      OBVIOUS
    <2> HIDE DEF steps
    <2>3. ASSUME NEW i \in DOMAIN k.todo PROVE k.todo[i] \in {"save", "load"}
      <3> DEFINE n == Len(k.todo)
                 m == n - i + 1
      <3>1. n \in Nat /\ n <= 2 /\ i \in 1..n /\ k.todo[i] \in steps[m]
        <4>1. DOMAIN k.todo = 1..n /\ n \in Nat
          BY <1>1
        <4>2. n <= Len(steps) /\ k.todo[i] \in steps[m]
          BY <2>1 DEF Countdown
        <4>3. QED
          BY <2>2, <4>1, <4>2
      <3>2. m \in {1, 2}
        BY <3>1
      <3> HIDE DEF m
      <3>3. QED
        BY <2>2, <3>1, <3>2
    <2>4. QED
      BY <2>3 DEF Guarded, Starts
  <1>4. CASE k.kind \in RunKinds
    <2>1. Head(k.todo) = "listen" /\ k.kind = "watch"
      BY <1>4, KindOfStep
    <2>2. Watching(k.todo) /\ 1 \in DOMAIN k.todo /\ k.todo[1] = "listen"
      BY <1>1, <2>1, HeadStep DEF OnCourse
    <2>3. \A i \in DOMAIN k.todo : i > 1 => k.todo[i] = "end"
      BY <2>2 DEF Watching
    <2>4. \A i \in DOMAIN k.todo : i \in Nat /\ i >= 1
      BY <1>1
    <2>5. ASSUME NEW i \in DOMAIN k.todo PROVE k.todo[i] \in {"listen", "end"}
      <3>1. CASE i = 1
        BY <2>2, <3>1
      <3>2. CASE i > 1
        BY <2>3, <3>2
      <3>3. QED
        BY <2>4, <3>1, <3>2
    <2>6. QED
      BY <2>5 DEF Guarded, Starts
  <1>5. QED
    BY <1>1, <1>2, <1>3, <1>4

\* A step that leaves the registry as it is, asks for no start and has no
\* command forget its save.
LEMMA ListedStays ==
    ASSUME StartsAreListed, UNCHANGED <<worker, localVars>>,
           (worker # "mirror" /\ ~unlisted /\ ~listed) =>
              /\ \A i \in jobs' : i.op \in Starts => \E j \in jobs : j.op \in Starts
              /\ \A b \in Clients : Guarded(cmd[b].todo) => Guarded(cmd'[b].todo)
    PROVE  StartsAreListed'
  <1>1. SUFFICES ASSUME worker # "mirror", ~unlisted, ~listed
                 PROVE  /\ \A i \in jobs' : i.op \notin Starts
                        /\ \A b \in Clients : Guarded(cmd'[b].todo)
    BY DEF StartsAreListed, Guarded, localVars
  <1>2. /\ \A j \in jobs : j.op \notin Starts
        /\ \A b \in Clients : Guarded(cmd[b].todo)
    BY <1>1 DEF StartsAreListed, Guarded
  <1>3. QED
    BY <1>1, <1>2

\* A step in which no service comes up.
LEMMA DownStays ==
    ASSUME RunningIsListed, UNCHANGED <<worker, localVars>>,
           \A s \in Services : alive'[s] # Down => alive[s] # Down
    PROVE  RunningIsListed'
  BY DEF RunningIsListed, localVars, Down, None

\* In a steady step no job is one that starts services and was not before.
LEMMA SteadyJobs ==
    ASSUME NEW c \in Clients, Steady(c), jobs \subseteq Job
    PROVE  \A i \in jobs' : \E j \in jobs : i.op = j.op
  BY DEF Steady, Soiled, Job

\* The registry is right after a save.
LEMMA SaveLists ==
    ASSUME NEW c \in Clients, Save(c), listed \in BOOLEAN, unlisted \in BOOLEAN
    PROVE  StartsAreListed' /\ RunningIsListed' /\ listed' \in BOOLEAN /\ unlisted' \in BOOLEAN
  <1>1. listed' \in BOOLEAN
    BY DEF Save, Written, Upserted
  <1>2. unlisted' \/ listed'
    BY <1>1 DEF Save
  <1>3. unlisted' \in BOOLEAN
    BY <1>1 DEF Save
  <1>4. QED
    BY <1>1, <1>2, <1>3 DEF StartsAreListed, RunningIsListed

\* The registry is right after a removal from it.
LEMMA UnsaveLists ==
    ASSUME NEW c \in Clients, Unsave(c), listed \in BOOLEAN, unlisted \in BOOLEAN,
           CmdPlotted, Awaited, AloneIsAlone, jobs \subseteq Job, UnsavedIsDown(c),
           StartsAreListed, RunningIsListed
    PROVE  StartsAreListed' /\ RunningIsListed' /\ listed' \in BOOLEAN /\ unlisted' \in BOOLEAN
  <1>1. listed' \in BOOLEAN /\ unlisted' \in BOOLEAN
    BY DEF Unsave, Written
  <1>2. SUFFICES ASSUME ~unlisted' PROVE StartsAreListed' /\ RunningIsListed'
    BY <1>1 DEF StartsAreListed, RunningIsListed
  <1>3. /\ ~unlisted /\ cmd[c].kind # "forget" /\ cmd[c].alone
        /\ Head(cmd[c].todo) = "unsave" /\ UNCHANGED <<worker, alive, jobs>> /\ Advance(c)
    BY <1>2 DEF Unsave, At, runVars
  <1>4. /\ CmdPlotted' /\ Plotted(cmd[c]) /\ cmd'[c] = Then(cmd[c])
        /\ \A b \in Clients \ {c} : cmd'[b] = cmd[b]
    BY <1>3, AdvanceMoves DEF CmdPlotted
  <1>5. Undisturbed(c) /\ cmd[c].kind \in {"deploy", "cleanup", "removal"}
    BY <1>3, <1>4, KindOfStep DEF Undisturbed, RunKinds
  <1>6. AllDown
    BY <1>3, <1>5 DEF UnsavedIsDown, At
  <1>7. RunningIsListed'
    BY <1>3, <1>6 DEF RunningIsListed, AllDown, Down, None
  <1>8. \A j \in jobs : j.op \notin Starts
    <2>1. \A j \in jobs : c \notin j.by
      BY <1>3, NotAsking DEF Asks
    <2>2. QED
      BY <1>5, <2>1 DEF AloneIsAlone, Starts
  <1>9. \A b \in Clients \ {c} : Guarded(cmd[b].todo)
    <2>1. TAKE b \in Clients \ {c}
    <2>2. ~Working(b) /\ Plotted(cmd[b])
      BY <1>5 DEF AloneIsAlone, CmdPlotted
    <2>3. QED
      BY <2>2, RestGuarded DEF Working, At
  <1>10. Guarded(cmd'[c].todo)
    <2>1. CASE Then(cmd[c]) = Idle
      BY <1>4, <2>1, IdleFields, IdleGuarded
    <2>2. CASE Then(cmd[c]) # Idle
      <3>1. Onward(cmd[c], Then(cmd[c])) /\ Len(cmd[c].todo) # 1 /\ Plotted(Then(cmd[c]))
        BY <1>4, <2>2, ThenFields
      <3>2. cmd[c].kind = "deploy" /\ Len(cmd[c].todo) = 10
        <4>1. cmd[c].kind \notin {"cleanup", "removal"}
          BY <1>3, <1>4, <3>1, OtherCourses DEF InOther
        <4>2. cmd[c].kind = "deploy"
          BY <1>5, <4>1
        <4>3. QED
          BY <1>3, <1>4, <4>2, DeployCourse DEF InDeploy, AtDeploy
      <3>3. Len(cmd'[c].todo) > 6 /\ cmd'[c].kind = "deploy"
        <4> DEFINE m == Len(cmd'[c].todo)
        <4>1. m = 10 - 1 /\ cmd'[c].kind = "deploy"
          BY <1>4, <3>1, <3>2 DEF Onward, SameBut
        <4> HIDE DEF m
        <4>2. m > 6 /\ cmd'[c].kind = "deploy"
          BY <4>1
        <4>3. QED
          BY <4>2, Zenon DEF m
      <3>4. QED
        BY <1>4, <3>1, <3>3, DeployGuarded
    <2>3. QED
      BY <2>1, <2>2
  <1>11. StartsAreListed'
    BY <1>3, <1>4, <1>8, <1>9, <1>10 DEF StartsAreListed, Guarded
  <1>12. QED
    BY <1>7, <1>11

\* The registry in the steady steps.
LEMMA SteadyListed ==
    ASSUME TypeOK, CmdPlotted, Awaited, AloneIsAlone, StartsAreListed, RunningIsListed,
           NEW c \in Clients, UnsavedIsDown(c), Stepping(c),
           \/ Load(c) \/ Save(c) \/ Unsave(c) \/ Prepare(c) \/ Rsync(c) \/ Copied(c)
           \/ Exists(c) \/ Remove(c) \/ Wait(c) \/ Report(c) \/ WatchOpen(c) \/ Settle(c)
    PROVE  StartsAreListed' /\ RunningIsListed' /\ listed' \in BOOLEAN /\ unlisted' \in BOOLEAN
  <1>1. listed \in BOOLEAN /\ unlisted \in BOOLEAN /\ jobs \subseteq Job
    BY DEF TypeOK
  <1>2. CASE Save(c)
    BY <1>1, <1>2, SaveLists
  <1>3. CASE Unsave(c)
    BY <1>1, <1>3, UnsaveLists
  <1>4. CASE ~Save(c) /\ ~Unsave(c)
    <2>1. UNCHANGED localVars /\ Head(cmd[c].todo) # "save"
      BY <1>4 DEF Load, Prepare, Rsync, Copied, Exists, Remove, Wait, Report, WatchOpen,
                  Settle, At
    <2>2. UNCHANGED worker /\ (alive' = alive \/ AllDown') /\ Steady(c)
      BY DEF Stepping, Steady
    <2>3. \A i \in jobs' : \E j \in jobs : i.op = j.op
      BY <1>1, <2>2, SteadyJobs
    <2>4. \A b \in Clients : Guarded(cmd[b].todo) => Guarded(cmd'[b].todo)
      BY <2>1, <2>2 DEF Steady, Moved
    <2>5. StartsAreListed'
      BY <2>1, <2>2, <2>3, <2>4, ListedStays
    <2>6. RunningIsListed'
      BY <2>1, <2>2, DownStays DEF AllDown, Down, None
    <2>7. QED
      BY <1>1, <2>1, <2>5, <2>6 DEF localVars
  <1>5. QED
    BY <1>2, <1>3, <1>4

(***************************************************************************)
(* Beginnings                                                              *)
(***************************************************************************)

\* A command that is told whether it was disturbed.
WithAlone(k, v) == [k EXCEPT !.alone = v]

\* It is otherwise the same.
LEMMA AloneSet ==
    ASSUME NEW k, Plotted(k), NEW v \in BOOLEAN, NEW u, u = WithAlone(k, v)
    PROVE  /\ Plotted(u) /\ u.alone = v
           /\ u.kind = k.kind /\ u.todo = k.todo /\ u.services = k.services /\ u.from = k.from
           /\ SameNotes(k, u) /\ u.told = k.told /\ u.copy = k.copy /\ u.stopped = k.stopped
  <1>1. k \in Command /\ u = [k EXCEPT !.alone = v]
    BY DEF Plotted, WithAlone
  <1>2. /\ u \in Command /\ u.alone = v
        /\ u.kind = k.kind /\ u.todo = k.todo /\ u.services = k.services /\ u.from = k.from
        /\ SameNotes(k, u) /\ u.told = k.told /\ u.copy = k.copy /\ u.stopped = k.stopped
    BY <1>1 DEF Command, SameNotes, SameTidings
  <1>3. QED
    BY <1>2, PlottedToo

\* c sets out to do something, and the others see it do so.
Sets(c) ==
    LET t == cmd'[c]
    IN  /\ CmdPlotted' /\ UNCHANGED <<worker, edit, runVars, jobs, localVars>>
        /\ Head(cmd[c].todo) \in {"idle", "listen"}
        /\ t.alone = ~Disturbed(c)
        /\ t.kind \in RunKinds =>
              \A b \in Clients \ {c} : cmd[b].kind \in RunKinds => ~cmd'[b].alone
        /\ t.kind \notin RunKinds => \A b \in Clients \ {c} : cmd'[b] = cmd[b]
        /\ \A b \in Clients \ {c} : Alike(b)
        /\ t.kind \in RunKinds => Head(t.todo) \notin {"idle", "unsave", "copied", "listen"}
        /\ t.kind # "removal" => Head(t.todo) # "remove"
        /\ t.kind \in {"deploy", "up"} => Len(t.todo) > 6 /\ t.from = None
        /\ t.kind = "watch" =>
              \/ Head(t.todo) = "open" /\ t.from = None /\ t.heard = None
              \/ /\ Head(t.todo) = "settle" /\ cmd[c].kind = "watch"
                 /\ t.from = cmd[c].from /\ t.heard = cmd[c].heard
        /\ worker # "mirror" => Guarded(t.todo)

\* What every command relies on when one of them sets out.
LEMMA SetsPrivate ==
    ASSUME CmdPlotted, edit \in Nat, Awaited, AloneIsAlone, jobs \subseteq Job,
           StartsAreListed, RunningIsListed,
           NEW c \in Clients, Sets(c), \A b \in Clients : Private(b)
    PROVE  /\ Awaited' /\ AloneIsAlone' /\ StartsAreListed' /\ RunningIsListed'
           /\ \A b \in Clients : Private(b)'
  <1>1. /\ CmdPlotted' /\ UNCHANGED <<worker, edit, runVars, jobs, localVars>>
        /\ (\A b \in Clients : Kept(b)) /\ Head(cmd[c].todo) \notin Asks
        /\ \A b \in Clients \ {c} : Alike(b)
    BY DEF Sets, Kept, runVars, Asks
  <1>2. Awaited'
    <2>1. \A b \in Clients : Head(cmd[b].todo) \in Asks => Alike(b)
      BY <1>1
    <2>2. QED
      BY <1>1, <2>1, AwaitedStays
  <1>3. \A b \in Clients \ {c} : Working(b)' <=> Working(b)
    BY <1>1 DEF Working, At, Alike
  <1>4. AloneIsAlone'
    <2>1. SUFFICES ASSUME NEW b \in Clients, Undisturbed(b)'
                   PROVE  /\ \A d \in Clients \ {b} : ~Working(d)'
                          /\ \A j \in jobs : j.by = {b} \/ (j.by = {} /\ j.op = "stop")
      BY <1>1 DEF AloneIsAlone
    <2>2. CASE b = c
      <3>1. jobs = {} /\ \A d \in Clients \ {c} : ~Working(d)
        BY <2>1, <2>2 DEF Sets, Undisturbed, Disturbed
      <3>2. QED
        BY <1>3, <2>2, <3>1
    <2>3. CASE b # c
      <3>1. cmd[b].kind \in RunKinds /\ cmd'[b].alone /\ cmd[b].alone
        BY <1>1, <2>1, <2>3 DEF Undisturbed, Alike
      <3>2. cmd'[c].kind \notin RunKinds
        BY <2>3, <3>1 DEF Sets
      <3>3. /\ \A d \in Clients \ {b} : ~Working(d)
            /\ \A j \in jobs : j.by = {b} \/ (j.by = {} /\ j.op = "stop")
        BY <3>1 DEF AloneIsAlone, Undisturbed
      <3>4. ~Working(c)'
        BY <3>2 DEF Working
      <3>5. QED
        BY <1>3, <3>3, <3>4
    <2>4. QED
      BY <2>2, <2>3
  <1>5. StartsAreListed'
    <2>1. \A b \in Clients \ {c} : Guarded(cmd[b].todo) => Guarded(cmd'[b].todo)
      BY <1>1 DEF Alike
    <2>2. worker # "mirror" => Guarded(cmd'[c].todo)
      BY DEF Sets
    <2>3. QED
      BY <1>1, <2>1, <2>2, ListedStays
  <1>6. RunningIsListed'
    BY <1>1, DownStays DEF runVars
  <1>7. ASSUME NEW b \in Clients \ {c} PROVE Private(b)'
    BY <1>1, OthersKeepClaims
  <1>8. Private(c)'
    <2>1. UnsavedIsDown(c)'
      BY DEF UnsavedIsDown, Undisturbed, Sets, At
    <2>2. CleanedUp(c)'
      BY DEF CleanedUp, Sets, At
    <2>3. ASSUME cmd'[c].kind \in {"deploy", "up"} PROVE Deploys(c)'
      <3>1. Len(cmd'[c].todo) > 6 /\ cmd'[c].from = None
        BY <2>3 DEF Sets
      <3>2. cmd'[c].todo \in Seq(StepNames)
        BY <1>1 DEF CmdPlotted, Plotted, Command
      <3>3. Ahead(cmd'[c]) > 4 /\ Ahead(cmd'[c]) \in Int
        <4> DEFINE n == Len(cmd'[c].todo)
        <4>1. n \in Nat /\ n > 6
          BY <3>1, <3>2
        <4>2. Ahead(cmd'[c]) = n \/ Ahead(cmd'[c]) = n - 1
          BY DEF Ahead
        <4> HIDE DEF n
        <4>3. QED
          BY <4>1, <4>2
      <3>4. \A j \in jobs' : c \notin j.by
        BY <1>1, NotAsking
      <3>5. cmd'[c].from \notin Versions
        BY <3>1, VersionFacts
      <3>6. Deployed(c)'
        <4> DEFINE a == Ahead(cmd'[c])
        <4>1. ~(a <= 4) /\ ~(a <= 3) /\ a \notin {1, 2}
          BY <3>3
        <4> HIDE DEF a
        <4>2. Deployed(c)' <=>
                LET k == cmd'[c]
                IN  /\ k.from \in Versions' /\ ~At(c, "copied")' => source' = k.from
                    /\ a <= 4 => made'.setup = source'
                    /\ a <= 3 => made'.build = source'
                    /\ \A j \in jobs' : c \in j.by /\ j.op \in {"setup", "build"} => j.clean
                    /\ (a \in {1, 2} /\ k.stopped /\ k.from \in Versions')
                       => \A s \in k.services :
                             alive'[s] # Down' => alive'[s] = [from |-> k.from, prepared |-> TRUE]
          BY DEF Deployed, a, Ahead
        <4>3. QED
          BY <3>4, <3>5, <4>1, <4>2 DEF Versions
      <3>7. QED
        BY <3>1, <3>6 DEF Deploys, None
    <2>4. ASSUME cmd'[c].kind = "watch" PROVE Watched(c)'
      <3>1. edit' = edit
        BY <1>1
      <3>2. CASE At(c, "open")' /\ cmd'[c].from = None /\ cmd'[c].heard = None
        BY <3>1, <3>2 DEF Watched, At, None, Begun
      <3>3. CASE /\ At(c, "settle")' /\ cmd[c].kind = "watch"
                 /\ cmd'[c].from = cmd[c].from /\ cmd'[c].heard = cmd[c].heard
        <4>1. Watched(c)
          BY <3>3 DEF Private, Own
        <4>2. QED
          BY <3>1, <3>3, <4>1 DEF Watched, At, None, Begun
      <3>4. QED
        BY <2>4, <3>2, <3>3 DEF Sets, At
    <2>5. QED
      BY <2>1, <2>2, <2>3, <2>4 DEF Private, Own
  <1>9. QED
    BY <1>2, <1>4, <1>5, <1>6, <1>7, <1>8

\* What Begin does to the clients.
LEMMA BeginSets ==
    ASSUME CmdPlotted, NEW c \in Clients, NEW k, Plotted(k), Begin(c, k)
    PROVE  /\ CmdPlotted'
           /\ cmd'[c].alone = ~Disturbed(c) /\ cmd'[c].kind = k.kind /\ cmd'[c].todo = k.todo
           /\ cmd'[c].from = k.from /\ SameNotes(k, cmd'[c])
           /\ k.kind \in RunKinds =>
                 \A b \in Clients \ {c} : cmd[b].kind \in RunKinds => ~cmd'[b].alone
           /\ k.kind \notin RunKinds => \A b \in Clients \ {c} : cmd'[b] = cmd[b]
           /\ \A b \in Clients \ {c} : Alike(b)
  <1> DEFINE v == ~Disturbed(c)
             g(b) == IF b = c THEN [k EXCEPT !.alone = v]
                     ELSE IF cmd[b].kind \in RunKinds /\ k.kind \in RunKinds
                     THEN [cmd[b] EXCEPT !.alone = FALSE] ELSE cmd[b]
  <1>1. cmd' = [b \in Clients |-> g(b)]
    BY DEF Begin
  <1>2. v \in BOOLEAN
    BY DEF Disturbed
  <1>3. /\ Plotted(g(c)) /\ g(c).alone = v /\ g(c).kind = k.kind /\ g(c).todo = k.todo
        /\ g(c).from = k.from /\ SameNotes(k, g(c))
    <2> DEFINE u == g(c)
    <2>1. u = WithAlone(k, v)
      BY DEF WithAlone
    <2> HIDE DEF u, v, g
    <2>2. /\ Plotted(u) /\ u.alone = v /\ u.kind = k.kind /\ u.todo = k.todo
          /\ u.from = k.from /\ SameNotes(k, u)
      BY <1>2, <2>1, AloneSet
    <2>3. QED
      BY <2>2 DEF u
  <1>4. ASSUME NEW b \in Clients \ {c}
        PROVE  /\ Plotted(g(b))
               /\ g(b).kind = cmd[b].kind /\ g(b).todo = cmd[b].todo
               /\ g(b).services = cmd[b].services /\ g(b).from = cmd[b].from
               /\ SameNotes(cmd[b], g(b)) /\ g(b).stopped = cmd[b].stopped
               /\ g(b).told = cmd[b].told
               /\ g(b).alone => cmd[b].alone
               /\ cmd[b].kind \in RunKinds /\ k.kind \in RunKinds => ~g(b).alone
               /\ k.kind \notin RunKinds => g(b) = cmd[b]
    <2>1. Plotted(cmd[b])
      BY DEF CmdPlotted
    <2>2. CASE cmd[b].kind \in RunKinds /\ k.kind \in RunKinds
      <3>1. g(b) = [cmd[b] EXCEPT !.alone = FALSE]
        BY <2>2
      <3> DEFINE u == g(b)
                 d == cmd[b]
                 no == FALSE
      <3>2. u = WithAlone(d, no) /\ Plotted(d) /\ no \in BOOLEAN
        BY <2>1, <3>1 DEF WithAlone
      <3> HIDE DEF u, d, g, no
      <3>3. /\ Plotted(u) /\ u.alone = no
            /\ u.kind = d.kind /\ u.todo = d.todo /\ u.services = d.services
            /\ u.from = d.from /\ SameNotes(d, u) /\ u.told = d.told /\ u.stopped = d.stopped
        BY <3>2, AloneSet
      <3>4. QED
        BY <2>2, <3>3 DEF u, d, no
    <2>3. CASE ~(cmd[b].kind \in RunKinds /\ k.kind \in RunKinds)
      <3>1. g(b) = cmd[b]
        BY <2>3
      <3>2. QED
        BY <2>1, <2>3, <3>1 DEF SameNotes, SameTidings
    <2>4. QED
      BY <2>2, <2>3
  <1>5. \A b \in Clients : cmd'[b] = g(b)
    BY <1>1
  <1>6. cmd' \in [Clients -> Command]
    <2>1. \A b \in Clients : g(b) \in Command
      BY <1>3, <1>4 DEF Plotted
    <2> HIDE DEF g
    <2>2. QED
      BY <1>1, <2>1
  <1> HIDE DEF g, v
  <1>7. CmdPlotted'
    BY <1>3, <1>4, <1>5, <1>6 DEF CmdPlotted, Plotted, OnCourse
  <1>8. \A b \in Clients \ {c} : Alike(b)
    BY <1>4, <1>5 DEF Alike
  <1>9. QED
    BY <1>3, <1>4, <1>5, <1>7, <1>8 DEF v

\* A command begins along its plan.
LEMMA CommandSets ==
    ASSUME TypeOK, CmdPlotted, NEW c \in Clients, CommandBegin(c)
    PROVE  Sets(c) /\ commands' = commands + 1 /\ commands < MaxCommands
  <1>1. PICK plan \in Plans, services \in SUBSET Services \ {{}} :
           /\ plan[1] \in {"cleanup", "removal", "sync"} => services = Services
           /\ Begin(c, [Idle EXCEPT !.kind = plan[1], !.todo = plan[2], !.services = services])
    BY DEF CommandBegin
  <1> DEFINE k == [Idle EXCEPT !.kind = plan[1], !.todo = plan[2], !.services = services]
  <1>3. Begins(plan[1], plan[2])
    BY PlansBegin DEF TypeOK
  <1>4. plan[1] \in RunKinds /\ plan[2] \in Seq(StepNames) /\ plan[2] # <<>>
    BY <1>3 DEF Begins
  <1>5. Begin(c, k)
    BY <1>1
  <1>6. /\ k \in Command /\ k.kind = plan[1] /\ k.todo = plan[2] /\ k.services = services
        /\ k.from = None /\ k.heard = None
    <2>1. Idle \in Command /\ Idle.from = None /\ Idle.heard = None
      BY IdleFields DEF Plotted
    <2> DEFINE d == Idle
    <2>2. d \in Command /\ d.from = None /\ d.heard = None
      BY <2>1
    <2> HIDE DEF d
    <2>3. [d EXCEPT !.kind = plan[1], !.todo = plan[2], !.services = services]
          \in Command
      BY <1>4, <2>2 DEF Command
    <2>4. LET u == [d EXCEPT !.kind = plan[1], !.todo = plan[2], !.services = services]
          IN  /\ u.kind = plan[1] /\ u.todo = plan[2] /\ u.services = services
              /\ u.from = None /\ u.heard = None
      BY <2>2 DEF Command
    <2>5. QED
      BY <2>3, <2>4 DEF d
  <1> HIDE DEF k
  <1>7. Plotted(k)
    <2>1. OnCourse(k)
      <3>1. CASE plan[1] = "cleanup"
        BY <1>1, <1>3, <1>6, <3>1 DEF Begins
      <3>2. CASE plan[1] # "cleanup"
        BY <1>3, <1>6, <3>2 DEF Begins
      <3>3. QED
        BY <3>1, <3>2
    <2>2. QED
      BY <1>4, <1>6, <2>1 DEF Plotted
  <1>8. /\ CmdPlotted'
        /\ cmd'[c].alone = ~Disturbed(c) /\ cmd'[c].kind = k.kind /\ cmd'[c].todo = k.todo
        /\ cmd'[c].from = k.from /\ SameNotes(k, cmd'[c])
        /\ k.kind \in RunKinds =>
              \A b \in Clients \ {c} : cmd[b].kind \in RunKinds => ~cmd'[b].alone
        /\ k.kind \notin RunKinds => \A b \in Clients \ {c} : cmd'[b] = cmd[b]
        /\ \A b \in Clients \ {c} : Alike(b)
    BY <1>5, <1>7, BeginSets
  <1>9. /\ Head(plan[2]) \notin {"idle", "load", "unsave", "copied", "listen"}
        /\ plan[1] # "removal" => Head(plan[2]) # "remove"
        /\ plan[1] \in {"deploy", "up"} => Len(plan[2]) > 6
        /\ plan[1] = "watch" => Head(plan[2]) = "open"
        /\ worker # "mirror" => Guarded(plan[2])
    BY <1>3 DEF Begins
  <1>10. /\ Head(cmd[c].todo) = "idle"
         /\ UNCHANGED <<worker, edit, runVars, jobs, localVars>>
    BY DEF CommandBegin, At
  <1>12. Sets(c)
    BY <1>4, <1>6, <1>8, <1>9, <1>10 DEF Sets, SameNotes, SameTidings
  <1>13. QED
    BY <1>5, <1>12 DEF Begin

\* A command about the registry begins.
LEMMA RegistrySets ==
    ASSUME CmdPlotted, NEW c \in Clients, RegistryBegin(c)
    PROVE  Sets(c) /\ commands' = commands + 1 /\ commands < MaxCommands
  <1>1. PICK kind \in {"forget", "other"} :
           Begin(c, [Idle EXCEPT !.kind = kind,
                                 !.todo = IF kind = "forget" THEN Forget ELSE <<"load", "save">>])
    BY DEF RegistryBegin
  <1> DEFINE p == IF kind = "forget" THEN Forget ELSE <<"load", "save">>
             k == [Idle EXCEPT !.kind = kind, !.todo = p]
  <1>2. /\ p \in Seq(StepNames) /\ p # <<>> /\ Head(p) \in {"unsave", "load"}
        /\ Guarded(p)
        /\ \A i \in DOMAIN p : p[i] \in {"unsave", "load", "save"}
        /\ kind = "forget" => p = <<"unsave">>
        /\ kind = "other" => p = <<"load", "save">>
    <2>1. CASE kind = "forget"
      <3>1. p = <<"unsave">>
        BY <2>1 DEF Forget
      <3> HIDE DEF p
      <3>2. p \in Seq({"unsave"}) /\ DOMAIN p = {1} /\ p[1] = "unsave" /\ Head(p) = "unsave"
            /\ p # <<>>
        BY <3>1
      <3>3. p \in Seq(StepNames)
        BY <3>1 DEF StepNames
      <3>4. Guarded(p)
        BY <3>2 DEF Guarded, Starts
      <3>5. QED
        BY <2>1, <3>1, <3>2, <3>3, <3>4
    <2>2. CASE kind = "other"
      <3>1. p = <<"load", "save">>
        BY <2>2
      <3> HIDE DEF p
      <3>2. DOMAIN p = {1, 2} /\ p[1] = "load" /\ p[2] = "save" /\ Head(p) = "load"
            /\ p # <<>>
        BY <3>1
      <3>3. p \in Seq(StepNames)
        BY <3>1 DEF StepNames
      <3>4. Guarded(p)
        BY <3>2 DEF Guarded, Starts
      <3>5. QED
        BY <2>2, <3>1, <3>2, <3>3, <3>4
    <2>3. QED
      BY <2>1, <2>2
  <1>3. Begin(c, k)
    BY <1>1
  <1> HIDE DEF p
  <1>4. /\ k \in Command /\ k.kind = kind /\ k.todo = p /\ k.from = None
    <2> DEFINE d == Idle
    <2>1. d \in Command /\ d.from = None
      BY IdleFields DEF Plotted
    <2> HIDE DEF d
    <2>2. [d EXCEPT !.kind = kind, !.todo = p] \in Command
      BY <1>2, <2>1 DEF Command
    <2>3. LET u == [d EXCEPT !.kind = kind, !.todo = p]
          IN  u.kind = kind /\ u.todo = p /\ u.from = None
      BY <2>1 DEF Command
    <2>4. QED
      BY <2>2, <2>3 DEF d
  <1> HIDE DEF k
  <1>5. Plotted(k)
    <2>1. Countdown(<<"load", "save">>, <<{"save"}, {"load"}>>)
      <3>1. /\ Len(<<"load", "save">>) = 2 /\ Len(<<{"save"}, {"load"}>>) = 2
            /\ DOMAIN <<"load", "save">> = {1, 2}
            /\ <<"load", "save">>[1] = "load" /\ <<"load", "save">>[2] = "save"
            /\ <<{"save"}, {"load"}>>[1] = {"save"} /\ <<{"save"}, {"load"}>>[2] = {"load"}
        OBVIOUS
      <3>2. QED
        BY <3>1 DEF Countdown
    <2>2. OnCourse(k)
      BY <1>2, <1>4, <2>1 DEF OnCourse
    <2>3. QED
      BY <1>2, <1>4, <2>2 DEF Plotted
  <1>6. /\ CmdPlotted'
        /\ cmd'[c].alone = ~Disturbed(c) /\ cmd'[c].kind = k.kind /\ cmd'[c].todo = k.todo
        /\ k.kind \notin RunKinds => \A b \in Clients \ {c} : cmd'[b] = cmd[b]
        /\ \A b \in Clients \ {c} : Alike(b)
    BY <1>3, <1>5, BeginSets
  <1>7. /\ Head(cmd[c].todo) = "idle"
        /\ UNCHANGED <<worker, edit, runVars, jobs, localVars>>
    BY DEF RegistryBegin, At
  <1>8. kind \notin RunKinds
    BY DEF RunKinds
  <1>9. Sets(c)
    BY <1>2, <1>4, <1>6, <1>7, <1>8 DEF Sets, RunKinds
  <1>10. QED
    BY <1>3, <1>9 DEF Begin

\* A watch takes a change.
LEMMA WatchSets ==
    ASSUME TypeOK, CmdPlotted, NEW c \in Clients, WatchTake(c), cmd[c].differs
    PROVE  Sets(c)
  <1> DEFINE e == IF Len(cmd[c].todo) = 2 THEN "end" ELSE "listen"
  <1>1. PICK restarts \in 0..Cardinality(cmd[c].services) :
           cmd' = [b \in Clients |->
              IF b = c
              THEN [cmd[c] EXCEPT !.told = FALSE, !.differs = FALSE, !.alone = ~Disturbed(c),
                        !.todo = <<"settle">> \o Sync \o Restarts(restarts)
                                 \o (IF Len(@) = 2 THEN <<"end">> ELSE <<"listen">>)]
              ELSE [cmd[b] EXCEPT !.alone = @ /\ cmd[b].kind \notin RunKinds]]
    BY DEF WatchTake
  <1> DEFINE p == <<"settle">> \o Sync \o Restarts(restarts) \o <<e>>
             v == ~Disturbed(c)
             k == [cmd[c] EXCEPT !.told = FALSE, !.differs = FALSE, !.alone = v, !.todo = p]
             w(b) == cmd[b].alone /\ cmd[b].kind \notin RunKinds
             g(b) == IF b = c THEN k ELSE WithAlone(cmd[b], w(b))
  <1>2. restarts \in Nat
    <2>1. cmd[c].services \subseteq Services
      BY DEF CmdPlotted, Command
    <2>2. Cardinality(cmd[c].services) \in Nat
      BY <2>1, ServicesAssumption, FS_Subset, FS_CardinalityType
    <2>3. QED
      BY <2>2
  <1>3. /\ p \in Seq(StepNames) /\ p # <<>> /\ Head(p) = "settle" /\ Watching(p) /\ Guarded(p)
    BY <1>2, RoundSteps
  <1>4. v \in BOOLEAN
    BY DEF Disturbed
  <1>5. cmd' = [b \in Clients |-> g(b)]
    BY <1>1 DEF WithAlone
  <1>6. /\ Plotted(cmd[c]) /\ Head(cmd[c].todo) = "listen"
        /\ UNCHANGED <<worker, edit, runVars, jobs, localVars>>
    BY DEF CmdPlotted, WatchTake, At
  <1>7. cmd[c].kind = "watch"
    BY <1>6, KindOfStep
  <1> HIDE DEF v, p
  <1>8. /\ Plotted(k) /\ k.todo = p /\ k.alone = v /\ k.kind = "watch"
        /\ k.from = cmd[c].from /\ k.heard = cmd[c].heard
    <2> DEFINE d == cmd[c]
    <2>1. d \in Command /\ d.kind = "watch"
      BY <1>6, <1>7 DEF Plotted
    <2> HIDE DEF d
    <2>2. [d EXCEPT !.told = FALSE, !.differs = FALSE, !.alone = v, !.todo = p] \in Command
      BY <1>3, <1>4, <2>1 DEF Command
    <2>3. LET u == [d EXCEPT !.told = FALSE, !.differs = FALSE, !.alone = v, !.todo = p]
          IN  /\ u.todo = p /\ u.alone = v /\ u.kind = "watch"
              /\ u.from = d.from /\ u.heard = d.heard
      BY <2>1 DEF Command
    <2>4. /\ k \in Command /\ k.todo = p /\ k.alone = v /\ k.kind = "watch"
          /\ k.from = cmd[c].from /\ k.heard = cmd[c].heard
      BY <2>2, <2>3 DEF d
    <2> HIDE DEF k
    <2>5. OnCourse(k)
      BY <1>3, <2>4 DEF OnCourse
    <2>6. QED
      BY <1>3, <2>4, <2>5 DEF Plotted
  <1> HIDE DEF k
  <1>9. ASSUME NEW b \in Clients \ {c}
        PROVE  /\ Plotted(g(b))
               /\ g(b).kind = cmd[b].kind /\ g(b).todo = cmd[b].todo
               /\ g(b).services = cmd[b].services /\ g(b).from = cmd[b].from
               /\ SameNotes(cmd[b], g(b)) /\ g(b).stopped = cmd[b].stopped
               /\ g(b).told = cmd[b].told
               /\ g(b).alone => cmd[b].alone
               /\ cmd[b].kind \in RunKinds => ~g(b).alone
    <2> DEFINE u == g(b)
               d == cmd[b]
               no == w(b)
    <2>1. u = WithAlone(d, no) /\ Plotted(d) /\ no \in BOOLEAN
      BY DEF CmdPlotted
    <2>2. (no => d.alone) /\ (d.kind \in RunKinds => ~no)
      OBVIOUS
    <2> HIDE DEF u, d, g, no
    <2>3. /\ Plotted(u) /\ u.alone = no
          /\ u.kind = d.kind /\ u.todo = d.todo /\ u.services = d.services
          /\ u.from = d.from /\ SameNotes(d, u) /\ u.told = d.told /\ u.stopped = d.stopped
      BY <2>1, AloneSet
    <2>4. QED
      BY <2>2, <2>3 DEF u, d, no
  <1>10. \A b \in Clients : cmd'[b] = g(b)
    BY <1>5
  <1>11. g(c) = k
    OBVIOUS
  <1>12. cmd' \in [Clients -> Command]
    <2>1. \A b \in Clients : g(b) \in Command
      BY <1>8, <1>9, <1>11 DEF Plotted
    <2> HIDE DEF g
    <2>2. QED
      BY <1>5, <2>1
  <1> HIDE DEF g
  <1>13. CmdPlotted'
    BY <1>8, <1>9, <1>10, <1>11, <1>12 DEF CmdPlotted, Plotted, OnCourse
  <1>14. \A b \in Clients \ {c} : Alike(b) /\ (cmd[b].kind \in RunKinds => ~cmd'[b].alone)
    BY <1>9, <1>10 DEF Alike
  <1>15. /\ cmd'[c].todo = p /\ cmd'[c].kind = "watch" /\ cmd'[c].alone = ~Disturbed(c)
         /\ cmd'[c].from = cmd[c].from /\ cmd'[c].heard = cmd[c].heard
    BY <1>8, <1>10, <1>11 DEF v
  <1>16. QED
    BY <1>3, <1>6, <1>7, <1>13, <1>14, <1>15 DEF Sets, RunKinds

(***************************************************************************)
(* Answers                                                                 *)
(***************************************************************************)

\* t is k with its request behind it, or given up.
Answers(k, t) ==
    /\ Plotted(t)
    /\ \/ t.kind = "none"
       \/ /\ t.kind = k.kind /\ t.services = k.services /\ t.from = k.from /\ SameNotes(k, t)
          /\ t.told = k.told /\ t.alone = k.alone /\ (t.stopped => k.stopped)
          /\ t.todo = Then(k).todo /\ Then(k).kind = k.kind

\* A command of which the request succeeded.
LEMMA ThenAnswers ==
    ASSUME NEW k, Plotted(k) PROVE Answers(k, Then(k))
  <1>1. Plotted(Then(k)) /\ (Then(k) = Idle \/ Onward(k, Then(k)))
    BY ThenFields
  <1>2. CASE Then(k) = Idle
    BY <1>1, <1>2, IdleFields DEF Answers
  <1>3. CASE Onward(k, Then(k))
    BY <1>1, <1>3 DEF Answers, Onward, SameBut
  <1>4. QED
    BY <1>1, <1>2, <1>3

\* Whether a command that goes on may say that its stop succeeded.
StopFails(k) == \E s \in Subject(k) : alive[s] # Down

\* A command of which the request failed.
LEMMA FailedAnswers ==
    ASSUME NEW k, Plotted(k)
    PROVE  /\ Answers(k, CallFailed(k))
           /\ CallFailed(k).kind # "none" => Ignores(k)
           /\ CallFailed(k).kind # "none" /\ CallFailed(k).stopped => ~StopFails(k)
  <1>1. CASE ~Ignores(k)
    BY <1>1, IdleFields DEF CallFailed, Answers
  <1>2. CASE Ignores(k)
    <2> DEFINE u == Then(k)
               v == u.stopped /\ \A s \in Subject(k) : alive[s] = Down
               t == CallFailed(k)
    <2>1. Answers(k, u) /\ Plotted(u)
      BY ThenAnswers, ThenFields
    <2>2. t = [u EXCEPT !.stopped = v]
      BY <1>2 DEF CallFailed
    <2>3. u \in Command /\ v \in BOOLEAN
      BY <2>1 DEF Plotted, Command
    <2>7. v => u.stopped /\ ~StopFails(k)
      BY DEF StopFails
    <2> HIDE DEF u, v, t
    <2>4. /\ t \in Command /\ t.stopped = v
          /\ t.kind = u.kind /\ t.todo = u.todo /\ t.services = u.services /\ t.from = u.from
          /\ SameNotes(u, t) /\ t.told = u.told /\ t.alone = u.alone
      BY <2>2, <2>3 DEF Command, SameNotes, SameTidings
    <2>5. Plotted(t)
      BY <2>1, <2>4, PlottedToo
    <2>6. Answers(k, t)
      <3>1. CASE u.kind = "none"
        BY <2>4, <2>5, <3>1 DEF Answers
      <3>2. CASE u.kind # "none"
        <4>1. /\ u.kind = k.kind /\ u.services = k.services /\ u.from = k.from
              /\ SameNotes(k, u) /\ u.told = k.told /\ u.alone = k.alone
              /\ u.stopped => k.stopped
              /\ u.todo = Then(k).todo /\ Then(k).kind = k.kind
          BY <2>1, <3>2 DEF Answers
        <4>2. QED
          BY <2>4, <2>5, <2>7, <4>1 DEF Answers, SameNotes, SameTidings
      <3>3. QED
        BY <3>1, <3>2
    <2>8. QED
      BY <1>2, <2>4, <2>6, <2>7 DEF t
  <1>3. QED
    BY <1>1, <1>2

\* Which steps follow an answer.
LEMMA AnswersMove ==
    ASSUME NEW k, Plotted(k), NEW t, Answers(k, t), t.kind # "none", Head(k.todo) \in Asks
    PROVE  /\ Len(k.todo) = Len(t.todo) + 1 /\ Len(t.todo) \in Nat /\ Len(k.todo) \in Nat
           /\ Head(t.todo) = k.todo[2] /\ 2 \in DOMAIN k.todo
           /\ Moved(k, Then(k)) /\ Then(k).kind = t.kind /\ Then(k).todo = t.todo
           /\ Head(t.todo) # "unsave"
           /\ Head(t.todo) = "remove" /\ t.kind # "removal" =>
                 /\ Head(k.todo) = "stop"
                 /\ t.kind = "deploy" => Len(t.todo) = 11
                 /\ t.kind \in {"deploy", "cleanup"}
  <1>1. Then(k).kind = t.kind /\ Then(k).todo = t.todo /\ Moved(k, Then(k))
    BY ThenMoves DEF Answers
  <1>2. Then(k) # Idle
    BY <1>1, IdleFields
  <1>3. Onward(k, Then(k))
    BY <1>2, ThenFields
  <1>4. k.todo \in Seq(StepNames) /\ t.todo \in Seq(StepNames)
    BY DEF Plotted, Command, Answers
  <1>5. Len(k.todo) \in Nat /\ Len(t.todo) \in Nat /\ DOMAIN k.todo = 1..Len(k.todo)
    BY <1>4
  <1>6. Len(t.todo) = Len(k.todo) - 1 /\ Len(k.todo) > 1 /\ Head(t.todo) = k.todo[2]
    BY <1>1, <1>3 DEF Onward
  <1>7. Len(k.todo) = Len(t.todo) + 1 /\ 2 \in DOMAIN k.todo
    <2> DEFINE n == Len(k.todo)
               m == Len(t.todo)
    <2>1. n \in Nat /\ m \in Nat /\ DOMAIN k.todo = 1..n /\ m = n - 1 /\ n > 1
      BY <1>5, <1>6
    <2> HIDE DEF n, m
    <2>2. n = m + 1 /\ 2 \in DOMAIN k.todo
      BY <2>1
    <2>3. QED
      BY <2>2 DEF n, m
  <1>8. /\ Head(t.todo) = "unsave" => Head(k.todo) = "remove"
        /\ Head(t.todo) = "remove" /\ t.kind # "removal" =>
                 /\ Head(k.todo) = "stop"
                 /\ t.kind = "deploy" => Len(t.todo) = 11
                 /\ t.kind \in {"deploy", "cleanup"}
    <2> DEFINE u == Then(k)
    <2>1. /\ Head(u.todo) = "unsave" => u.kind # "none" /\ Head(k.todo) = "remove"
          /\ Head(u.todo) = "remove" /\ u.kind # "removal" =>
                 /\ u.kind # "none" /\ Head(k.todo) = "stop"
                 /\ u.kind = "deploy" => Len(u.todo) = 11
                 /\ u.kind = "cleanup" => Len(u.todo) = 2
                 /\ u.kind \in {"deploy", "cleanup"}
      BY <1>1, MovedRemoval
    <2> HIDE DEF u
    <2>2. u.kind = t.kind /\ u.todo = t.todo
      BY <1>1 DEF u
    <2>3. QED
      BY <2>1, <2>2
  <1>9. QED
    BY <1>1, <1>5, <1>6, <1>7, <1>8 DEF Asks

\* Where a deploy or services up is after an answer.
AtAnswer(h, g, n) ==
    \/ h = "start" /\ g = "wait" /\ n = 1
    \/ h = "stop" /\ g = "start" /\ n = 2
    \/ h = "build" /\ g = "stop" /\ n = 3
    \/ h = "setup" /\ g = "build" /\ n = 4
    \/ h = "stop" /\ g = "remove" /\ n = 11

\* It is there.
LEMMA AnswersAhead ==
    ASSUME NEW k, Plotted(k), NEW t, Answers(k, t), t.kind \in {"deploy", "up"},
           Head(k.todo) \in Asks
    PROVE  /\ AtAnswer(Head(k.todo), Head(t.todo), Ahead(t)) /\ Ahead(k) = Ahead(t) + 1
           /\ t.kind = k.kind
           /\ Head(t.todo) = "remove" => k.kind = "deploy" /\ Len(k.todo) = 12
           /\ k.kind = "deploy" /\ Head(t.todo) = "start" => Len(k.todo) = 3
           /\ t.kind = "deploy" /\ Len(t.todo) >= 8 => Len(k.todo) >= 8
  <1>1. /\ Len(k.todo) = Len(t.todo) + 1 /\ Len(t.todo) \in Nat /\ Len(k.todo) \in Nat
        /\ t.kind = k.kind /\ Plotted(t)
    BY AnswersMove DEF Answers
  <1> DEFINE h == Head(k.todo)
             g == Head(t.todo)
             n == Len(k.todo)
             m == Len(t.todo)
  <1>2. n = m + 1 /\ m \in Nat /\ n \in Nat /\ h \in Asks
    BY <1>1
  <1>3. CASE k.kind = "deploy"
    <2>1. AtDeploy(h, n) /\ AtDeploy(g, m)
      BY <1>1, <1>3, DeployCourse DEF InDeploy
    <2>2. Ahead(t) = m /\ Ahead(k) = n
      BY <1>1, <1>3 DEF Ahead
    <2> HIDE DEF h, g, n, m
    <2>3. /\ h = "start" => g = "wait" /\ m = 1
          /\ h = "build" => g = "stop" /\ m = 3
          /\ h = "setup" => g = "build" /\ m = 4
          /\ h = "stop" => (g = "start" /\ m = 2) \/ (g = "remove" /\ m = 11)
      BY <1>2, <2>1, DeployStep
    <2>4. h # "restart"
      BY <2>1 DEF AtDeploy
    <2>5. AtAnswer(h, g, m)
      BY <1>2, <2>3, <2>4 DEF AtAnswer, Asks
    <2>6. (g = "remove" => n = 12) /\ (g = "start" => n = 3) /\ (m >= 8 => n >= 8)
      BY <1>2, <2>5 DEF AtAnswer
    <2>7. QED
      BY <1>1, <1>2, <1>3, <2>2, <2>5, <2>6 DEF h, g, n, m
  <1>4. CASE k.kind = "up"
    <2>1. AtUp(h, n) /\ AtUp(g, m)
      BY <1>1, <1>4, UpCourse DEF InUp
    <2>2. Ahead(t) = m - 1 /\ Ahead(k) = n - 1
      BY <1>1, <1>4 DEF Ahead
    <2> HIDE DEF h, g, n, m
    <2>3. /\ h = "start" => g = "wait" /\ m = 2
          /\ h = "build" => g = "stop" /\ m = 4
          /\ h = "setup" => g = "build" /\ m = 5
          /\ h = "stop" => g = "start" /\ m = 3
          /\ h # "restart"
      BY <1>2, <2>1, UpStep
    <2>4. AtAnswer(h, g, m - 1) /\ n - 1 = (m - 1) + 1 /\ g # "remove"
      BY <1>2, <2>3 DEF AtAnswer, Asks
    <2>5. QED
      BY <1>1, <1>4, <2>2, <2>4 DEF h, g, n, m
  <1>5. QED
    BY <1>1, <1>3, <1>4

\* What a stop that removes the run, or deploys, is about.
LEMMA AnswersSubject ==
    ASSUME NEW k, Plotted(k), NEW t, Answers(k, t), t.kind \in {"deploy", "up"},
           Head(k.todo) \in Asks
    PROVE  /\ Head(t.todo) = "remove" => Subject(k) = Services
           /\ Head(t.todo) = "start" => Subject(k) = k.services
  <1>1. /\ t.kind = k.kind
        /\ Head(t.todo) = "remove" => k.kind = "deploy"
        /\ k.kind = "deploy" /\ Head(t.todo) = "start" => Len(k.todo) = 3
    BY AnswersAhead
  <1>2. Head(t.todo) = k.todo[2] /\ 2 \in DOMAIN k.todo
    BY AnswersMove
  <1>3. ASSUME Head(t.todo) = "remove" PROVE Subject(k) = Services
    <2>1. "remove" \in {k.todo[i] : i \in DOMAIN k.todo}
      BY <1>2, <1>3
    <2>2. QED
      BY <1>1, <1>3, <2>1 DEF Subject
  <1>4. ASSUME Head(t.todo) = "start" PROVE Subject(k) = k.services
    <2>1. CASE k.kind = "up"
      BY <2>1 DEF Subject
    <2>2. CASE k.kind = "deploy"
      <3>1. Countdown(k.todo, Deploying) /\ k.todo \in Seq(StepNames)
        BY <2>2 DEF Plotted, OnCourse, Command
      <3>2. Len(k.todo) = 3 /\ DOMAIN k.todo = 1..Len(k.todo)
        BY <1>1, <1>4, <2>2, <3>1
      <3>3. \A i \in 1..3 : k.todo[i] \in Deploying[3 - i + 1]
        BY <3>1, <3>2 DEF Countdown
      <3>4. \A i \in 1..3 : k.todo[i] # "remove"
        <4>1. k.todo[1] \in Deploying[3] /\ k.todo[2] \in Deploying[2] /\ k.todo[3] \in Deploying[1]
          BY <3>3
        <4>2. \A i \in 1..3 : i = 1 \/ i = 2 \/ i = 3
          OBVIOUS
        <4>3. QED
          BY <4>1, <4>2, DeployingIs
      <3>5. QED
        BY <2>2, <3>2, <3>4 DEF Subject
    <2>3. QED
      BY <1>1, <2>1, <2>2
  <1>5. QED
    BY <1>3, <1>4

\* What an undisturbed command gets of its request.
Result(c) ==
    LET h == Head(cmd[c].todo)
    IN  /\ made'.setup = IF h = "setup" THEN source ELSE made.setup
        /\ made'.build = IF h = "build" THEN source ELSE made.build
        /\ h = "stop" /\ (cmd'[c].stopped \/ ~Ignores(cmd[c])) =>
              \A s \in Subject(cmd[c]) : alive'[s] = Down
        /\ h = "start" =>
              \A s \in Services : \/ alive'[s] = alive[s]
                                  \/ alive'[s] = [from |-> source, prepared |-> Prepared]

\* The claims of a deploy or services up that has its answer.
LEMMA AnsweredDeploys ==
    ASSUME CmdPlotted, NEW c \in Clients, Head(cmd[c].todo) \in Asks, Private(c),
           Answers(cmd[c], cmd'[c]), cmd'[c].kind \in {"deploy", "up"},
           UNCHANGED source, \A i \in jobs' : c \notin i.by, Undisturbed(c) => Result(c)
    PROVE  Deploys(c)'
  <1> DEFINE k == cmd[c]
             t == cmd'[c]
             h == Head(k.todo)
             g == Head(t.todo)
             n == Ahead(t)
             m == Ahead(k)
  <1>1. /\ Plotted(k) /\ Answers(k, t) /\ t.kind = k.kind /\ h \in Asks
        /\ t.kind \in {"deploy", "up"}
    BY DEF CmdPlotted, Answers
  <1>2. /\ AtAnswer(h, g, n) /\ m = n + 1
        /\ t.kind = "deploy" /\ Len(t.todo) >= 8 => Len(k.todo) >= 8
    BY <1>1, AnswersAhead
  <1>3. g = "start" => Subject(k) = k.services
    BY <1>1, AnswersSubject
  <1>4. /\ t.services = k.services /\ t.from = k.from /\ t.alone = k.alone
        /\ t.stopped => k.stopped
    BY <1>1 DEF Answers
  <1>5. /\ k.kind = "deploy" /\ Len(k.todo) >= 8 => k.from = None
        /\ k.alone => Deployed(c)
    BY <1>1 DEF Private, Own, Deploys
  <1>6. g # "rsync" /\ g # "copied" /\ h # "copied"
    BY <1>1, <1>2 DEF AtAnswer, Asks
  <1>7. k.services \subseteq Services
    BY <1>1 DEF Plotted, Command
  <1>8. ASSUME t.alone PROVE Deployed(c)'
    <2>1. Deployed(c) /\ Undisturbed(c) /\ Result(c)
      BY <1>1, <1>4, <1>5, <1>8 DEF Undisturbed, RunKinds
    <2>2. /\ k.from \in Versions => source = k.from
          /\ m <= 4 => made.setup = source
          /\ m <= 3 => made.build = source
          /\ (m \in {1, 2} /\ k.stopped /\ k.from \in Versions)
             => \A s \in k.services :
                   alive[s] # Down => alive[s] = [from |-> k.from, prepared |-> TRUE]
      BY <2>1, <1>6 DEF Deployed, At
    <2>3. /\ made'.setup = IF h = "setup" THEN source ELSE made.setup
          /\ made'.build = IF h = "build" THEN source ELSE made.build
          /\ h = "stop" /\ t.stopped => \A s \in Subject(k) : alive'[s] = Down
          /\ h = "start" =>
                \A s \in Services : \/ alive'[s] = alive[s]
                                    \/ alive'[s] = [from |-> source, prepared |-> Prepared]
      BY <2>1 DEF Result
    <2>4. Deployed(c)' <=>
             /\ t.from \in Versions' /\ g # "copied" => source' = t.from
             /\ n <= 4 => made'.setup = source'
             /\ n <= 3 => made'.build = source'
             /\ \A j \in jobs' : c \in j.by /\ j.op \in {"setup", "build"} => j.clean
             /\ (n \in {1, 2} /\ t.stopped /\ t.from \in Versions')
                => \A s \in t.services :
                      alive'[s] # Down' => alive'[s] = [from |-> t.from, prepared |-> TRUE]
      BY DEF Deployed, At, Ahead
    <2>5. source' = source /\ Versions' = Versions /\ Down' = Down
      BY DEF Versions, Down, None
    <2> HIDE DEF k, t, h, g, n, m
    <2>6. n \in {1, 2, 3, 4, 11}
      BY <1>2 DEF AtAnswer
    <2>7. /\ n <= 4 => made'.setup = source
          /\ n <= 3 => made'.build = source
      BY <1>2, <2>2, <2>3 DEF AtAnswer
    <2>8. ASSUME n \in {1, 2}, t.stopped, t.from \in Versions
          PROVE  \A s \in k.services :
                    alive'[s] # Down => alive'[s] = [from |-> k.from, prepared |-> TRUE]
      <3>1. CASE n = 2
        BY <1>2, <1>3, <2>3, <2>8, <3>1 DEF AtAnswer
      <3>2. CASE n = 1
        <4>1. h = "start" /\ m = 2
          BY <1>2, <3>2 DEF AtAnswer
        <4>2. k.stopped /\ k.from \in Versions /\ source = k.from
          BY <1>4, <2>2, <2>8
        <4>3. Prepared = TRUE
          BY <2>2, <4>1, <4>2 DEF Prepared
        <4>4. \A s \in k.services :
                 alive[s] # Down => alive[s] = [from |-> k.from, prepared |-> TRUE]
          BY <2>2, <4>1, <4>2
        <4>5. \A s \in Services : \/ alive'[s] = alive[s]
                                  \/ alive'[s] = [from |-> k.from, prepared |-> TRUE]
          BY <2>3, <4>1, <4>2, <4>3
        <4>6. QED
          BY <1>7, <4>4, <4>5
      <3>3. QED
        BY <2>8, <3>1, <3>2
    <2>9. QED
      BY <1>4, <2>2, <2>4, <2>5, <2>7, <2>8
  <1>9. QED
    BY <1>1, <1>2, <1>4, <1>5, <1>6, <1>8 DEF Deploys, At, None

\* Which of the answers a command relies on.
Relies(c) == Undisturbed(c) /\ cmd'[c].kind \in {"deploy", "up", "cleanup"}

\* A client without a command claims nothing.
LEMMA NonePrivate ==
    ASSUME NEW c \in Clients, Plotted(cmd'[c]), cmd'[c].kind = "none"
    PROVE  Private(c)'
  <1>1. Head(cmd'[c].todo) = "idle"
    BY KindOfStep
  <1>2. QED
    BY <1>1 DEF Private, Own, UnsavedIsDown, CleanedUp, Undisturbed, At, RunKinds

\* The claims of a command that has its answer.
LEMMA AnsweredPrivate ==
    ASSUME CmdPlotted, NEW c \in Clients, Head(cmd[c].todo) \in Asks, Private(c),
           Answers(cmd[c], cmd'[c]), UNCHANGED <<source, worker, edit>>,
           \A i \in jobs' : c \notin i.by, Relies(c) => Result(c)
    PROVE  Private(c)'
  <1> DEFINE k == cmd[c]
             t == cmd'[c]
  <1>1. Plotted(k) /\ Plotted(t) /\ Answers(k, t)
    BY DEF CmdPlotted, Answers
  <1>2. CASE t.kind = "none"
    BY <1>1, <1>2, NonePrivate
  <1>3. CASE t.kind # "none"
    <2>1. /\ t.kind = k.kind /\ t.services = k.services /\ t.from = k.from /\ SameNotes(k, t)
          /\ t.told = k.told /\ t.alone = k.alone /\ (t.stopped => k.stopped)
      BY <1>1, <1>3 DEF Answers
    <2>2. /\ Moved(k, Then(k)) /\ Then(k).kind = t.kind /\ Then(k).todo = t.todo
          /\ Head(t.todo) # "unsave"
          /\ Head(t.todo) = "remove" /\ t.kind # "removal" =>
                /\ Head(k.todo) = "stop"
                /\ t.kind \in {"deploy", "cleanup"}
      BY <1>1, <1>3, AnswersMove
    <2>3. UnsavedIsDown(c)'
      BY <2>2 DEF UnsavedIsDown, At
    <2>4. CleanedUp(c)'
      <3>1. SUFFICES ASSUME Head(t.todo) = "remove", t.alone, t.kind # "removal",
                            t.stopped \/ (worker' = "remote" /\ t.kind = "cleanup")
                     PROVE  AllDown'
        BY DEF CleanedUp, At
      <3>2. Head(k.todo) = "stop" /\ t.kind \in {"deploy", "cleanup"}
        BY <2>2, <3>1
      <3>3. Result(c)
        BY <2>1, <3>1, <3>2 DEF Relies, Undisturbed, RunKinds
      <3>4. t.stopped \/ ~Ignores(k)
        BY <2>1, <3>1, <3>2 DEF Ignores
      <3>5. \A s \in Subject(k) : alive'[s] = Down
        BY <3>2, <3>3, <3>4 DEF Result
      <3>6. Subject(k) = Services
        <4>1. CASE k.kind = "deploy"
          BY <1>1, <2>1, <3>1, <3>2, <4>1, AnswersSubject DEF Asks
        <4>2. CASE k.kind = "cleanup"
          BY <1>1, <4>2 DEF Subject, Plotted, OnCourse
        <4>3. QED
          BY <2>1, <3>2, <4>1, <4>2
      <3>7. QED
        BY <3>5, <3>6 DEF AllDown, Down, None
    <2>5. t.kind \in {"deploy", "up"} => Deploys(c)'
      <3>1. SUFFICES ASSUME t.kind \in {"deploy", "up"} PROVE Deploys(c)'
        OBVIOUS
      <3>2. Undisturbed(c) => Result(c)
        BY <3>1 DEF Relies
      <3>3. QED
        BY <3>1, <3>2, AnsweredDeploys
    <2>6. t.kind = "watch" => Watched(c)'
      <3>1. SUFFICES ASSUME t.kind = "watch" PROVE Watched(c)'
        OBVIOUS
      <3>2. Then(k).kind = "watch"
        BY <2>2, <3>1
      <3>3. Head(t.todo) # "open" /\ (Head(t.todo) = "copied" => Head(k.todo) = "rsync")
        BY <1>1, <2>2, <3>2, MovedWatch
      <3>4. Watched(c) /\ Head(k.todo) \notin {"open", "listen", "settle", "prepare", "rsync",
                                                "copied"}
        BY <2>1, <3>1 DEF Private, Own, Asks
      <3>5. /\ k.heard \in (0..edit) \cup {None} /\ k.from \in (0..edit) \cup {None}
            /\ (k.heard # None /\ ~(k.differs /\ (k.events \/ k.told)))
               => k.from # None /\ k.heard <= k.from
            /\ k.alone /\ k.from # None => CopyOf(k.from)
        BY <3>4 DEF Watched, At, Begun
      <3>6. Head(t.todo) # "copied"
        BY <3>3, <3>4
      <3>7. SameNotes(k, t) /\ t.from = k.from /\ t.alone = k.alone /\ source' = source
            /\ edit' = edit
        BY <2>1
      <3> HIDE DEF k, t
      <3>8. /\ t.heard \in (0..edit) \cup {None} /\ t.from \in (0..edit) \cup {None}
            /\ (t.heard # None /\ ~(t.differs /\ (t.events \/ t.told)))
               => t.from # None /\ t.heard <= t.from
            /\ t.alone /\ t.from # None => source' = t.from \/ (source' = Mixed /\ t.from < edit)
        BY <3>5, <3>7 DEF SameNotes, SameTidings, CopyOf
      <3>9. QED
        BY <3>3, <3>6, <3>7, <3>8 DEF Watched, At, None, Mixed, CopyOf, t
    <2>7. QED
      BY <2>3, <2>4, <2>5, <2>6 DEF Private, Own
  <1>4. QED
    BY <1>2, <1>3

\* Who waits for a job is at a request, and works.
LEMMA AskersWork ==
    ASSUME CmdPlotted, Awaited, jobs \subseteq Job, NEW j \in jobs, NEW c \in j.by
    PROVE  /\ c \in Clients /\ j.by = {c} /\ Head(cmd[c].todo) \in Asks
           /\ Working(c) /\ cmd[c].kind \in RunKinds
           /\ Head(cmd[c].todo) = j.op \/ (j.op = "start" /\ Head(cmd[c].todo) = "restart")
           /\ j.op = "stop" => j.rest = Subject(cmd[c])
           /\ \A i \in jobs : c \in i.by => i = j
  <1>1. c \in Clients /\ j.op \in Asks
    BY DEF Job
  <1>2. /\ j.by = {c} /\ (\A i \in jobs : c \in i.by => i = j)
        /\ Head(cmd[c].todo) = j.op \/ (j.op = "start" /\ Head(cmd[c].todo) = "restart")
        /\ j.op = "stop" => j.rest = Subject(cmd[c])
    BY DEF Awaited, At
  <1>3. Head(cmd[c].todo) \in Asks
    BY <1>1, <1>2 DEF Asks
  <1>4. cmd[c].kind \in RunKinds
    BY <1>1, <1>3, KindOfStep DEF CmdPlotted, Asks
  <1>5. QED
    BY <1>1, <1>2, <1>3, <1>4 DEF Working, At, Asks

\* An answer on its way through the clients.
LEMMA AnsweredCmd ==
    ASSUME CmdPlotted, Awaited, jobs \subseteq Job, NEW j \in jobs, NEW ok \in BOOLEAN,
           Answered(j, ok)
    PROVE  /\ CmdPlotted' /\ jobs' = jobs \ {j}
           /\ \A b \in Clients : b \notin j.by => cmd'[b] = cmd[b]
           /\ \A b \in Clients : b \in j.by =>
                 /\ cmd'[b] = IF ok THEN Then(cmd[b]) ELSE CallFailed(cmd[b])
                 /\ Answers(cmd[b], cmd'[b])
  <1> DEFINE g(b) == IF b \notin j.by THEN cmd[b]
                     ELSE IF ok THEN Then(cmd[b]) ELSE CallFailed(cmd[b])
  <1>1. cmd' = [b \in Clients |-> g(b)] /\ jobs' = jobs \ {j}
    BY DEF Answered
  <1>2. ASSUME NEW b \in Clients
        PROVE  /\ Plotted(g(b))
               /\ b \notin j.by => g(b) = cmd[b]
               /\ b \in j.by => /\ g(b) = IF ok THEN Then(cmd[b]) ELSE CallFailed(cmd[b])
                                /\ Answers(cmd[b], g(b))
    <2>1. Plotted(cmd[b])
      BY DEF CmdPlotted
    <2>2. Answers(cmd[b], Then(cmd[b])) /\ Answers(cmd[b], CallFailed(cmd[b]))
      BY <2>1, ThenAnswers, FailedAnswers
    <2>3. CASE b \notin j.by
      <3>1. g(b) = cmd[b]
        BY <2>3
      <3>2. QED
        BY <2>1, <2>3, <3>1
    <2>4. CASE b \in j.by
      <3>1. g(b) = IF ok THEN Then(cmd[b]) ELSE CallFailed(cmd[b])
        BY <2>4
      <3>2. Answers(cmd[b], g(b))
        BY <2>2, <3>1
      <3>3. QED
        BY <2>4, <3>1, <3>2 DEF Answers
    <2>5. QED
      BY <2>3, <2>4
  <1>3. \A b \in Clients : cmd'[b] = g(b)
    BY <1>1
  <1> HIDE DEF g
  <1>4. CmdPlotted'
    <2>1. cmd' \in [Clients -> Command]
      BY <1>1, <1>2 DEF Plotted
    <2>2. QED
      BY <1>2, <1>3, <2>1 DEF CmdPlotted, Plotted, OnCourse
  <1>5. QED
    BY <1>1, <1>2, <1>3, <1>4

\* Nobody forgets a save when it is answered.
LEMMA AnswersGuarded ==
    ASSUME NEW k, Plotted(k), NEW t, Answers(k, t), Head(k.todo) \in Asks \cup {"install"},
           Guarded(k.todo)
    PROVE  Guarded(t.todo)
  <1>1. CASE t.kind = "none"
    <2>1. t.todo = <<"idle">>
      BY <1>1 DEF Answers, Plotted, OnCourse
    <2>2. QED
      BY <2>1, IdleGuarded
  <1>2. CASE t.kind # "none"
    <2>1. t.todo = Then(k).todo
      BY <1>2 DEF Answers
    <2>2. QED
      BY <2>1, ThenMoves DEF Moved, Asks
  <1>3. QED
    BY <1>1, <1>2

\* Who shares the run when commands get answers: who waits for a job that is
\* left does not, and no command starts to work.
LEMMA AnswersShare ==
    ASSUME CmdPlotted, Awaited, AloneIsAlone, StartsAreListed, jobs \subseteq Job,
           CmdPlotted', jobs' \subseteq Job, UNCHANGED <<worker, localVars>>,
           \A i \in jobs' : \E j \in jobs :
              i.by \in {j.by, {}} /\ i.op = j.op /\ i.rest = j.rest /\ (i.by = {} \/ i = j),
           \A b \in Clients :
              \/ cmd'[b] = cmd[b]
              \/ /\ \A i \in jobs' : b \notin i.by
                 /\ \/ cmd'[b] = Idle
                    \/ /\ Head(cmd[b].todo) \in Asks \cup {"install"}
                       /\ Answers(cmd[b], cmd'[b]),
           \A b \in Clients : Undisturbed(b) /\ Undisturbed(b)' =>
              \A i \in jobs' : i.by = {b} \/ (i.by = {} /\ i.op = "stop")
    PROVE  Awaited' /\ AloneIsAlone' /\ StartsAreListed'
  <1>2. Awaited'
    <2>1. SUFFICES ASSUME NEW i \in jobs', NEW c \in i.by
                   PROVE  /\ i.by = {c}
                          /\ \A h \in jobs' : c \in h.by => h = i
                          /\ At(c, i.op)' \/ (i.op = "start" /\ At(c, "restart")')
                          /\ i.op = "stop" => i.rest = Subject(cmd'[c])
      BY DEF Awaited, Subject
    <2>2. i \in jobs
      BY <2>1
    <2>3. c \in Clients
      BY <2>2 DEF Job
    <2>4. cmd'[c] = cmd[c]
      BY <2>1, <2>3
    <2>5. /\ i.by = {c} /\ (\A h \in jobs : c \in h.by => h = i)
          /\ At(c, i.op) \/ (i.op = "start" /\ At(c, "restart"))
          /\ i.op = "stop" => i.rest = Subject(cmd[c])
      BY <2>1, <2>2 DEF Awaited
    <2>6. \A h \in jobs' : c \in h.by => h \in jobs
      BY <2>1
    <2>7. QED
      BY <2>4, <2>5, <2>6 DEF At
  <1>3. ASSUME NEW d \in Clients, Working(d)' PROVE Working(d)
    <2>1. CASE cmd'[d] = cmd[d]
      BY <1>3, <2>1 DEF Working, At
    <2>2. CASE Head(cmd[d].todo) \in Asks \cup {"install"}
      <3>1. cmd[d].kind \in RunKinds
        BY <2>2, KindOfStep DEF CmdPlotted, Asks
      <3>2. QED
        BY <2>2, <3>1 DEF Working, At, Asks
    <2>3. cmd'[d] # Idle
      BY <1>3, IdleFields DEF Working, RunKinds
    <2>4. QED
      BY <2>1, <2>2, <2>3
  <1>4. AloneIsAlone'
    <2>1. SUFFICES ASSUME NEW b \in Clients, Undisturbed(b)'
                   PROVE  /\ \A d \in Clients \ {b} : ~Working(d)'
                          /\ \A j \in jobs' : j.by = {b} \/ (j.by = {} /\ j.op = "stop")
      BY DEF AloneIsAlone
    <2>2. Undisturbed(b)
      <3>1. CASE cmd'[b] = cmd[b]
        BY <2>1, <3>1 DEF Undisturbed
      <3>2. CASE Answers(cmd[b], cmd'[b])
        BY <2>1, <3>2 DEF Undisturbed, Answers, RunKinds
      <3>3. cmd'[b] # Idle
        BY <2>1, IdleFields DEF Undisturbed, RunKinds
      <3>4. QED
        BY <3>1, <3>2, <3>3
    <2>3. \A d \in Clients \ {b} : ~Working(d)
      BY <2>2 DEF AloneIsAlone
    <2>4. QED
      BY <1>3, <2>1, <2>2, <2>3
  <1>5. StartsAreListed'
    <2>1. \A b \in Clients : Guarded(cmd[b].todo) => Guarded(cmd'[b].todo)
      BY AnswersGuarded, IdleFields, IdleGuarded DEF CmdPlotted
    <2>2. \A i \in jobs' : i.op \in Starts => \E j \in jobs : j.op \in Starts
      OBVIOUS
    <2>3. QED
      BY <2>1, <2>2, ListedStays
  <1>6. QED
    BY <1>2, <1>4, <1>5

\* What holds of all commands.
Shared ==
    /\ CmdPlotted /\ jobs \subseteq Job /\ Awaited /\ AloneIsAlone
    /\ StartsAreListed /\ \A b \in Clients : Private(b)

\* The daemon is done with a job.
LEMMA AnsweredShared ==
    ASSUME Shared, NEW j \in jobs, NEW ok \in BOOLEAN, Answered(j, ok),
           UNCHANGED <<worker, edit, localVars, source>>,
           \A b \in Clients \ j.by : Undisturbed(b) => Kept(b),
           \A b \in j.by : Relies(b) => Result(b)
    PROVE  Shared'
  <1>1. /\ CmdPlotted /\ jobs \subseteq Job /\ Awaited /\ AloneIsAlone
        /\ StartsAreListed /\ \A b \in Clients : Private(b)
    BY DEF Shared
  <1>2. /\ CmdPlotted' /\ jobs' = jobs \ {j}
        /\ \A b \in Clients : b \notin j.by => cmd'[b] = cmd[b]
        /\ \A b \in Clients : b \in j.by => Answers(cmd[b], cmd'[b])
    BY <1>1, AnsweredCmd
  <1>3. \A b \in j.by : /\ Head(cmd[b].todo) \in Asks /\ b \in Clients
                        /\ \A i \in jobs' : b \notin i.by
    BY <1>1, <1>2, AskersWork
  <1>4. Awaited' /\ AloneIsAlone' /\ StartsAreListed' /\ jobs' \subseteq Job
    <2>1. (\A i \in jobs' : i \in jobs) /\ jobs' \subseteq Job
      BY <1>1, <1>2
    <2>2. \A b \in Clients :
              \/ cmd'[b] = cmd[b]
              \/ /\ \A i \in jobs' : b \notin i.by
                 /\ \/ cmd'[b] = Idle
                    \/ /\ Head(cmd[b].todo) \in Asks \cup {"install"}
                       /\ Answers(cmd[b], cmd'[b])
      BY <1>2, <1>3
    <2>3. \A b \in Clients : Undisturbed(b) =>
              \A i \in jobs' : i.by = {b} \/ (i.by = {} /\ i.op = "stop")
      BY <1>1, <2>1 DEF AloneIsAlone
    <2>4. QED
      BY <1>1, <1>2, <2>1, <2>2, <2>3, AnswersShare
  <1>5. ASSUME NEW b \in Clients PROVE Private(b)'
    <2>1. CASE b \in j.by
      BY <1>1, <1>2, <1>3, <2>1, AnsweredPrivate
    <2>2. CASE b \notin j.by
      <3>1. cmd'[b] = cmd[b] /\ Alike(b)
        BY <1>2, <2>2 DEF Alike, SameNotes, SameTidings
      <3>2. Undisturbed(b)' => Kept(b)
        BY <2>2, <3>1 DEF Undisturbed
      <3>3. QED
        BY <1>1, <1>2, <3>1, <3>2, OthersKeepClaims
    <2>3. QED
      BY <2>1, <2>2
  <1>6. QED
    BY <1>2, <1>4, <1>5 DEF Shared

(***************************************************************************)
(* The daemon's steps                                                      *)
(***************************************************************************)

\* Next to an undisturbed command every other job is a stop that was given up.
LEMMA AloneJobs ==
    ASSUME Shared, NEW j \in jobs, NEW b \in Clients, Undisturbed(b)
    PROVE  b \in j.by \/ (j.by = {} /\ j.op = "stop")
  BY DEF Shared, AloneIsAlone

\* setup or build is done.
LEMMA DoneShared ==
    ASSUME Shared, TypeOK, NEW j \in jobs, CommandDone(j),
           UNCHANGED <<worker, edit, localVars>>
    PROVE  Shared'
  <1>1. /\ j.op \in {"setup", "build"} /\ Answered(j, TRUE) /\ UNCHANGED <<source, alive>>
        /\ made' = [made EXCEPT ![j.op] = IF j.clean THEN source ELSE Mixed]
    BY DEF CommandDone
  <1>2. ASSUME NEW b \in Clients \ j.by, Undisturbed(b) PROVE Kept(b)
    BY <1>1, <1>2, AloneJobs
  <1>3. ASSUME NEW b \in j.by, Relies(b) PROVE Result(b)
    <2>1. /\ b \in Clients /\ j.by = {b} /\ Head(cmd[b].todo) = j.op
      BY <1>1, AskersWork DEF Shared
    <2>2. /\ cmd'[b] = Then(cmd[b]) /\ Answers(cmd[b], cmd'[b])
      BY <1>1, <2>1, AnsweredCmd DEF Shared
    <2>3. cmd[b].kind = cmd'[b].kind /\ Plotted(cmd[b])
      BY <1>3, <2>1, <2>2 DEF Relies, Answers, Shared, CmdPlotted
    <2>4. cmd[b].kind \in {"deploy", "up"}
      BY <1>1, <1>3, <2>1, <2>3, KindOfStep DEF Relies
    <2>5. Deployed(b)
      BY <1>3, <2>1, <2>4 DEF Shared, Private, Own, Deploys, Relies, Undisturbed
    <2>6. j.clean
      BY <1>1, <2>1, <2>5 DEF Deployed
    <2>7. made' = [made EXCEPT ![j.op] = source]
      BY <1>1, <2>6
    <2>8. made \in [setup : Contents, build : Contents]
      BY DEF TypeOK
    <2>9. /\ made'.setup = IF j.op = "setup" THEN source ELSE made.setup
          /\ made'.build = IF j.op = "build" THEN source ELSE made.build
      <3>1. CASE j.op = "setup"
        <4>1. made' = [made EXCEPT !.setup = source]
          BY <2>7, <3>1
        <4>2. QED
          BY <2>8, <3>1, <4>1
      <3>2. CASE j.op = "build"
        <4>1. made' = [made EXCEPT !.build = source]
          BY <2>7, <3>2
        <4>2. QED
          BY <2>8, <3>2, <4>1
      <3>3. QED
        BY <1>1, <3>1, <3>2
    <2>10. QED
      BY <1>1, <2>1, <2>9 DEF Result
  <1>4. QED
    BY <1>1, <1>2, <1>3, AnsweredShared

\* A stop takes down what it is about.
LEMMA StopsDown ==
    ASSUME TypeOK, NEW subject \in SUBSET Services, StopAll(ToStop(subject))
    PROVE  /\ \A s \in subject : alive'[s] = Down
           /\ \A s \in Services : alive'[s] = alive[s] \/ alive'[s] = Down
  <1>1. \A s \in Services : alive[s] # Down => s \in inState
    BY DEF TypeOK
  <1>2. \A s \in Services : alive'[s] = IF s \in ToStop(subject) THEN Down ELSE alive[s]
    BY DEF StopAll
  <1>3. CASE subject = Services
    BY <1>1, <1>2, <1>3 DEF ToStop
  <1>4. CASE subject # Services
    BY <1>2, <1>4 DEF ToStop
  <1>5. QED
    BY <1>3, <1>4

\* stop is done, or the first half of restart.
LEMMA StopShared ==
    ASSUME Shared, TypeOK, NEW j \in jobs, StopDone(j), UNCHANGED <<worker, edit, localVars>>
    PROVE  Shared' /\ \A s \in Services : alive'[s] = alive[s] \/ alive'[s] = Down
  <1>1. /\ j.op \in {"stop", "restart"} /\ StopAll(ToStop(j.rest)) /\ UNCHANGED <<source, made>>
        /\ j \in Job /\ j.rest \in SUBSET Services
    BY DEF StopDone, Shared, Job
  <1>2. /\ \A s \in j.rest : alive'[s] = Down
        /\ \A s \in Services : alive'[s] = alive[s] \/ alive'[s] = Down
    BY <1>1, StopsDown
  <1>3. CASE j.op = "stop"
    <2>1. Answered(j, TRUE)
      BY <1>3 DEF StopDone
    <2>2. jobs' = jobs \ {j}
      BY <2>1 DEF Answered
    <2>3. \A b \in Clients : Kept(b)
      BY <1>1, <1>2, <2>2 DEF Kept
    <2>4. ASSUME NEW b \in j.by PROVE Result(b)
      <3>1. Head(cmd[b].todo) = "stop" /\ j.rest = Subject(cmd[b])
        BY <1>3, AskersWork DEF Shared
      <3>2. QED
        BY <1>1, <1>2, <3>1 DEF Result
    <2>5. QED
      BY <1>1, <1>2, <2>1, <2>3, <2>4, AnsweredShared
  <1>4. CASE j.op = "restart"
    <2> DEFINE n == [j EXCEPT !.op = "start"]
    <2>1. jobs' = (jobs \ {j}) \cup {n} /\ cmd' = cmd
      BY <1>4 DEF StopDone
    <2>2. n \in Job /\ n.by = j.by /\ n.op = "start" /\ n.rest = j.rest
      BY <1>1 DEF Job, Asks
    <2> HIDE DEF n
    <2>3. CmdPlotted' /\ jobs' \subseteq Job
      BY <2>1, <2>2 DEF Shared, CmdPlotted, Plotted, OnCourse
    <2>4. Awaited'
      <3>1. SUFFICES ASSUME NEW i \in jobs', NEW c \in i.by
                     PROVE  /\ i.by = {c}
                            /\ \A h \in jobs' : c \in h.by => h = i
                            /\ At(c, i.op) \/ (i.op = "start" /\ At(c, "restart"))
                            /\ i.op = "stop" => i.rest = Subject(cmd[c])
        BY <2>1 DEF Awaited, Subject, At
      <3>2. CASE i = n
        <4>1. j.by = {c} /\ \A h \in jobs : c \in h.by => h = j
          BY <2>2, <3>1, <3>2 DEF Shared, Awaited
        <4>2. At(c, "restart")
          BY <1>4, <2>2, <3>1, <3>2 DEF Shared, Awaited
        <4>3. QED
          BY <2>1, <2>2, <3>2, <4>1, <4>2
      <3>3. CASE i \in jobs /\ i # j
        <4>1. /\ i.by = {c} /\ \A h \in jobs : c \in h.by => h = i
              /\ At(c, i.op) \/ (i.op = "start" /\ At(c, "restart"))
              /\ i.op = "stop" => i.rest = Subject(cmd[c])
          BY <3>1, <3>3 DEF Shared, Awaited
        <4>2. c \notin n.by
          BY <2>2, <3>3, <4>1
        <4>3. QED
          BY <2>1, <4>1, <4>2
      <3>4. QED
        BY <2>1, <3>2, <3>3
    <2>5. AloneIsAlone'
      <3>1. SUFFICES ASSUME NEW b \in Clients, Undisturbed(b)
                     PROVE  /\ \A d \in Clients \ {b} : ~Working(d)
                            /\ \A i \in jobs' : i.by = {b} \/ (i.by = {} /\ i.op = "stop")
        BY <2>1 DEF AloneIsAlone, Undisturbed, Working, At
      <3>2. /\ \A d \in Clients \ {b} : ~Working(d)
            /\ \A i \in jobs : i.by = {b} \/ (i.by = {} /\ i.op = "stop")
        BY <3>1 DEF Shared, AloneIsAlone
      <3>3. QED
        BY <1>4, <2>1, <2>2, <3>2
    <2>6. StartsAreListed'
      <3>1. \A i \in jobs' : i.op \in Starts => \E h \in jobs : h.op \in Starts
        BY <1>4, <2>1, <2>2 DEF Starts
      <3>2. QED
        BY <2>1, <3>1, ListedStays DEF Shared
    <2>7. ASSUME NEW b \in Clients PROVE Private(b)'
      <3>1. Alike(b)
        BY <2>1 DEF Alike, SameNotes, SameTidings
      <3>2. Kept(b)
        BY <1>1, <1>2, <2>1, <2>2 DEF Kept
      <3>3. QED
        BY <2>3, <3>1, <3>2, OthersKeepClaims DEF Shared
    <2>8. QED
      BY <1>2, <2>3, <2>4, <2>5, <2>6, <2>7 DEF Shared
  <1>5. QED
    BY <1>1, <1>3, <1>4

\* A job fails.
LEMMA FailsShared ==
    ASSUME Shared, TypeOK, NEW j \in jobs, JobFails(j), UNCHANGED <<worker, edit, localVars>>
    PROVE  Shared' /\ UNCHANGED alive
  <1>1. Answered(j, FALSE) /\ UNCHANGED <<source, made, alive>>
    BY DEF JobFails, runVars
  <1>2. jobs' = jobs \ {j}
    BY <1>1 DEF Answered
  <1>3. \A b \in Clients : Kept(b)
    BY <1>1, <1>2 DEF Kept
  <1>4. ASSUME NEW b \in j.by, Relies(b) PROVE Result(b)
    <2>1. b \in Clients /\ Plotted(cmd[b])
      BY AskersWork DEF Shared, CmdPlotted
    <2>2. cmd'[b] = CallFailed(cmd[b])
      BY <1>1, <2>1, AnsweredCmd DEF Shared
    <2>3. /\ cmd'[b].kind # "none" => Ignores(cmd[b])
          /\ cmd'[b].kind # "none" /\ cmd'[b].stopped => ~StopFails(cmd[b])
      BY <2>1, <2>2, FailedAnswers
    <2>4. Ignores(cmd[b]) /\ (cmd'[b].stopped => ~StopFails(cmd[b]))
      BY <1>4, <2>3 DEF Relies
    <2>5. Head(cmd[b].todo) = "stop"
      BY <2>4 DEF Ignores
    <2>6. QED
      BY <1>1, <2>4, <2>5 DEF Result, StopFails
  <1>5. QED
    BY <1>1, <1>3, <1>4, AnsweredShared

\* How far a deploy or services up is when it asks.
LEMMA AheadOf ==
    ASSUME NEW k, Plotted(k), k.kind \in {"deploy", "up"}
    PROVE  /\ Ahead(k) \in Nat /\ Head(k.todo) # "restart"
           /\ Head(k.todo) = "start" => Ahead(k) = 2
           /\ Head(k.todo) = "build" => Ahead(k) = 4
           /\ Head(k.todo) = "setup" => Ahead(k) = 5
  <1> DEFINE h == Head(k.todo)
             n == Len(k.todo)
             a == Ahead(k)
  <1>1. CASE k.kind = "deploy"
    <2>1. AtDeploy(h, n) /\ a = n
      BY <1>1, DeployCourse DEF InDeploy, Ahead
    <2> HIDE DEF h, n, a
    <2>2. a \in Nat /\ h # "restart" /\ (h = "start" => a = 2) /\ (h = "build" => a = 4)
          /\ (h = "setup" => a = 5)
      BY <2>1 DEF AtDeploy
    <2>3. QED
      BY <2>2 DEF h, a
  <1>2. CASE k.kind = "up"
    <2>1. AtUp(h, n) /\ a = n - 1
      BY <1>2, UpCourse DEF InUp, Ahead
    <2> HIDE DEF h, n, a
    <2>2. a \in Nat /\ h # "restart" /\ (h = "start" => a = 2) /\ (h = "build" => a = 4)
          /\ (h = "setup" => a = 5)
      BY <2>1 DEF AtUp
    <2>3. QED
      BY <2>2 DEF h, a
  <1>3. QED
    BY <1>1, <1>2

\* The claims of a command that waits, and of which the request goes on.
LEMMA WaitsPrivate ==
    ASSUME CmdPlotted, NEW c \in Clients, Private(c), Head(cmd[c].todo) \in Asks,
           cmd'[c] = cmd[c], UNCHANGED <<source, worker, edit>>,
           \A i \in jobs' : c \in i.by /\ i.op \in {"setup", "build"} /\ Deployed(c) => i.clean,
           made'.setup = made.setup \/ Head(cmd[c].todo) = "setup",
           made'.build = made.build \/ Head(cmd[c].todo) \in {"setup", "build"},
           \A s \in Services : \/ alive'[s] = alive[s]
                               \/ /\ Head(cmd[c].todo) \in Starts
                                  /\ alive'[s] = [from |-> source, prepared |-> Prepared]
    PROVE  cmd[c].alone => Private(c)'
  <1> DEFINE k == cmd[c]
             n == Ahead(k)
             h == Head(k.todo)
  <1>1. SUFFICES ASSUME k.alone PROVE Private(c)'
    OBVIOUS
  <1>2. UnsavedIsDown(c)' /\ CleanedUp(c)'
    BY DEF UnsavedIsDown, CleanedUp, At, Asks
  <1>3. k.kind = "watch" => Watched(c)'
    <2>1. UNCHANGED <<edit, source>> /\ cmd'[c] = k
      OBVIOUS
    <2>2. k.kind = "watch" => Watched(c)
      BY DEF Private, Own
    <2>3. Watched(c) => Watched(c)'
      BY <2>1 DEF Watched, At, CopyOf
    <2>4. QED
      BY <2>2, <2>3
  <1>4. ASSUME k.kind \in {"deploy", "up"} PROVE Deploys(c)'
    <2>1. Deploys(c) /\ Deployed(c)
      BY <1>1, <1>4 DEF Private, Own, Deploys
    <2>2. /\ n \in Nat /\ (h = "start" => n = 2) /\ (h = "build" => n = 4) /\ (h = "setup" => n = 5)
          /\ h # "restart"
      BY <1>4, AheadOf DEF CmdPlotted
    <2>3. /\ k.from \in Versions => source = k.from
          /\ n <= 4 => made.setup = source
          /\ n <= 3 => made.build = source
          /\ (n \in {1, 2} /\ k.stopped /\ k.from \in Versions)
             => \A s \in k.services :
                   alive[s] # Down => alive[s] = [from |-> k.from, prepared |-> TRUE]
      BY <2>1 DEF Deployed, At, Asks
    <2>4. Deployed(c)' <=>
             /\ k.from \in Versions' /\ h # "copied" => source' = k.from
             /\ n <= 4 => made'.setup = source'
             /\ n <= 3 => made'.build = source'
             /\ \A j \in jobs' : c \in j.by /\ j.op \in {"setup", "build"} => j.clean
             /\ (n \in {1, 2} /\ k.stopped /\ k.from \in Versions')
                => \A s \in k.services :
                      alive'[s] # Down' => alive'[s] = [from |-> k.from, prepared |-> TRUE]
      BY DEF Deployed, At, Ahead
    <2>5. Versions' = Versions /\ Down' = Down /\ k.services \subseteq Services
      BY DEF Versions, Down, None, CmdPlotted, Command
    <2>6. /\ made'.setup = made.setup \/ h = "setup"
          /\ made'.build = made.build \/ h \in {"setup", "build"}
          /\ \A s \in Services : \/ alive'[s] = alive[s]
                                 \/ /\ h \in Starts
                                    /\ alive'[s] = [from |-> source, prepared |-> Prepared]
      OBVIOUS
    <2>7. \A j \in jobs' : c \in j.by /\ j.op \in {"setup", "build"} => j.clean
      BY <2>1
    <2> HIDE DEF k, n, h
    <2>8. (n <= 4 => made'.setup = source) /\ (n <= 3 => made'.build = source)
      BY <2>2, <2>3, <2>6
    <2>9. ASSUME n \in {1, 2}, k.stopped, k.from \in Versions
          PROVE  \A s \in k.services :
                    alive'[s] # Down => alive'[s] = [from |-> k.from, prepared |-> TRUE]
      <3>1. Prepared = TRUE /\ source = k.from
        BY <2>3, <2>9 DEF Prepared
      <3>2. \A s \in Services : \/ alive'[s] = alive[s]
                                \/ alive'[s] = [from |-> k.from, prepared |-> TRUE]
        BY <2>6, <3>1
      <3>3. \A s \in k.services :
               alive[s] # Down => alive[s] = [from |-> k.from, prepared |-> TRUE]
        BY <2>3, <2>9
      <3>4. QED
        BY <2>5, <3>2, <3>3
    <2>10. Deployed(c)'
      BY <2>3, <2>4, <2>5, <2>7, <2>8, <2>9
    <2>11. QED
      BY <2>1, <2>10 DEF Deploys, At, None
  <1>5. QED
    BY <1>2, <1>3, <1>4 DEF Private, Own

\* A service starts.
LEMMA StartShared ==
    ASSUME Shared, TypeOK, NEW j \in jobs, StartOne(j), UNCHANGED <<worker, edit, localVars>>
    PROVE  Shared' /\ RunningIsListed'
  <1>1. PICK s \in j.rest :
           /\ alive' = [alive EXCEPT ![s] =
                           IF @ # Down THEN @ ELSE [from |-> source, prepared |-> Prepared]]
           /\ IF j.rest = {s} THEN Answered(j, TRUE)
              ELSE jobs' = (jobs \ {j}) \cup {[j EXCEPT !.rest = @ \ {s}]} /\ UNCHANGED cmd
    BY DEF StartOne
  <1>2. j.op = "start" /\ UNCHANGED <<source, made>> /\ j \in Job
    BY DEF StartOne, Shared
  <1>3. \A r \in Services : \/ alive'[r] = alive[r]
                            \/ alive'[r] = [from |-> source, prepared |-> Prepared]
    BY <1>1 DEF TypeOK
  <1>4. RunningIsListed'
    <2>1. ~(worker # "mirror" /\ ~unlisted /\ ~listed)
      BY <1>2 DEF Shared, StartsAreListed, Starts
    <2>2. QED
      BY <2>1 DEF RunningIsListed, localVars
  <1>5. CASE j.rest = {s}
    <2>1. Answered(j, TRUE)
      BY <1>1, <1>5
    <2>2. ASSUME NEW b \in Clients \ j.by, Undisturbed(b) PROVE Kept(b)
      BY <1>2, <2>2, AloneJobs
    <2>3. ASSUME NEW b \in j.by, Relies(b) PROVE Result(b)
      <3>1. /\ b \in Clients /\ j.by = {b} /\ Plotted(cmd[b])
            /\ Head(cmd[b].todo) \in {"start", "restart"}
        BY <1>2, AskersWork DEF Shared, CmdPlotted
      <3>2. Answers(cmd[b], cmd'[b])
        BY <2>1, <3>1, AnsweredCmd DEF Shared
      <3>3. cmd[b].kind = cmd'[b].kind
        BY <2>3, <3>2 DEF Relies, Answers
      <3>4. Head(cmd[b].todo) # "restart"
        BY <2>3, <3>1, <3>3, KindOfStep DEF Relies
      <3>5. QED
        BY <1>2, <1>3, <3>1, <3>4 DEF Result
    <2>4. QED
      BY <1>2, <1>4, <2>1, <2>2, <2>3, AnsweredShared
  <1>6. CASE j.rest # {s}
    <2> DEFINE n == [j EXCEPT !.rest = @ \ {s}]
    <2>1. jobs' = (jobs \ {j}) \cup {n} /\ cmd' = cmd
      BY <1>1, <1>6
    <2>2. n \in Job /\ n.by = j.by /\ n.op = "start"
      BY <1>2 DEF Job
    <2> HIDE DEF n
    <2>3. CmdPlotted' /\ jobs' \subseteq Job
      BY <2>1, <2>2 DEF Shared, CmdPlotted, Plotted, OnCourse
    <2>4. Awaited'
      <3>1. SUFFICES ASSUME NEW i \in jobs', NEW c \in i.by
                     PROVE  /\ i.by = {c}
                            /\ \A h \in jobs' : c \in h.by => h = i
                            /\ At(c, i.op) \/ (i.op = "start" /\ At(c, "restart"))
                            /\ i.op = "stop" => i.rest = Subject(cmd[c])
        BY <2>1 DEF Awaited, Subject, At
      <3>2. CASE i = n
        <4>1. j.by = {c} /\ (\A h \in jobs : c \in h.by => h = j)
              /\ (At(c, j.op) \/ (j.op = "start" /\ At(c, "restart")))
          BY <2>2, <3>1, <3>2 DEF Shared, Awaited
        <4>2. QED
          BY <1>2, <2>1, <2>2, <3>2, <4>1
      <3>3. CASE i \in jobs /\ i # j
        <4>1. /\ i.by = {c} /\ \A h \in jobs : c \in h.by => h = i
              /\ At(c, i.op) \/ (i.op = "start" /\ At(c, "restart"))
              /\ i.op = "stop" => i.rest = Subject(cmd[c])
          BY <3>1, <3>3 DEF Shared, Awaited
        <4>2. c \notin n.by
          BY <2>2, <3>3, <4>1
        <4>3. QED
          BY <2>1, <4>1, <4>2
      <3>4. QED
        BY <2>1, <3>2, <3>3
    <2>5. AloneIsAlone'
      <3>1. SUFFICES ASSUME NEW b \in Clients, Undisturbed(b)
                     PROVE  /\ \A d \in Clients \ {b} : ~Working(d)
                            /\ \A i \in jobs' : i.by = {b} \/ (i.by = {} /\ i.op = "stop")
        BY <2>1 DEF AloneIsAlone, Undisturbed, Working, At
      <3>2. /\ \A d \in Clients \ {b} : ~Working(d)
            /\ \A i \in jobs : i.by = {b} \/ (i.by = {} /\ i.op = "stop")
        BY <3>1 DEF Shared, AloneIsAlone
      <3>3. QED
        BY <1>2, <2>1, <2>2, <3>2
    <2>6. StartsAreListed'
      <3>1. \A i \in jobs' : i.op \in Starts => \E h \in jobs : h.op \in Starts
        BY <1>2, <2>1, <2>2
      <3>2. QED
        BY <2>1, <3>1, ListedStays DEF Shared
    <2>7. ASSUME NEW b \in Clients PROVE Private(b)'
      <3>1. CASE ~Undisturbed(b)
        <4>1. Alike(b) /\ ~Undisturbed(b)'
          BY <2>1, <3>1 DEF Alike, Undisturbed, SameNotes, SameTidings
        <4>2. QED
          BY <2>3, <4>1, OthersKeepClaims DEF Shared
      <3>2. CASE Undisturbed(b)
        <4>1. b \in j.by
          BY <1>2, <3>2, AloneJobs
        <4>2. Head(cmd[b].todo) \in Starts /\ \A i \in jobs : b \in i.by => i = j
          BY <1>2, <4>1, AskersWork DEF Shared, Starts
        <4>3. \A i \in jobs' : b \in i.by => i.op = "start"
          BY <2>1, <2>2, <4>2
        <4>4. Head(cmd[b].todo) \in Asks
          BY <4>2 DEF Starts, Asks
        <4>5. cmd[b].alone => Private(b)'
          BY <1>2, <1>3, <2>1, <4>2, <4>3, <4>4, WaitsPrivate DEF Shared
        <4>6. QED
          BY <3>2, <4>5 DEF Undisturbed
      <3>3. QED
        BY <3>1, <3>2
    <2>8. QED
      BY <1>4, <2>3, <2>4, <2>5, <2>6, <2>7 DEF Shared
  <1>7. QED
    BY <1>5, <1>6

(***************************************************************************)
(* Requests, and what else happens                                         *)
(***************************************************************************)

\* The jobs after a request: those before, which it may have spoilt, and it.
LEMMA RequestJobs ==
    ASSUME Shared, TypeOK, NEW c \in Clients, Request(c)
    PROVE  \E n \in Job :
              /\ n.by = {c} /\ n.op = Head(cmd[c].todo)
              /\ n.op = "stop" => n.rest = Subject(cmd[c])
              /\ n.clean = (n.op \notin {j.op : j \in jobs})
              /\ n \in jobs'
              /\ \A i \in jobs' : i = n \/ \E j \in jobs :
                    /\ i \in Job /\ i.by = j.by /\ i.op = j.op /\ i.rest = j.rest
                    /\ \E v \in BOOLEAN : i = [j EXCEPT !.clean = v]
              /\ \A g, h \in jobs' : g # n /\ h # n =>
                    \A j \in jobs : g.by = j.by /\ h.by = j.by /\ j.by # {} => g = h
  <1> DEFINE k == cmd[c]
             ask == Head(k.todo)
             makes == ask \in {"setup", "build"}
             v(j) == j.clean /\ ~(makes /\ j.op = ask)
             f(j) == [j EXCEPT !.clean = v(j)]
  <1>1. PICK services \in Subjects(k) :
           jobs' = {f(j) : j \in jobs}
                   \cup {[by |-> {c}, op |-> ask, rest |-> services,
                          clean |-> ask \notin {j.op : j \in jobs}]}
    BY DEF Request
  <1>2. ask \in Asks /\ Plotted(k) /\ jobs \subseteq Job
    BY DEF Request, Shared, CmdPlotted
  <1>3. services \subseteq Services /\ (ask = "stop" => services = Subject(k))
    <2>1. k.services \subseteq Services
      BY <1>2 DEF Plotted, Command
    <2>2. CASE k.kind = "watch"
      <3>1. ask # "stop"
        BY <1>2, <2>2, KindOfStep
      <3>2. QED
        BY <2>1, <2>2, <3>1 DEF Subjects
    <2>3. CASE k.kind # "watch"
      BY <2>1, <2>3 DEF Subjects, Subject
    <2>4. QED
      BY <2>2, <2>3
  <1> DEFINE u == ask \notin {j.op : j \in jobs}
             n == [by |-> {c}, op |-> ask, rest |-> services, clean |-> u]
  <1>4. u \in BOOLEAN
    OBVIOUS
  <1>5. jobs' = {f(j) : j \in jobs} \cup {n}
    BY <1>1
  <1> HIDE DEF u
  <1>6. n \in Job /\ n.by = {c} /\ n.op = ask /\ n.rest = services /\ n.clean = u
    BY <1>2, <1>3, <1>4 DEF Job
  <1>7. \A j \in jobs : /\ v(j) \in BOOLEAN
                        /\ f(j) \in Job /\ f(j).by = j.by /\ f(j).op = j.op /\ f(j).rest = j.rest
    BY <1>2 DEF Job
  <1> HIDE DEF n
  <1>8. ASSUME NEW i \in jobs', i # n
        PROVE  \E j \in jobs : i = f(j)
    BY <1>5, <1>8
  <1> DEFINE Spoilt(i, j) ==
               /\ i \in Job /\ i.by = j.by /\ i.op = j.op /\ i.rest = j.rest
               /\ \E w \in BOOLEAN : i = [j EXCEPT !.clean = w]
  <1>9. \A i \in jobs' : i = n \/ \E j \in jobs : Spoilt(i, j)
    <2>1. SUFFICES ASSUME NEW i \in jobs', i # n PROVE \E j \in jobs : Spoilt(i, j)
      OBVIOUS
    <2>2. PICK j \in jobs : i = f(j)
      BY <1>8, <2>1
    <2>3. i \in Job /\ i.by = j.by /\ i.op = j.op /\ i.rest = j.rest
      BY <1>7, <2>2
    <2>4. i = [j EXCEPT !.clean = v(j)] /\ v(j) \in BOOLEAN
      BY <1>7, <2>2
    <2> HIDE DEF f, v
    <2>5. QED
      BY <2>3, <2>4
  <1>10. ASSUME NEW g \in jobs', NEW h \in jobs', g # n, h # n,
                NEW j \in jobs, g.by = j.by, h.by = j.by, j.by # {}
         PROVE  g = h
    <2>1. PICK x \in jobs : g = f(x)
      BY <1>8, <1>10
    <2>2. PICK y \in jobs : h = f(y)
      BY <1>8, <1>10
    <2>3. x.by = j.by /\ y.by = j.by
      BY <1>7, <1>10, <2>1, <2>2
    <2>4. PICK b \in j.by : TRUE
      BY <1>10
    <2>5. x = y
      BY <2>3, <2>4 DEF Shared, Awaited
    <2>6. QED
      BY <2>1, <2>2, <2>5
  <1>11. n \in jobs' /\ (n.op = "stop" => n.rest = Subject(cmd[c]))
    BY <1>3, <1>5, <1>6
  <1> HIDE DEF f, v
  <1>12. QED
    BY <1>6, <1>9, <1>10, <1>11 DEF u

\* A command asks the daemon.
LEMMA RequestShared ==
    ASSUME Shared, TypeOK, NEW c \in Clients, Request(c)
    PROVE  Shared'
  <1>1. PICK n \in Job :
           /\ n.by = {c} /\ n.op = Head(cmd[c].todo)
           /\ n.op = "stop" => n.rest = Subject(cmd[c])
           /\ n.clean = (n.op \notin {j.op : j \in jobs})
           /\ n \in jobs'
           /\ \A i \in jobs' : i = n \/ \E j \in jobs :
                 /\ i \in Job /\ i.by = j.by /\ i.op = j.op /\ i.rest = j.rest
                 /\ \E v \in BOOLEAN : i = [j EXCEPT !.clean = v]
           /\ \A g, h \in jobs' : g # n /\ h # n =>
                 \A j \in jobs : g.by = j.by /\ h.by = j.by /\ j.by # {} => g = h
    BY RequestJobs
  <1>2. /\ Head(cmd[c].todo) \in Asks /\ Plotted(cmd[c]) /\ \A j \in jobs : c \notin j.by
        /\ UNCHANGED <<worker, edit, source, alive, localVars, cmd>>
    BY DEF Request, Shared, CmdPlotted
  <1>3. Working(c) /\ cmd[c].kind \in RunKinds
    <2>1. cmd[c].kind \in RunKinds
      BY <1>2, KindOfStep DEF Asks
    <2>2. QED
      BY <1>2, <2>1 DEF Working, At, Asks
  <1>4. CmdPlotted' /\ jobs' \subseteq Job
    BY <1>1, <1>2 DEF Shared, CmdPlotted, Plotted, OnCourse
  <1>5. Awaited'
    <2>1. SUFFICES ASSUME NEW i \in jobs', NEW b \in i.by
                   PROVE  /\ i.by = {b}
                          /\ \A h \in jobs' : b \in h.by => h = i
                          /\ At(b, i.op) \/ (i.op = "start" /\ At(b, "restart"))
                          /\ i.op = "stop" => i.rest = Subject(cmd[b])
      BY <1>2 DEF Awaited, Subject, At
    <2>2. CASE i = n
      <3>1. \A h \in jobs' : c \in h.by => h = n
        BY <1>1, <1>2
      <3>2. QED
        BY <1>1, <2>1, <2>2, <3>1 DEF At
    <2>3. CASE i # n
      <3>1. PICK j \in jobs : i.by = j.by /\ i.op = j.op /\ i.rest = j.rest
        BY <1>1, <2>3
      <3>2. /\ j.by = {b} /\ (At(b, j.op) \/ (j.op = "start" /\ At(b, "restart")))
            /\ j.op = "stop" => j.rest = Subject(cmd[b])
            /\ \A h \in jobs : b \in h.by => h = j
        BY <2>1, <3>1 DEF Shared, Awaited
      <3>3. ASSUME NEW h \in jobs', b \in h.by PROVE h = i
        <4>1. h # n
          BY <1>1, <1>2, <3>2, <3>3
        <4>2. PICK g \in jobs : h.by = g.by
          BY <1>1, <4>1
        <4>3. g = j
          BY <3>2, <3>3, <4>2
        <4>4. QED
          BY <1>1, <2>3, <3>1, <3>2, <4>1, <4>2, <4>3
      <3>4. QED
        BY <3>1, <3>2, <3>3
    <2>4. QED
      BY <2>2, <2>3
  <1>6. ASSUME NEW b \in Clients, Undisturbed(b)
        PROVE  b = c /\ (\A d \in Clients \ {b} : ~Working(d))
               /\ \A j \in jobs : j.by = {} /\ j.op = "stop"
    <2>1. /\ \A d \in Clients \ {b} : ~Working(d)
          /\ \A j \in jobs : j.by = {b} \/ (j.by = {} /\ j.op = "stop")
      BY <1>6 DEF Shared, AloneIsAlone
    <2>2. b = c
      BY <1>3, <2>1
    <2>3. QED
      BY <1>2, <2>1, <2>2
  <1>7. AloneIsAlone'
    <2>1. SUFFICES ASSUME NEW b \in Clients, Undisturbed(b)
                   PROVE  /\ \A d \in Clients \ {b} : ~Working(d)
                          /\ \A i \in jobs' : i.by = {b} \/ (i.by = {} /\ i.op = "stop")
      BY <1>2 DEF AloneIsAlone, Undisturbed, Working, At
    <2>2. b = c /\ (\A d \in Clients \ {b} : ~Working(d))
          /\ \A j \in jobs : j.by = {} /\ j.op = "stop"
      BY <1>6, <2>1
    <2>3. QED
      BY <1>1, <2>2
  <1>8. StartsAreListed'
    <2>1. ASSUME Guarded(cmd[c].todo) PROVE n.op \notin Starts
      <3>1. cmd[c].todo \in Seq(StepNames) /\ cmd[c].todo # <<>>
        BY <1>2 DEF Plotted, Command
      <3>2. 1 \in DOMAIN cmd[c].todo /\ Head(cmd[c].todo) = cmd[c].todo[1]
        BY <3>1, HeadStep
      <3>3. cmd[c].todo[1] # "save"
        BY <1>2, <3>2 DEF Asks
      <3>4. \A m \in 1..1 : m = 1
        OBVIOUS
      <3>5. cmd[c].todo[1] \notin Starts
        BY <2>1, <3>2, <3>3, <3>4 DEF Guarded
      <3>6. QED
        BY <1>1, <3>2, <3>5
    <2>2. ASSUME worker # "mirror", ~unlisted, ~listed
          PROVE  \A i \in jobs' : i.op \in Starts => \E j \in jobs : j.op \in Starts
      <3>1. Guarded(cmd[c].todo)
        BY <2>2 DEF Shared, StartsAreListed, Guarded
      <3>2. QED
        BY <1>1, <2>1, <3>1
    <2>3. \A b \in Clients : Guarded(cmd[b].todo) => Guarded(cmd'[b].todo)
      BY <1>2
    <2>4. QED
      BY <1>2, <2>2, <2>3, ListedStays DEF Shared
  <1>9. ASSUME NEW b \in Clients PROVE Private(b)'
    <2>1. CASE ~Undisturbed(b)
      <3>1. Alike(b) /\ ~Undisturbed(b)'
        BY <1>2, <2>1 DEF Alike, Undisturbed, SameNotes, SameTidings
      <3>2. QED
        BY <1>2, <1>4, <3>1, OthersKeepClaims DEF Shared
    <2>2. CASE Undisturbed(b)
      <3>1. b = c /\ \A j \in jobs : j.by = {} /\ j.op = "stop"
        BY <1>6, <2>2
      <3>2. \A i \in jobs' : c \in i.by /\ i.op \in {"setup", "build"} => i.clean
        <4>1. \A i \in jobs' : c \in i.by => i = n
          BY <1>1, <3>1
        <4>2. n.op \in {"setup", "build"} => n.clean
          BY <1>1, <3>1
        <4>3. QED
          BY <4>1, <4>2
      <3>3. made' = IF Head(cmd[c].todo) \in {"setup", "build"}
                    THEN [made EXCEPT ![Head(cmd[c].todo)] = Mixed] ELSE made
        BY DEF Request
      <3>4. made \in [setup : Contents, build : Contents]
        BY DEF TypeOK
      <3>5. /\ made'.setup = made.setup \/ Head(cmd[c].todo) = "setup"
            /\ made'.build = made.build \/ Head(cmd[c].todo) \in {"setup", "build"}
        <4>1. CASE Head(cmd[c].todo) = "build"
          <5>1. made' = [made EXCEPT !.build = Mixed]
            BY <3>3, <4>1
          <5>2. QED
            BY <3>4, <4>1, <5>1
        <4>2. CASE Head(cmd[c].todo) \notin {"setup", "build"}
          BY <3>3, <4>2
        <4>3. QED
          BY <4>1, <4>2
      <3>6. cmd[c].alone => Private(c)'
        BY <1>2, <3>2, <3>5, WaitsPrivate DEF Shared
      <3>7. QED
        BY <2>2, <3>1, <3>6 DEF Undisturbed
    <2>3. QED
      BY <2>1, <2>2
  <1>10. QED
    BY <1>4, <1>5, <1>7, <1>8, <1>9 DEF Shared

(***************************************************************************)
(* Commands that give up, and the daemon's replacement                     *)
(***************************************************************************)

\* What c has asked for goes on without it, and the rest as it was.
LEMMA AbandonedJobs ==
    ASSUME Shared, NEW c \in Clients, jobs' = Abandoned(c)
    PROVE  \A i \in jobs' : \E j \in jobs :
              /\ i \in Job /\ i.by \in {j.by, {}} /\ i.op = j.op /\ i.rest = j.rest
              /\ i.by = {} \/ i = j
              /\ c \notin i.by
              /\ i.by = {} => j.by \in {{}, {c}}
  <1>1. SUFFICES ASSUME NEW j \in jobs, NEW i, i = [j EXCEPT !.by = @ \ {c}]
                 PROVE  /\ i \in Job /\ i.by \in {j.by, {}} /\ i.op = j.op /\ i.rest = j.rest
                        /\ i.by = {} \/ i = j
                        /\ c \notin i.by
                        /\ i.by = {} => j.by \in {{}, {c}}
    BY DEF Abandoned
  <1>2. j \in Job
    BY DEF Shared
  <1>3. i \in Job /\ i.by = j.by \ {c} /\ i.op = j.op /\ i.rest = j.rest
    BY <1>1, <1>2 DEF Job
  <1>4. CASE c \in j.by
    <2>1. j.by = {c}
      BY <1>4 DEF Shared, Awaited
    <2>2. i.by = {}
      BY <1>3, <2>1
    <2>3. QED
      BY <1>3, <2>1, <2>2
  <1>5. CASE c \notin j.by
    <2>1. i.by = j.by
      BY <1>3, <1>5
    <2>2. i = j
      BY <1>1, <1>2, <1>3, <2>1 DEF Job
    <2>3. QED
      BY <1>3, <1>5, <2>1, <2>2
  <1>6. QED
    BY <1>4, <1>5

\* A command gives up a request, or everything.
LEMMA GivenUpShared ==
    ASSUME Shared, NEW c \in Clients, NEW t, Plotted(t), cmd' = [cmd EXCEPT ![c] = t],
           jobs' = Abandoned(c), UNCHANGED <<worker, edit, runVars, localVars>>,
           \/ t = Idle
           \/ Head(cmd[c].todo) = "stop" /\ Answers(cmd[c], t),
           CmdPlotted' /\ cmd'[c] = t => Private(c)'
    PROVE  Shared'
  <1>1. CmdPlotted' /\ cmd'[c] = t /\ \A b \in Clients \ {c} : cmd'[b] = cmd[b]
    BY OneCmd DEF Shared
  <1>2. /\ jobs' \subseteq Job
        /\ \A i \in jobs' : \E j \in jobs :
              i.by \in {j.by, {}} /\ i.op = j.op /\ i.rest = j.rest /\ (i.by = {} \/ i = j)
        /\ \A i \in jobs' : c \notin i.by
    BY AbandonedJobs
  <1>3. ASSUME NEW b \in Clients, Undisturbed(b), Undisturbed(b)', NEW i \in jobs'
        PROVE  i.by = {b} \/ (i.by = {} /\ i.op = "stop")
    <2>1. PICK j \in jobs : /\ i.by \in {j.by, {}} /\ i.op = j.op /\ (i.by = {} \/ i = j)
                            /\ i.by = {} => j.by \in {{}, {c}}
      BY AbandonedJobs
    <2>2. j.by = {b} \/ (j.by = {} /\ j.op = "stop")
      BY <1>3 DEF Shared, AloneIsAlone
    <2>3. CASE i = j
      BY <2>2, <2>3
    <2>4. CASE i.by = {} /\ j.by = {c}
      <3>1. b = c
        BY <2>2, <2>4
      <3>2. t # Idle
        BY <1>1, <1>3, <3>1, IdleFields DEF Undisturbed, RunKinds
      <3>3. Head(cmd[c].todo) = "stop"
        BY <3>2
      <3>4. j.op = "stop"
        BY <2>4, <3>3 DEF Shared, Awaited, At
      <3>5. QED
        BY <2>1, <2>4, <3>4
    <2>5. CASE i.by = {} /\ j.by = {}
      BY <2>1, <2>2, <2>5
    <2>6. QED
      BY <2>1, <2>3, <2>4, <2>5
  <1>4. Awaited' /\ AloneIsAlone' /\ StartsAreListed'
    <2>1. \A b \in Clients :
              \/ cmd'[b] = cmd[b]
              \/ /\ \A i \in jobs' : b \notin i.by
                 /\ \/ cmd'[b] = Idle
                    \/ /\ Head(cmd[b].todo) \in Asks \cup {"install"}
                       /\ Answers(cmd[b], cmd'[b])
      BY <1>1, <1>2 DEF Asks
    <2>2. QED
      BY <1>1, <1>2, <1>3, <2>1, AnswersShare DEF Shared
  <1>5. ASSUME NEW b \in Clients PROVE Private(b)'
    <2>1. CASE b = c
      BY <1>1, <2>1
    <2>2. CASE b # c
      <3>1. Alike(b)
        BY <1>1, <2>2 DEF Alike, SameNotes, SameTidings
      <3>2. Kept(b)
        BY <1>2 DEF Kept, runVars
      <3>3. QED
        BY <1>1, <3>1, <3>2, OthersKeepClaims DEF Shared
    <2>3. QED
      BY <2>1, <2>2
  <1>6. QED
    BY <1>1, <1>2, <1>4, <1>5 DEF Shared

\* A command does not get the answer to its stop, and goes on.
LEMMA LostShared ==
    ASSUME Shared, NEW c \in Clients, CallLost(c)
    PROVE  Shared' /\ UNCHANGED alive
  <1> DEFINE t == CallFailed(cmd[c])
  <1>1. Plotted(cmd[c]) /\ Ignores(cmd[c]) /\ Head(cmd[c].todo) = "stop"
    BY DEF Shared, CmdPlotted, CallLost, Ignores
  <1>2. /\ Answers(cmd[c], t) /\ Plotted(t)
        /\ t.kind # "none" /\ t.stopped => ~StopFails(cmd[c])
    BY <1>1, FailedAnswers DEF Answers
  <1>3. cmd' = [cmd EXCEPT ![c] = t]
    BY DEF CallLost
  <1> HIDE DEF t
  <1>4. jobs' = Abandoned(c) /\ UNCHANGED <<worker, edit, runVars, localVars>>
    BY DEF CallLost
  <1>5. ASSUME cmd'[c] = t PROVE Private(c)'
    <2>1. Relies(c) => Result(c)
      <3>1. Relies(c) => (t.stopped => ~StopFails(cmd[c]))
        BY <1>2, <1>5 DEF Relies
      <3>2. QED
        BY <1>1, <1>4, <1>5, <3>1 DEF Result, StopFails, runVars
    <2>2. \A i \in jobs' : c \notin i.by
      BY <1>4, AbandonedJobs
    <2>3. UNCHANGED <<source, worker, edit>>
      BY <1>4 DEF runVars
    <2>4. QED
      BY <1>1, <1>2, <1>5, <2>1, <2>2, <2>3, AnsweredPrivate DEF Shared, Asks
  <1>6. Shared'
    BY <1>1, <1>2, <1>3, <1>4, <1>5, GivenUpShared
  <1>7. QED
    BY <1>4, <1>6 DEF runVars

\* A command fails or is interrupted.
LEMMA FailShared ==
    ASSUME Shared, NEW c \in Clients, Fail(c)
    PROVE  Shared' /\ UNCHANGED alive
  <1>1. /\ cmd' = [cmd EXCEPT ![c] = Idle] /\ jobs' = Abandoned(c)
        /\ UNCHANGED <<worker, edit, runVars, localVars>>
    BY DEF Fail
  <1>2. Plotted(Idle) /\ Idle.kind = "none"
    BY IdleFields
  <1>3. cmd'[c] = Idle => Private(c)'
    BY <1>2, NonePrivate
  <1>4. Shared'
    BY <1>1, <1>2, <1>3, GivenUpShared
  <1>5. QED
    BY <1>1, <1>4 DEF runVars

\* The daemon's replacement: nothing runs, and nobody waits.
LEMMA InstallJobs ==
    ASSUME Shared, NEW c \in Clients, Install(c)
    PROVE  \A i \in jobs' : \E j \in jobs :
              /\ i \in Job /\ i.by = {} /\ i.op = j.op /\ i.rest = j.rest
              /\ j.op \in {"setup", "build"}
  <1>1. \A j \in jobs : j \in Job
    BY DEF Shared
  <1>2. \A j \in jobs : /\ [j EXCEPT !.by = {}] \in Job /\ [j EXCEPT !.by = {}].by = {}
                        /\ [j EXCEPT !.by = {}].op = j.op /\ [j EXCEPT !.by = {}].rest = j.rest
    BY <1>1 DEF Job
  <1>3. \A i \in jobs' : \E j \in jobs : j.op \in {"setup", "build"} /\ i = [j EXCEPT !.by = {}]
    BY DEF Install
  <1>4. QED
    BY <1>2, <1>3

\* What becomes of the commands.
LEMMA InstallCmd ==
    ASSUME Shared, NEW c \in Clients, Install(c)
    PROVE  /\ CmdPlotted' /\ cmd'[c] = Then(cmd[c]) /\ c \notin UNION {j.by : j \in jobs}
           /\ Working(c) /\ cmd[c].kind \in {"deploy", "up"} /\ Head(cmd[c].todo) = "install"
           /\ \A b \in Clients \ {c} :
                 /\ ~Undisturbed(b)
                 /\ \/ cmd'[b] = cmd[b]
                    \/ Head(cmd[b].todo) \in Asks /\ Answers(cmd[b], cmd'[b])
  <1>1. Head(cmd[c].todo) = "install" /\ Plotted(cmd[c])
    BY DEF Install, At, Shared, CmdPlotted
  <1>2. cmd[c].kind \in {"deploy", "up"}
    BY <1>1, KindOfStep
  <1>3. Working(c)
    BY <1>1, <1>2 DEF Working, RunKinds, At
  <1>4. \A j \in jobs : c \notin j.by
    BY <1>1, NotAsking DEF Shared, Asks
  <1>5. cmd' = [b \in Clients |-> IF b = c THEN Then(cmd[b])
                                  ELSE IF \E j \in jobs : b \in j.by THEN CallFailed(cmd[b])
                                  ELSE cmd[b]]
    BY DEF Install
  <1>6. cmd'[c] = Then(cmd[c]) /\ Plotted(Then(cmd[c]))
    BY <1>1, <1>5, ThenFields
  <1>7. ASSUME NEW b \in Clients \ {c}
        PROVE  /\ ~Undisturbed(b) /\ Plotted(cmd'[b])
               /\ \/ cmd'[b] = cmd[b]
                  \/ Head(cmd[b].todo) \in Asks /\ Answers(cmd[b], cmd'[b])
    <2>1. ~Undisturbed(b) /\ Plotted(cmd[b])
      BY <1>3, <1>7 DEF Shared, AloneIsAlone, CmdPlotted
    <2>2. CASE \E j \in jobs : b \in j.by
      <3>1. Head(cmd[b].todo) \in Asks
        BY <2>2, AskersWork DEF Shared
      <3>2. cmd'[b] = CallFailed(cmd[b])
        BY <1>5, <2>2
      <3>3. Answers(cmd[b], cmd'[b])
        BY <2>1, <3>2, FailedAnswers
      <3>4. QED
        BY <2>1, <3>1, <3>3 DEF Answers
    <2>3. CASE ~\E j \in jobs : b \in j.by
      BY <1>5, <2>1, <2>3
    <2>4. QED
      BY <2>2, <2>3
  <1>8. CmdPlotted'
    <2>1. \A b \in Clients : Plotted(cmd'[b])
      BY <1>6, <1>7
    <2>2. cmd' \in [Clients -> Command]
      <3>1. \A b \in Clients : cmd'[b] \in Command
        BY <2>1 DEF Plotted
      <3>2. cmd' = [b \in Clients |-> cmd'[b]]
        BY <1>5
      <3>3. QED
        BY <3>1, <3>2
    <2>3. QED
      BY <2>1, <2>2 DEF CmdPlotted, Plotted, OnCourse
  <1>9. QED
    BY <1>1, <1>2, <1>3, <1>4, <1>6, <1>7, <1>8

\* deploy --install or services up --install replaces the daemon.
LEMMA InstallShared ==
    ASSUME Shared, TypeOK, NEW c \in Clients, Install(c)
    PROVE  Shared' /\ AllDown'
  <1>1. /\ CmdPlotted' /\ cmd'[c] = Then(cmd[c])
        /\ Working(c) /\ cmd[c].kind \in {"deploy", "up"} /\ Head(cmd[c].todo) = "install"
        /\ \A b \in Clients \ {c} :
              /\ ~Undisturbed(b)
              /\ \/ cmd'[b] = cmd[b]
                 \/ Head(cmd[b].todo) \in Asks /\ Answers(cmd[b], cmd'[b])
    BY InstallCmd
  <1>2. AllDown' /\ UNCHANGED <<worker, edit, dir, source, made, localVars>>
    <2>1. \A s \in Services : alive[s] # Down => s \in inState
      BY DEF TypeOK
    <2>2. \A s \in Services : alive'[s] = IF s \in inState THEN Down ELSE alive[s]
      BY DEF Install, StopAll
    <2>3. AllDown'
      BY <2>1, <2>2 DEF AllDown, Down, None
    <2>4. QED
      BY <2>3 DEF Install
  <1>3. \A i \in jobs' : \E j \in jobs :
           /\ i \in Job /\ i.by = {} /\ i.op = j.op /\ i.rest = j.rest
           /\ j.op \in {"setup", "build"}
    BY InstallJobs
  <1>4. Plotted(cmd[c]) /\ Answers(cmd[c], cmd'[c]) /\ Moved(cmd[c], cmd'[c])
    BY <1>1, ThenAnswers, ThenMoves DEF Shared, CmdPlotted
  <1>5. Awaited' /\ AloneIsAlone' /\ StartsAreListed' /\ jobs' \subseteq Job
    <2>1. jobs' \subseteq Job
      BY <1>3
    <2>2. \A b \in Clients :
              \/ cmd'[b] = cmd[b]
              \/ /\ \A i \in jobs' : b \notin i.by
                 /\ \/ cmd'[b] = Idle
                    \/ /\ Head(cmd[b].todo) \in Asks \cup {"install"}
                       /\ Answers(cmd[b], cmd'[b])
      BY <1>1, <1>3, <1>4
    <2>3. \A i \in jobs' : \E j \in jobs :
             i.by \in {j.by, {}} /\ i.op = j.op /\ i.rest = j.rest /\ (i.by = {} \/ i = j)
      BY <1>3
    <2>4. ASSUME NEW b \in Clients, Undisturbed(b), NEW i \in jobs'
          PROVE  i.by = {b} \/ (i.by = {} /\ i.op = "stop")
      <3>1. b = c
        BY <1>1, <2>4
      <3>2. PICK j \in jobs : j.op \in {"setup", "build"}
        BY <1>3
      <3>3. j.by = {c} \/ (j.by = {} /\ j.op = "stop")
        BY <2>4, <3>1 DEF Shared, AloneIsAlone
      <3>4. c \notin j.by
        BY <1>1, NotAsking DEF Shared, Asks
      <3>5. QED
        BY <3>2, <3>3, <3>4
    <2>5. QED
      BY <1>1, <1>2, <2>1, <2>2, <2>3, <2>4, AnswersShare DEF Shared
  <1>6. Private(c)'
    <2>1. CASE cmd'[c].kind = "none"
      BY <1>4, <2>1, NonePrivate DEF Moved
    <2>2. CASE cmd'[c].kind # "none"
      <3>1. cmd'[c].kind \in {"deploy", "up"} /\ cmd'[c].from = cmd[c].from
        BY <1>1, <1>4, <2>2 DEF Answers
      <3>2. Deploys(c)'
        BY <1>1, <1>2, <1>3, <1>4, <3>1, MovedDeploys DEF Shared, Asks
      <3>3. UnsavedIsDown(c)' /\ CleanedUp(c)'
        BY <1>2 DEF UnsavedIsDown, CleanedUp
      <3>4. QED
        BY <3>1, <3>2, <3>3 DEF Private, Own
    <2>3. QED
      BY <2>1, <2>2
  <1>7. ASSUME NEW b \in Clients \ {c} PROVE Private(b)'
    <2>1. CASE cmd'[b] = cmd[b]
      <3>1. Alike(b) /\ ~Undisturbed(b)'
        BY <1>1, <2>1 DEF Alike, Undisturbed, SameNotes, SameTidings
      <3>2. QED
        BY <1>1, <1>2, <3>1, OthersKeepClaims DEF Shared
    <2>2. CASE Head(cmd[b].todo) \in Asks /\ Answers(cmd[b], cmd'[b])
      <3>1. ~Relies(b)
        BY <1>1 DEF Relies
      <3>2. \A i \in jobs' : b \notin i.by
        BY <1>3
      <3>3. QED
        BY <1>2, <2>2, <3>1, <3>2, AnsweredPrivate DEF Shared
    <2>3. QED
      BY <1>1, <2>1, <2>2
  <1>8. QED
    BY <1>1, <1>2, <1>5, <1>6, <1>7 DEF Shared

(***************************************************************************)
(* Steps that leave the commands as they are                               *)
(***************************************************************************)

\* Nobody goes on, and services go down at most.
LEMMA AlikeShared ==
    ASSUME Shared, CmdPlotted', UNCHANGED <<worker, localVars, source, made, jobs>>,
           \A s \in Services : alive'[s] = alive[s] \/ alive'[s] = Down,
           \A b \in Clients :
              /\ cmd'[b].kind = cmd[b].kind /\ cmd'[b].todo = cmd[b].todo
              /\ cmd'[b].services = cmd[b].services /\ (cmd'[b].alone => cmd[b].alone)
              /\ \/ Private(b)'
                 \/ Alike(b) /\ (UNCHANGED edit \/ (cmd'[b].kind = "watch" => Watched(b)'))
    PROVE  Shared'
  <1>1. \A b \in Clients :
           /\ At(b, "restart")' = At(b, "restart") /\ Subject(cmd'[b]) = Subject(cmd[b])
           /\ Working(b)' = Working(b) /\ (Undisturbed(b)' => Undisturbed(b))
    BY DEF At, Subject, Working, Undisturbed
  <1>2. Awaited'
    <2>1. SUFFICES ASSUME NEW j \in jobs, NEW b \in j.by
                   PROVE  /\ j.by = {b}
                          /\ \A i \in jobs : b \in i.by => i = j
                          /\ At(b, j.op)' \/ (j.op = "start" /\ At(b, "restart")')
                          /\ j.op = "stop" => j.rest = Subject(cmd'[b])
      BY DEF Awaited, Subject, At
    <2>2. /\ j.by = {b} /\ \A i \in jobs : b \in i.by => i = j
          /\ At(b, j.op) \/ (j.op = "start" /\ At(b, "restart"))
          /\ j.op = "stop" => j.rest = Subject(cmd[b])
      BY <2>1 DEF Shared, Awaited
    <2>3. b \in Clients
      BY <2>1 DEF Shared, Job
    <2>4. At(b, j.op)' = At(b, j.op)
      BY <2>3 DEF At
    <2>5. QED
      BY <1>1, <2>2, <2>3, <2>4
  <1>3. AloneIsAlone'
    BY <1>1 DEF Shared, AloneIsAlone
  <1>4. StartsAreListed'
    BY ListedStays DEF Shared
  <1>5. ASSUME NEW b \in Clients PROVE Private(b)'
    <2>1. Kept(b)
      BY DEF Kept
    <2>2. QED
      BY <2>1, OthersKeepClaims DEF Shared
  <1>6. QED
    BY <1>2, <1>3, <1>4, <1>5 DEF Shared

\* The project is edited.
LEMMA EditShared ==
    ASSUME Shared, TypeOK, Edit
    PROVE  Shared' /\ UNCHANGED alive
  <1>1. /\ edit \in Nat /\ edit' = edit + 1 /\ edit' \in Contents /\ edit' # edit
        /\ UNCHANGED <<worker, localVars, source, made, alive, jobs>>
    BY BoundsAssumption DEF Edit, TypeOK, Versions, Contents, runVars
  <1>2. PICK seen \in SUBSET Watches, heard \in SUBSET Clients :
           /\ heard \subseteq {c \in seen : ~At(c, "open")}
           /\ cmd' = [c \in Clients |->
                         IF c \in seen THEN Edited(cmd[c], c \in heard) ELSE cmd[c]]
    BY DEF Edit, Watches
  <1>3. ASSUME NEW b \in Clients
        PROVE  /\ Plotted(cmd'[b]) /\ Alike(b)
               /\ cmd'[b].kind = cmd[b].kind /\ cmd'[b].todo = cmd[b].todo
               /\ cmd'[b].services = cmd[b].services /\ (cmd'[b].alone => cmd[b].alone)
               /\ cmd'[b].from = cmd[b].from
               /\ \/ cmd'[b].heard = edit' /\ cmd'[b].differs /\ cmd'[b].events
                     /\ Head(cmd[b].todo) # "open"
                  \/ /\ SameTidings(cmd[b], cmd'[b])
                     /\ cmd[b].differs => cmd'[b].differs
    <2> DEFINE k == cmd[b]
               t == cmd'[b]
    <2>1. k \in Command /\ Plotted(k)
      BY DEF Shared, CmdPlotted, Plotted
    <2>2. \/ t = k
          \/ t = [k EXCEPT !.differs = TRUE]
          \/ /\ t = [k EXCEPT !.differs = TRUE, !.events = TRUE, !.heard = edit']
             /\ Head(k.todo) # "open"
      BY <1>2 DEF Edited, At
    <2> HIDE DEF k, t
    <2>3. /\ t \in Command /\ t.kind = k.kind /\ t.todo = k.todo
          /\ t.services = k.services /\ t.from = k.from
          /\ t.stopped = k.stopped /\ t.alone = k.alone
          /\ \/ t.heard = edit' /\ t.differs /\ t.events /\ Head(k.todo) # "open"
             \/ SameTidings(k, t) /\ (k.differs => t.differs)
      <3>1. CASE t = k
        BY <2>1, <3>1 DEF SameTidings
      <3>2. CASE t = [k EXCEPT !.differs = TRUE]
        BY <2>1, <3>2 DEF Command, SameTidings
      <3>3. CASE /\ t = [k EXCEPT !.differs = TRUE, !.events = TRUE, !.heard = edit']
                 /\ Head(k.todo) # "open"
        BY <1>1, <2>1, <3>3 DEF Command
      <3>4. QED
        BY <2>2, <3>1, <3>2, <3>3
    <2>4. Plotted(t)
      BY <2>1, <2>3, PlottedToo
    <2>5. QED
      BY <1>1, <2>3, <2>4 DEF k, t, Alike
  <1>4. CmdPlotted'
    BY <1>2, <1>3 DEF CmdPlotted, Plotted, OnCourse
  <1>5. ASSUME NEW b \in Clients, cmd'[b].kind = "watch" PROVE Watched(b)'
    <2> DEFINE k == cmd[b]
               t == cmd'[b]
               h == Head(cmd[b].todo)
    <2>1. Keeping(k, h, edit, source)
      BY <1>3, <1>5 DEF Shared, Private, Own, Watched, At, Keeping, CopyOf, CopyIn
    <2>2. /\ t.todo = k.todo /\ t.from = k.from /\ (t.alone => k.alone)
          /\ \/ t.heard = edit' /\ t.differs /\ t.events /\ h # "open"
             \/ SameTidings(k, t) /\ (k.differs => t.differs)
      BY <1>3 DEF Alike
    <2>3. Keeping(t, h, edit', source) => Watched(b)'
      BY <1>1, <2>2 DEF Watched, At, Keeping, CopyOf, CopyIn, None, Mixed
    <2>4. 0..edit \subseteq 0..edit' /\ edit' \in 0..edit'
      BY <1>1
    <2>5. \A v \in 0..edit : v < edit => v < edit'
      BY <1>1
    <2> HIDE DEF k, t, h
    <2>6. t.from # None => (CopyIn(k.from, edit, source) => CopyIn(t.from, edit', source))
      BY <2>1, <2>2, <2>5 DEF Keeping, CopyIn
    <2>7. QED
      BY <2>1, <2>2, <2>3, <2>4, <2>6 DEF Keeping, SameTidings
  <1>6. Shared'
    BY <1>1, <1>3, <1>4, <1>5, AlikeShared
  <1>7. QED
    BY <1>1, <1>6

\* Processes crash, their exit is noticed, or somebody asks for the status.
LEMMA OthersShared ==
    ASSUME Shared, TypeOK, Status \/ \E s \in Services : Crash(s) \/ Exit(s)
    PROVE  Shared' /\ \A s \in Services : alive'[s] = alive[s] \/ alive'[s] = Down
  <1>1. UNCHANGED <<worker, edit, localVars, source, made, jobs, cmd>>
    BY DEF Status, Crash, Exit
  <1>2. \A s \in Services : alive'[s] = alive[s] \/ alive'[s] = Down
    <2>1. alive \in [Services -> Process]
      BY DEF TypeOK
    <2>2. CASE Status
      BY <2>2 DEF Status
    <2>3. CASE \E s \in Services : Crash(s)
      BY <2>3 DEF Crash, StopAll
    <2>4. CASE \E s \in Services : Exit(s)
      BY <2>1, <2>4 DEF Exit
    <2>5. QED
      BY <2>2, <2>3, <2>4
  <1>3. CmdPlotted'
    BY <1>1 DEF Shared, CmdPlotted, Plotted, OnCourse
  <1>4. \A b \in Clients : cmd'[b] = cmd[b] /\ Alike(b)
    BY <1>1 DEF Alike, SameNotes, SameTidings
  <1>5. Shared'
    BY <1>1, <1>2, <1>3, <1>4, AlikeShared
  <1>6. QED
    BY <1>2, <1>5

\* A watch is told of what it knows already, or of a change.
LEMMA ToldShared ==
    ASSUME Shared, TypeOK, NEW c \in Clients,
           (WatchTake(c) /\ ~cmd[c].differs) \/ Notify(c)
    PROVE  Shared' /\ UNCHANGED alive
  <1> DEFINE k == cmd[c]
             t == cmd'[c]
  <1>1. Plotted(k) /\ k \in Command
    BY DEF Shared, CmdPlotted, Plotted
  <1>2. /\ UNCHANGED <<worker, edit, localVars, source, made, jobs, alive>>
        /\ cmd' = [cmd EXCEPT ![c] = t]
        /\ \/ t = [k EXCEPT !.told = FALSE] /\ ~k.differs
           \/ t = [k EXCEPT !.events = FALSE, !.told = TRUE] /\ k.events
    <2>1. CASE WatchTake(c) /\ ~cmd[c].differs
      <3>1. cmd' = [cmd EXCEPT ![c] = [k EXCEPT !.told = FALSE]]
        BY <2>1 DEF WatchTake
      <3>2. QED
        BY <2>1, <3>1 DEF WatchTake, runVars, Shared, CmdPlotted
    <2>2. CASE Notify(c)
      <3>1. cmd' = [cmd EXCEPT ![c] = [k EXCEPT !.events = FALSE, !.told = TRUE]]
        BY <2>2 DEF Notify, Sent
      <3>2. QED
        BY <2>2, <3>1 DEF Notify, runVars, Shared, CmdPlotted
    <2>3. QED
      BY <2>1, <2>2
  <1> HIDE DEF t
  <1>4. /\ t \in Command /\ t.kind = k.kind /\ t.todo = k.todo /\ t.services = k.services
        /\ t.from = k.from /\ t.stopped = k.stopped /\ t.alone = k.alone
        /\ t.heard = k.heard /\ t.differs = k.differs
        /\ (k.differs /\ (k.events \/ k.told)) => (t.differs /\ (t.events \/ t.told))
    <2> HIDE DEF k
    <2>1. CASE t = [k EXCEPT !.told = FALSE] /\ ~k.differs
      BY <1>1, <2>1 DEF Command
    <2>2. CASE t = [k EXCEPT !.events = FALSE, !.told = TRUE] /\ k.events
      BY <1>1, <2>2 DEF Command
    <2>3. QED
      BY <1>2, <2>1, <2>2
  <1>5. Plotted(t)
    BY <1>1, <1>4, PlottedToo
  <1>6. CmdPlotted' /\ cmd'[c] = t /\ \A b \in Clients \ {c} : cmd'[b] = cmd[b]
    BY <1>2, <1>5, OneCmd DEF Shared
  <1>7. Private(c)'
    <2>1. Private(c)
      BY DEF Shared
    <2>2. ASSUME k.kind = "watch" PROVE Watched(c)'
      <3>1. Watched(c)
        BY <2>1, <2>2 DEF Private, Own
      <3>2. QED
        BY <1>2, <1>4, <1>6, <3>1 DEF Watched, At, None, Mixed, CopyOf
    <2>3. ASSUME k.kind \in {"deploy", "up"} PROVE Deploys(c)'
      <3>1. Deploys(c)
        BY <2>1, <2>3 DEF Private, Own
      <3>2. Ahead(t) = Ahead(k) /\ At(c, "copied")' = At(c, "copied")
            /\ At(c, "rsync")' = At(c, "rsync")
        BY <1>4, <1>6 DEF Ahead, At
      <3>3. Deployed(c) => Deployed(c)'
        <4>1. cmd'[c].from = cmd[c].from /\ cmd'[c].stopped = cmd[c].stopped
              /\ cmd'[c].services = cmd[c].services
              /\ Ahead(cmd'[c]) = Ahead(cmd[c])
          BY <1>4, <1>6, <3>2
        <4>2. UNCHANGED <<source, made, jobs, alive>>
          BY <1>2
        <4>3. QED
          BY <3>2, <4>1, <4>2 DEF Deployed
      <3>4. QED
        BY <1>4, <1>6, <3>1, <3>2, <3>3 DEF Deploys, None
    <2>4. UnsavedIsDown(c)' /\ CleanedUp(c)'
      <3>1. AllDown' = AllDown
        BY <1>2 DEF AllDown, Down, None
      <3>2. QED
        BY <1>2, <1>4, <1>6, <2>1, <3>1 DEF Private, Own, UnsavedIsDown, CleanedUp, At,
           Undisturbed
    <2>5. QED
      BY <1>4, <1>6, <2>2, <2>3, <2>4 DEF Private, Own
  <1>8. \A b \in Clients \ {c} : Alike(b)
    BY <1>6 DEF Alike, SameNotes, SameTidings
  <1>9. Shared'
    <2>1. \A b \in Clients :
              /\ cmd'[b].kind = cmd[b].kind /\ cmd'[b].todo = cmd[b].todo
              /\ cmd'[b].services = cmd[b].services /\ (cmd'[b].alone => cmd[b].alone)
              /\ \/ Private(b)'
                 \/ Alike(b) /\ (UNCHANGED edit \/ (cmd'[b].kind = "watch" => Watched(b)'))
      BY <1>2, <1>4, <1>6, <1>7, <1>8
    <2>2. QED
      BY <1>2, <1>6, <2>1, AlikeShared
  <1>10. QED
    BY <1>2, <1>9

(***************************************************************************)
(* Every step                                                              *)
(***************************************************************************)

\* A client's step.
LEMMA ClientShared ==
    ASSUME TypeOK, Shared, RunningIsListed, NEW c \in Clients, ClientStep(c)
    PROVE  Shared' /\ RunningIsListed' /\ listed' \in BOOLEAN /\ unlisted' \in BOOLEAN
  <1>0. /\ CmdPlotted /\ jobs \subseteq Job /\ Awaited /\ AloneIsAlone
        /\ StartsAreListed /\ (\A b \in Clients : Private(b))
        /\ UnsavedIsDown(c) /\ listed \in BOOLEAN /\ unlisted \in BOOLEAN
        /\ edit \in Nat /\ edit \in Versions
    BY DEF Shared, Private, Own, TypeOK, Versions
  <1>1. CASE \/ Load(c) \/ Save(c) \/ Unsave(c) \/ Prepare(c) \/ Rsync(c) \/ Copied(c)
             \/ Exists(c) \/ Remove(c) \/ Wait(c) \/ Report(c) \/ WatchOpen(c) \/ Settle(c)
    <2>1. Stepping(c)
      BY <1>0, <1>1, SteadySteps
    <2>2. /\ CmdPlotted' /\ Awaited' /\ AloneIsAlone' /\ jobs' \subseteq Job
          /\ \A b \in Clients : Private(b)'
      BY <1>0, <2>1, SteppingPrivate
    <2>3. StartsAreListed' /\ RunningIsListed' /\ listed' \in BOOLEAN /\ unlisted' \in BOOLEAN
      BY <1>0, <1>1, <2>1, SteadyListed
    <2>4. QED
      BY <2>2, <2>3 DEF Shared
  <1>2. CASE \/ CommandBegin(c) \/ RegistryBegin(c) \/ (WatchTake(c) /\ cmd[c].differs)
    <2>1. Sets(c)
      BY <1>0, <1>2, CommandSets, RegistrySets, WatchSets
    <2>2. /\ Awaited' /\ AloneIsAlone' /\ StartsAreListed' /\ RunningIsListed'
          /\ \A b \in Clients : Private(b)'
      BY <1>0, <2>1, SetsPrivate
    <2>3. CmdPlotted' /\ UNCHANGED <<jobs, localVars>>
      BY <2>1 DEF Sets
    <2>4. QED
      BY <1>0, <2>2, <2>3 DEF Shared, localVars
  <1>3. CASE Request(c)
    <2>1. UNCHANGED <<worker, localVars, alive>>
      BY <1>3 DEF Request
    <2>2. QED
      BY <1>0, <1>3, <2>1, RequestShared, DownStays DEF localVars
  <1>4. CASE CallLost(c)
    <2>1. UNCHANGED <<worker, localVars>>
      BY <1>4 DEF CallLost
    <2>2. QED
      BY <1>0, <1>4, <2>1, LostShared, DownStays DEF localVars
  <1>5. CASE Fail(c)
    <2>1. UNCHANGED <<worker, localVars>>
      BY <1>5 DEF Fail
    <2>2. QED
      BY <1>0, <1>5, <2>1, FailShared, DownStays DEF localVars
  <1>6. CASE Install(c)
    <2>1. UNCHANGED <<worker, localVars>>
      BY <1>6 DEF Install
    <2>2. Shared' /\ AllDown'
      BY <1>6, InstallShared
    <2>3. \A s \in Services : alive'[s] # Down => alive[s] # Down
      BY <2>2 DEF AllDown, Down, None
    <2>4. QED
      BY <1>0, <2>1, <2>2, <2>3, DownStays DEF localVars
  <1>7. CASE (WatchTake(c) /\ ~cmd[c].differs) \/ Notify(c)
    <2>1. UNCHANGED <<worker, localVars>>
      BY <1>7 DEF WatchTake, Notify
    <2>2. QED
      BY <1>0, <1>7, <2>1, ToldShared, DownStays DEF localVars
  <1>8. QED
    BY <1>1, <1>2, <1>3, <1>4, <1>5, <1>6, <1>7 DEF ClientStep

\* Any step.
LEMMA NextShared ==
    ASSUME TypeOK, Shared, RunningIsListed, Next
    PROVE  Shared' /\ RunningIsListed' /\ listed' \in BOOLEAN /\ unlisted' \in BOOLEAN
  <1>0. listed \in BOOLEAN /\ unlisted \in BOOLEAN
    BY DEF TypeOK
  <1>1. CASE \E c \in Clients : ClientStep(c)
    BY <1>1, ClientShared
  <1>2. CASE DaemonStep
    <2>1. /\ UNCHANGED <<worker, edit, localVars>> /\ localVars = <<listed, unlisted>>
          /\ localVars' = <<listed', unlisted'>>
      BY <1>2 DEF DaemonStep, localVars
    <2>2. PICK j \in jobs : CommandDone(j) \/ StopDone(j) \/ StartOne(j) \/ JobFails(j)
      BY <1>2 DEF DaemonStep
    <2>3. CASE CommandDone(j)
      <3>1. UNCHANGED alive
        BY <2>3 DEF CommandDone
      <3>2. QED
        BY <1>0, <2>1, <2>3, <3>1, DoneShared, DownStays
    <2>4. CASE StopDone(j)
      BY <1>0, <2>1, <2>4, StopShared, DownStays
    <2>5. CASE StartOne(j)
      BY <1>0, <2>1, <2>5, StartShared
    <2>6. CASE JobFails(j)
      BY <1>0, <2>1, <2>6, FailsShared, DownStays
    <2>7. QED
      BY <2>2, <2>3, <2>4, <2>5, <2>6
  <1>3. CASE Edit
    <2>1. UNCHANGED <<worker, localVars>>
      BY <1>3 DEF Edit
    <2>2. QED
      BY <1>0, <1>3, <2>1, EditShared, DownStays DEF localVars
  <1>4. CASE Status \/ \E s \in Services : Crash(s) \/ Exit(s)
    <2>1. UNCHANGED <<worker, localVars>>
      BY <1>4 DEF Status, Crash, Exit
    <2>2. QED
      BY <1>0, <1>4, <2>1, OthersShared, DownStays DEF localVars
  <1>5. QED
    BY <1>1, <1>2, <1>3, <1>4 DEF Next

\* The types of what is on the worker.
RunTypes ==
    /\ dir \in {"missing", "bare", "whole"}
    /\ source \in Contents
    /\ made \in [setup : Contents, build : Contents]
    /\ inState \subseteq Services /\ exits \subseteq Services
    /\ alive \in [Services -> Process]
    /\ \A s \in Services : alive[s] # Down => s \in inState /\ dir # "missing"

\* A process, or none, is of a type.
LEMMA ProcessTypes ==
    ASSUME source \in Contents
    PROVE  /\ Down \in Process /\ [from |-> source, prepared |-> Prepared] \in Process
           /\ None \in Contents /\ Mixed \in Contents
  <1>1. Prepared \in BOOLEAN
    BY DEF Prepared
  <1>2. QED
    BY <1>1, VersionFacts DEF Down, Process

\* Services that are stopped.
LEMMA StopAllTypes ==
    ASSUME RunTypes, NEW services \in SUBSET Services, StopAll(services)
    PROVE  /\ alive' \in [Services -> Process] /\ exits' \subseteq Services
           /\ \A s \in Services : alive'[s] # Down => s \in inState /\ dir # "missing"
  <1>1. Down \in Process
    BY ProcessTypes DEF RunTypes
  <1>2. alive' = [s \in Services |-> IF s \in services THEN Down ELSE alive[s]]
        /\ exits' = exits \cup {s \in services : alive[s] # Down}
    BY DEF StopAll
  <1>3. QED
    BY <1>1, <1>2 DEF RunTypes

\* The steps of clients keep those types.
LEMMA ClientRunTypes ==
    ASSUME TypeOK, Shared, NEW c \in Clients, ClientStep(c)
    PROVE  RunTypes'
  <1>0. RunTypes /\ edit \in Contents /\ source \in Contents
    BY VersionFacts DEF RunTypes, TypeOK
  <1>1. Down \in Process /\ None \in Contents /\ Mixed \in Contents
    BY <1>0, ProcessTypes
  <1>2. CASE UNCHANGED runVars
    BY <1>0, <1>2 DEF RunTypes, runVars
  <1>3. CASE Prepare(c)
    BY <1>0, <1>3 DEF RunTypes, Prepare
  <1>4. CASE Rsync(c)
    BY <1>0, <1>1, <1>4 DEF RunTypes, Rsync
  <1>5. CASE Copied(c)
    BY <1>0, <1>1, <1>5 DEF RunTypes, Copied
  <1>6. CASE Remove(c)
    BY <1>0, <1>1, <1>6 DEF RunTypes, Remove, Forgotten, LinkRemoved, SourceRemoved
  <1>7. CASE Request(c)
    <2>1. /\ UNCHANGED <<dir, source, inState, alive, exits>>
          /\ made' = IF Head(cmd[c].todo) \in {"setup", "build"}
                     THEN [made EXCEPT ![Head(cmd[c].todo)] = Mixed] ELSE made
      BY <1>7 DEF Request
    <2>2. QED
      BY <1>0, <1>1, <2>1 DEF RunTypes
  <1>8. CASE Install(c)
    <2>1. StopAll(inState) /\ UNCHANGED <<dir, source, made, inState>>
      BY <1>8 DEF Install
    <2>2. inState \in SUBSET Services
      BY <1>0 DEF RunTypes
    <2>3. QED
      BY <1>0, <2>1, <2>2, StopAllTypes DEF RunTypes
  <1>9. CASE \/ CommandBegin(c) \/ RegistryBegin(c) \/ Load(c) \/ Save(c) \/ Unsave(c)
             \/ Exists(c) \/ CallLost(c) \/ Wait(c) \/ Report(c) \/ WatchOpen(c)
             \/ WatchTake(c) \/ Settle(c) \/ Notify(c) \/ Fail(c)
    <2>1. UNCHANGED runVars
      BY <1>9 DEF CommandBegin, RegistryBegin, Load, Save, Unsave, Exists, CallLost, Wait,
                  Report, WatchOpen, WatchTake, Settle, Notify, Fail, runVars
    <2>2. QED
      BY <1>2, <2>1
  <1>10. QED
    BY <1>3, <1>4, <1>5, <1>6, <1>7, <1>8, <1>9 DEF ClientStep

\* So do all others.
LEMMA OtherRunTypes ==
    ASSUME TypeOK, Shared, DaemonStep \/ Edit \/ Status \/ \E s \in Services : Crash(s) \/ Exit(s)
    PROVE  RunTypes'
  <1>0. RunTypes /\ source \in Contents
    BY DEF RunTypes, TypeOK
  <1>1. /\ Down \in Process /\ None \in Contents /\ Mixed \in Contents
        /\ [from |-> source, prepared |-> Prepared] \in Process
    BY <1>0, ProcessTypes
  <1>2. CASE DaemonStep
    <2>1. PICK j \in jobs : CommandDone(j) \/ StopDone(j) \/ StartOne(j) \/ JobFails(j)
      BY <1>2 DEF DaemonStep
    <2>2. j \in Job
      BY DEF Shared
    <2>3. CASE CommandDone(j)
      BY <1>0, <1>1, <2>3 DEF RunTypes, CommandDone
    <2>4. CASE StopDone(j)
      <3>1. StopAll(ToStop(j.rest)) /\ UNCHANGED <<source, made, inState>>
            /\ dir' = IF dir = "missing" THEN "bare" ELSE dir
        BY <2>4 DEF StopDone, Saved
      <3>2. ToStop(j.rest) \in SUBSET Services
        BY <1>0, <2>2 DEF ToStop, Job, RunTypes
      <3>3. QED
        BY <1>0, <3>1, <3>2, StopAllTypes DEF RunTypes
    <2>5. CASE StartOne(j)
      <3>1. /\ dir = "whole" /\ UNCHANGED <<dir, source, made, exits>>
            /\ \E s \in j.rest :
                  /\ alive' = [alive EXCEPT ![s] =
                        IF @ # Down THEN @ ELSE [from |-> source, prepared |-> Prepared]]
                  /\ inState' = inState \cup {s}
        BY <2>5 DEF StartOne
      <3>2. PICK s \in Services :
               /\ alive' = [alive EXCEPT ![s] =
                     IF @ # Down THEN @ ELSE [from |-> source, prepared |-> Prepared]]
               /\ inState' = inState \cup {s}
        BY <2>2, <3>1 DEF Job
      <3>3. QED
        BY <1>0, <1>1, <3>1, <3>2 DEF RunTypes
    <2>6. CASE JobFails(j)
      BY <1>0, <2>6 DEF RunTypes, JobFails, runVars
    <2>7. QED
      BY <2>1, <2>3, <2>4, <2>5, <2>6
  <1>3. CASE Edit
    BY <1>0, <1>3 DEF RunTypes, Edit, runVars
  <1>4. CASE Status
    BY <1>0, <1>4 DEF RunTypes, Status, Saved
  <1>5. CASE \E s \in Services : Crash(s)
    <2>1. PICK s \in Services : Crash(s)
      BY <1>5
    <2>2. StopAll({s}) /\ UNCHANGED <<dir, source, made, inState>>
      BY <2>1 DEF Crash
    <2>3. QED
      BY <1>0, <2>2, StopAllTypes DEF RunTypes
  <1>6. CASE \E s \in Services : Exit(s)
    BY <1>0, <1>1, <1>6 DEF RunTypes, Exit, Saved
  <1>7. QED
    BY <1>2, <1>3, <1>4, <1>5, <1>6

\* The other types.
LEMMA CountTypes ==
    ASSUME TypeOK, Shared, Next
    PROVE  worker' = worker /\ edit' \in Versions /\ commands' \in 0..MaxCommands
  <1>0. /\ edit \in Versions /\ commands \in 0..MaxCommands
        /\ MaxEdits \in Nat /\ MaxCommands \in Nat
    BY BoundsAssumption DEF TypeOK
  <1>1. CASE \E c \in Clients : ClientStep(c)
    <2>1. PICK c \in Clients : ClientStep(c)
      BY <1>1
    <2>2. CASE CommandBegin(c) \/ RegistryBegin(c)
      <3>1. commands' = commands + 1 /\ commands < MaxCommands
        BY <2>2, CommandSets, RegistrySets DEF Shared
      <3>2. UNCHANGED <<worker, edit>>
        BY <2>2 DEF CommandBegin, RegistryBegin
      <3>3. QED
        BY <1>0, <3>1, <3>2
    <2>3. CASE ~(CommandBegin(c) \/ RegistryBegin(c))
      <3>1. UNCHANGED <<worker, edit, commands>>
        BY <2>1, <2>3 DEF ClientStep, Load, Save, Unsave, Prepare, Rsync, Copied, Exists, Remove,
           Request, CallLost, Wait, Report, Install, WatchOpen, WatchTake, Settle, Notify, Fail
      <3>2. QED
        BY <1>0, <3>1
    <2>4. QED
      BY <2>2, <2>3
  <1>2. CASE DaemonStep \/ Status \/ \E s \in Services : Crash(s) \/ Exit(s)
    BY <1>0, <1>2 DEF DaemonStep, Status, Crash, Exit
  <1>3. CASE Edit
    BY <1>0, <1>3 DEF Edit, Versions
  <1>4. QED
    BY <1>1, <1>2, <1>3 DEF Next

(***************************************************************************)
(* The inductive invariant, and what it shows                              *)
(***************************************************************************)

\* The parts in which the invariant is kept.
LEMMA DInvParts ==
    DInv <=> TypeOK /\ Shared /\ RunningIsListed
  <1>1. TypeOK => ((\A c \in Clients : OnCourse(cmd[c])) <=> CmdPlotted)
    BY DEF TypeOK, CmdPlotted, Plotted
  <1>2. CleanupEndsServices <=> \A c \in Clients : CleanedUp(c)
    BY DEF CleanupEndsServices, CleanedUp, AllDown
  <1>3. TypeOK => jobs \subseteq Job
    BY DEF TypeOK
  <1>4. QED
    BY <1>1, <1>2, <1>3 DEF DInv, Shared, Private

\* In the beginning nothing runs, and nobody does anything.
LEMMA DeployInit ==
    ASSUME Init PROVE DInv
  <1>1. /\ worker \in {"local", "remote", "mirror"} /\ edit = 0 /\ dir = "missing"
        /\ source = None /\ made = [setup |-> None, build |-> None] /\ inState = {}
        /\ alive = [s \in Services |-> Down] /\ exits = {} /\ jobs = {} /\ listed = FALSE
        /\ unlisted = FALSE /\ cmd = [c \in Clients |-> Idle] /\ commands = 0
    BY DEF Init
  <1>2. /\ Plotted(Idle) /\ Idle \in Command /\ Idle.kind = "none" /\ Idle.todo = <<"idle">>
    BY IdleFields DEF Plotted
  <1> HIDE DEF Idle
  <1>3. TypeOK
    <2>1. Down \in Process /\ None \in Contents
      BY <1>1, VersionFacts, ProcessTypes
    <2>2. 0 \in Versions /\ 0 \in 0..MaxCommands
      BY BoundsAssumption DEF Versions
    <2>3. cmd \in [Clients -> Command] /\ \A c \in Clients : cmd[c].todo # <<>>
      BY <1>1, <1>2 DEF Plotted
    <2>4. QED
      BY <1>1, <2>1, <2>2, <2>3 DEF TypeOK
  <1>4. AllDown
    BY <1>1 DEF AllDown
  <1>5. CmdPlotted /\ jobs \subseteq Job /\ Awaited
    BY <1>1, <1>2 DEF CmdPlotted, Plotted, Awaited
  <1>6. AloneIsAlone
    BY <1>1, <1>2 DEF AloneIsAlone, Undisturbed, RunKinds
  <1>7. StartsAreListed
    BY <1>1, <1>2 DEF StartsAreListed, Starts
  <1>8. \A c \in Clients : Private(c)
    BY <1>1, <1>2, <1>4 DEF Private, Own, UnsavedIsDown, CleanedUp
  <1>9. RunningIsListed
    BY <1>4 DEF RunningIsListed, AllDown
  <1>10. QED
    BY <1>3, <1>5, <1>6, <1>7, <1>8, <1>9, DInvParts DEF Shared

\* Every step keeps it.
LEMMA DeployNext ==
    ASSUME DInv, [Next]_vars PROVE DInv'
  <1>1. TypeOK /\ Shared /\ RunningIsListed
    BY DInvParts
  <1>2. CASE Next
    <2>1. Shared' /\ RunningIsListed' /\ listed' \in BOOLEAN /\ unlisted' \in BOOLEAN
      BY <1>1, <1>2, NextShared
    <2>2. RunTypes'
      BY <1>1, <1>2, ClientRunTypes, OtherRunTypes DEF Next
    <2>3. worker' \in {"local", "remote", "mirror"} /\ edit' \in Versions
          /\ commands' \in 0..MaxCommands
      BY <1>1, <1>2, CountTypes DEF TypeOK
    <2>4. /\ cmd' \in [Clients -> Command] /\ \A c \in Clients : cmd'[c].todo # <<>>
          /\ jobs' \subseteq Job
      BY <2>1 DEF Shared, CmdPlotted, Plotted
    <2>5. TypeOK'
      BY <2>1, <2>2, <2>3, <2>4 DEF TypeOK, RunTypes, Versions, Contents, Process, Job, Command,
         None, Mixed, Down
    <2>6. QED
      BY <2>1, <2>5, DInvParts, PTL
  <1>3. CASE UNCHANGED vars
    <2>1. UNCHANGED <<worker, edit, dir, source, made, inState, alive, exits, jobs, listed,
                      unlisted, cmd, commands>>
      BY <1>3 DEF vars, runVars, localVars
    <2>2. TypeOK'
      BY <1>1, <2>1 DEF TypeOK
    <2>3. CmdPlotted' /\ jobs' \subseteq Job
      BY <1>1, <2>1 DEF Shared, CmdPlotted, Plotted, OnCourse
    <2>4. RunningIsListed'
      BY <1>1, <2>1 DEF RunningIsListed
    <2>5. Shared'
      <3>1. \A b \in Clients : Alike(b)
        BY <2>1 DEF Alike, SameNotes, SameTidings
      <3>2. UNCHANGED localVars
        BY <2>1 DEF localVars
      <3>3. QED
        BY <1>1, <2>1, <2>3, <3>1, <3>2, AlikeShared
    <2>6. QED
      BY <2>2, <2>4, <2>5, DInvParts, PTL
  <1>4. QED
    BY <1>2, <1>3

\* A run that is up, and its registry, are always in a state from which every
\* claim of the commands follows (DInv).
THEOREM DeployInvariant == Spec => []DInv
  BY DeployInit, DeployNext, PTL DEF Spec

\* Every variable keeps its type, and only a run directory that is there has
\* processes recorded (TypeOK).
THEOREM DeployTypes == Spec => []TypeOK
  <1>1. DInv => TypeOK
    BY DEF DInv
  <1>2. QED
    BY <1>1, DeployInvariant, PTL

\* The run of a service that is up is in the registry, unless it is a mirror's,
\* its last registration failed, or another command took or dropped it out
\* (RunningIsListed).
THEOREM DeployListed == Spec => []RunningIsListed
  <1>1. DInv => RunningIsListed
    BY DEF DInv
  <1>2. QED
    BY <1>1, DeployInvariant, PTL

\* A cleanup leaves no process behind (CleanupEndsServices).
THEOREM DeployCleanup == Spec => []CleanupEndsServices
  <1>1. DInv => CleanupEndsServices
    BY DEF DInv
  <1>2. QED
    BY <1>1, DeployInvariant, PTL

\* At its wait a deploy or services up has one step left up to it.
LEMMA AtWait ==
    ASSUME NEW k, Plotted(k), Head(k.todo) = "wait"
    PROVE  k.kind \in {"deploy", "up"} /\ Ahead(k) = 1
  <1> DEFINE h == Head(k.todo)
             n == Len(k.todo)
             a == Ahead(k)
  <1>1. k.kind \in {"deploy", "up"} /\ h = "wait"
    BY KindOfStep
  <1>2. CASE k.kind = "deploy"
    <2>1. AtDeploy(h, n) /\ a = n
      BY <1>2, DeployCourse DEF InDeploy, Ahead
    <2> HIDE DEF h, n, a
    <2>2. a = 1
      BY <1>1, <2>1 DEF AtDeploy
    <2>3. QED
      BY <1>1, <2>2 DEF a
  <1>3. CASE k.kind = "up"
    <2>1. AtUp(h, n) /\ a = n - 1
      BY <1>3, UpCourse DEF InUp, Ahead
    <2> HIDE DEF h, n, a
    <2>2. a = 1
      BY <1>1, <2>1 DEF AtUp
    <2>3. QED
      BY <1>1, <2>2 DEF a
  <1>4. QED
    BY <1>1, <1>2, <1>3

\* What deploy and services up wait for is of the version they have synced
\* (DeployedIsFresh).
THEOREM DeployFresh == Spec => []DeployedIsFresh
  <1>1. ASSUME DInv PROVE DeployedIsFresh
    <2>1. SUFFICES ASSUME NEW c \in Clients, NEW s \in cmd[c].services, At(c, "wait"),
                          alive[s] # Down, cmd[c].alone, cmd[c].stopped, cmd[c].from \in Versions
                   PROVE  alive[s] = [from |-> cmd[c].from, prepared |-> TRUE]
      BY DEF DeployedIsFresh
    <2>2. Plotted(cmd[c]) /\ Own(c)
      BY <1>1, DInvParts DEF Shared, CmdPlotted, Private
    <2>3. cmd[c].kind \in {"deploy", "up"} /\ Ahead(cmd[c]) = 1
      BY <2>1, <2>2, AtWait DEF At
    <2>4. Deployed(c)
      BY <2>1, <2>2, <2>3 DEF Own, Deploys
    <2>5. QED
      BY <2>1, <2>3, <2>4 DEF Deployed
  <1>2. QED
    BY <1>1, DeployInvariant, PTL

\* A watch that waits with nothing left to take has brought every edit that its
\* watcher had an event of to the worker, and nothing older since
\* (WatchKeepsUp).
THEOREM DeployWatch == Spec => []WatchKeepsUp
  <1>1. ASSUME DInv PROVE WatchKeepsUp
    <2>1. SUFFICES ASSUME NEW c \in Clients, cmd[c].kind = "watch", At(c, "listen"),
                          ~cmd[c].events, ~cmd[c].told, cmd[c].alone, cmd[c].heard # None
                   PROVE  /\ cmd[c].from \in Versions /\ cmd[c].heard <= cmd[c].from
                          /\ CopyOf(cmd[c].from)
      BY DEF WatchKeepsUp
    <2>2. Watched(c) /\ edit \in Versions
      BY <1>1, <2>1 DEF DInv, Own, TypeOK
    <2>3. cmd[c].from # None /\ cmd[c].heard <= cmd[c].from /\ CopyOf(cmd[c].from)
      BY <2>1, <2>2 DEF Watched, At, Begun
    <2>4. cmd[c].from \in 0..edit /\ 0..edit \subseteq Versions
      BY <2>2, <2>3, BoundsAssumption DEF Watched, Versions
    <2>5. QED
      BY <2>3, <2>4
  <1>2. QED
    BY <1>1, DeployInvariant, PTL

=============================================================================
