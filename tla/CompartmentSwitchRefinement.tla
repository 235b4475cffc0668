---------------------- MODULE CompartmentSwitchRefinement ----------------------
(***************************************************************************)
(* CompartmentSwitch implements CallProtocol.  The open calls are read off *)
(* the return addresses on the executive stack; OpenedAt says what they    *)
(* are at each place of control, from the invariant of                     *)
(* CompartmentSwitchProofs.  Flow follows the request of a call through    *)
(* the argument registers, and its reply back.                             *)
(***************************************************************************)
EXTENDS CompartmentSwitchProofs

One == <<[site |-> "capmgr", req |-> data]>>
Two == <<[site |-> "capmgr", req |-> data], [site |-> "compartment", req |-> serviceData]>>

(* How many calls are open.                                                *)
Level ==
  IF pc = "main" \/ (pc = "CompartmentCaller" /\ mode = "executive")
     \/ (pc = "CompartmentSwitchEntry" /\ c1 = "CompartmentUnwrap") THEN 0
  ELSE IF \/ pc \in {"CompartmentServiceHandler", "CompartmentServiceCallbackSwitchReturn"}
          \/ pc = "CompartmentSwitchReturn" /\ csp = Base(2)
          \/ pc = "CallerReturn" /\ mode = "restricted" THEN 2
  ELSE 1

OpenedAt ==
  pc \notin {"exit", "terminated"} =>
    OpenCalls = IF Level = 0 THEN <<>> ELSE IF Level = 1 THEN One ELSE Two

(* The argument and the result of the innermost open call.                 *)
Carries(c, object) == c.fn = object.fn /\ c.arg = object.arg
ServiceRequest == serviceData \in [fn : Service, arg : Arg] /\ serviceData.arg = data.arg

Flow ==
  /\ pc \in {"CompartmentCaller", "CompartmentSwitchEntry"} /\ c1 = "CompartmentUnwrap" =>
       Carries(c2, data)
  /\ pc \in {"CompartmentCaller", "CompartmentSwitchEntry"} /\ c1 = "CompartmentServiceHandler" =>
       Carries(c2, serviceData) /\ ServiceRequest
  /\ pc \in {"CompartmentUnwrap", "CallFunction"} => c0.fn = data.fn
  /\ pc = "Function" => todo = Script[data.fn] \/ memBuff.arg = data.arg
  /\ pc = "CompartmentServiceHandler" => Carries(c0, serviceData) /\ ServiceRequest
  /\ \/ pc = "CompartmentServiceCallbackSwitchReturn"
     \/ pc = "CompartmentSwitchReturn" /\ csp = Base(2)
     \/ pc = "CallerReturn" /\ mode = "restricted"
     => c0 = ReplyTo(serviceData) /\ ServiceRequest
  /\ \/ pc = "CompartmentSwitchReturn" /\ csp = Base(1)
     \/ pc = "CallerReturn" /\ mode = "executive"
     => c0 = ReplyTo(data)

LEMMA FlowInit == Init => Flow
BY DEF Init, Flow

(* Each operation passes the request or the reply on.                      *)
LEMMA FlowStep == Inv /\ Flow /\ [Next]_vars => Flow'
<1> SUFFICES ASSUME Inv, Flow, [Next]_vars PROVE Flow'
  OBVIOUS
<1> USE DEF Carries, ServiceRequest, ReplyTo
<1>0. TypeOK /\ Place /\ Base(1) # Base(2)
  BY Layout DEF Inv
<1>1. ASSUME NEW f \in ApiFn, CallUnknownFunction(f) PROVE Flow'
  BY <1>1 DEF Flow, CallUnknownFunction
<1>2. ASSUME NEW f \in ApiFn, NEW a \in Arg, CallCompartmentFunction(f, a) PROVE Flow'
  BY <1>2 DEF Flow, CallCompartmentFunction
<1>3. CASE MainExit
  BY <1>3 DEF Flow, MainExit
<1>4. CASE CompartmentCaller
  BY <1>4 DEF Flow, CompartmentCaller, program
<1>5. CASE CompartmentSwitchEntry
  <2>1. c0' = [c2 EXCEPT !.kind = "object"] /\ c2 \in Payload
        /\ UNCHANGED <<c1, c2, data, serviceData>> /\ pc' = c1
    BY <1>0, <1>5 DEF CompartmentSwitchEntry, program, TypeOK
  <2>2. c0'.fn = c2.fn /\ c0'.arg = c2.arg
    BY <2>1 DEF Payload
  <2>3. c1 \in {"CompartmentUnwrap", "CompartmentServiceHandler"} /\ pc = "CompartmentSwitchEntry"
    BY <1>0, <1>5, PlaceOfControl DEF CompartmentSwitchEntry, EnteringCompartment, EnteringService
  <2> QED BY <2>1, <2>2, <2>3 DEF Flow
<1>6. CASE CompartmentSwitchReturn
  <2>1. /\ pc = "CompartmentSwitchReturn" /\ UNCHANGED <<c0, data, serviceData>>
        /\ pc' \in {"CallerReturn", "fault"} /\ c30' = mem[csp + ClrSlot]
        /\ mode' = IF c30' = InCompartment THEN "restricted" ELSE "executive"
    BY <1>6 DEF CompartmentSwitchReturn, SwitchRestores, SwitchClears, program
  <2>2. ReturningToCompartment \/ ReturningToManager
    BY <1>0, <2>1, PlaceOfControl
  <2>3. CASE ReturningToCompartment
    <3>1. csp = Base(2) /\ mode' = "restricted"
      BY <2>1, <2>3 DEF ReturningToCompartment, ServiceFrames, InnerSwitchFrame
    <3> QED BY <2>1, <3>1 DEF Flow
  <2>4. CASE ReturningToManager
    <3>1. csp = Base(1) /\ mode' = "executive"
      BY <2>1, <2>4 DEF ReturningToManager, OuterSwitchFrame, InCapMgr, InCompartment
    <3> QED BY <2>1, <3>1 DEF Flow
  <2> QED BY <2>2, <2>3, <2>4
<1>7. CASE CompartmentServiceCallbackSwitchReturn
  <2>1. csp' = Base(2)
    <3>1. LeavingHandler
      BY <1>0, <1>7, PlaceOfControl DEF CompartmentServiceCallbackSwitchReturn
    <3>2. c29' = Base(2) + RecordSlot
      BY <1>7, <3>1 DEF CompartmentServiceCallbackSwitchReturn, LeavingHandler
    <3> QED BY <1>7, <3>2, Layout DEF CompartmentServiceCallbackSwitchReturn, RecordSlot
  <2> QED BY <1>0, <1>7, <2>1 DEF Flow, CompartmentServiceCallbackSwitchReturn, program
<1>8. CASE CompartmentUnwrap
  BY <1>8 DEF Flow, CompartmentUnwrap
<1>9. CASE CallFunction
  BY <1>9 DEF Flow, CallFunction
<1>10. CASE CompartmentServiceCallback
  <2>1. data.arg \in Arg
    BY <1>0, <1>10, PlaceOfControl DEF CompartmentServiceCallback, InFunction, ApiCall, TypeOK, Object
  <2> QED BY <1>10, <2>1, ApiAssumption DEF Flow, CompartmentServiceCallback
<1>11. CASE UnknownService
  BY <1>11 DEF Flow, UnknownService
<1>12. CASE CompartmentReturn
  <2>1. csp = Base(1)
    BY <1>0, <1>12, PlaceOfControl DEF CompartmentReturn, InFunction
  <2>2. c0' = Value(data.fn, data.arg)
    BY <1>12 DEF Flow, CompartmentReturn
  <2> QED BY <1>0, <1>12, <2>1, <2>2 DEF Flow, CompartmentReturn
<1>13. CASE CompartmentServiceHandler
  BY <1>13 DEF Flow, CompartmentServiceHandler, program
<1>14. CASE CallerReturn
  <2>1. CASE mode = "executive"
    BY <1>14, <2>1 DEF Flow, CallerReturn
  <2>2. CASE mode # "executive"
    <3>1. memBuff'.arg = data'.arg /\ pc' \in {"Function", "fault"}
      BY <1>0, <1>14, <2>2 DEF Flow, CallerReturn, Value, TypeOK
    <3> QED BY <3>1 DEF Flow
  <2> QED BY <2>1, <2>2
<1>15. CASE UNCHANGED vars
  BY <1>15 DEF Flow, vars, machine, program
<1> QED BY <1>1, <1>2, <1>3, <1>4, <1>5, <1>6, <1>7, <1>8, <1>9, <1>10, <1>11, <1>12, <1>13, <1>14,
        <1>15 DEF Next, Step, Ended

LEMMA Joined ==
  ASSUME NEW a \in Int, NEW b \in Int
  PROVE  /\ <<>> \o <<a>> = <<a>> /\ <<a>> \o <<>> = <<a>>
         /\ <<a>> \o <<b>> = <<a, b>> /\ <<a, b>> \o <<>> = <<a, b>>
<1>1. <<a>> \in Seq(Int) /\ <<b>> \in Seq(Int) /\ <<a, b>> \in Seq(Int) /\ <<>> \in Seq(Int)
  OBVIOUS
<1>2. <<>> \o <<a>> = <<a>>
  BY <1>1
<1>3. <<a>> \o <<>> = <<a>>
  BY <1>1
<1>4. <<a>> \o <<b>> = <<a, b>>
  <2> DEFINE s == <<a>> \o <<b>>
             t == <<a, b>>
  <2>1. s \in Seq(Int) /\ Len(s) = 2 /\ s[1] = a /\ s[2] = b
    BY <1>1
  <2>2. t \in Seq(Int) /\ Len(t) = 2 /\ t[1] = a /\ t[2] = b
    BY <1>1
  <2> HIDE DEF s, t
  <2>3. s \in [1 .. 2 -> Int] /\ t \in [1 .. 2 -> Int] /\ \A i \in 1 .. 2 : s[i] = t[i]
    BY <2>1, <2>2
  <2>4. s = t
    BY <2>3
  <2> QED BY <2>4 DEF s, t
<1>5. <<a, b>> \o <<>> = <<a, b>>
  BY <1>1
<1> QED BY <1>2, <1>3, <1>4, <1>5

(* What is open, at each place.                                            *)
LEMMA OpenCallsAre == Inv => OpenedAt
<1> SUFFICES ASSUME Inv, pc \notin {"exit", "terminated"}
             PROVE  OpenCalls = IF Level = 0 THEN <<>> ELSE IF Level = 1 THEN One ELSE Two
  BY DEF OpenedAt
<1>0. TypeOK /\ Place
  BY DEF Inv
<1>1. /\ Level = 0 => pc # "CallerReturn" /\ csp \in {MainSp, CallerSp}
      /\ Level = 1 => \/ pc # "CallerReturn" /\ csp = Base(1) /\ OuterSwitchFrame
                      \/ pc = "CallerReturn" /\ csp = CallerSp /\ c30 = InCapMgr
      /\ Level \notin {0, 1} =>
           \/ pc # "CallerReturn" /\ csp \in {Base(2), HandlerSp} /\ OuterSwitchFrame /\ InnerSwitchFrame
           \/ pc = "CallerReturn" /\ csp = Base(1) /\ OuterSwitchFrame /\ c30 = InCompartment
  <2>1. /\ InMain \/ CallingCompartment => csp = MainSp /\ Level = 0
        /\ EnteringCompartment => csp = CallerSp /\ Level = 0
    BY DEF InMain, CallingCompartment, EnteringCompartment, Level
  <2>2. InUnwrap \/ InCallFunction \/ InFunction \/ CallingService \/ EnteringService =>
          csp = Base(1) /\ OuterSwitchFrame /\ Level = 1
    BY DEF InUnwrap, InCallFunction, InFunction, CallingService, EnteringService, Level
  <2>3. InHandler \/ LeavingHandler \/ ReturningToCompartment =>
          csp \in {Base(2), HandlerSp} /\ OuterSwitchFrame /\ InnerSwitchFrame /\ Level = 2
    BY DEF InHandler, LeavingHandler, ReturningToCompartment, ServiceFrames, Level
  <2>4. ReturnedToCompartment =>
          csp = Base(1) /\ OuterSwitchFrame /\ c30 = InCompartment /\ pc = "CallerReturn" /\ Level = 2
    BY DEF ReturnedToCompartment, Level
  <2>5. ReturningToManager => csp = Base(1) /\ OuterSwitchFrame /\ Level = 1
    BY Layout DEF ReturningToManager, Level
  <2>6. ReturnedToManager => csp = CallerSp /\ c30 = InCapMgr /\ pc = "CallerReturn" /\ Level = 1
    BY DEF ReturnedToManager, Level
  <2>7. /\ InMain => pc # "CallerReturn"
        /\ CallingCompartment \/ EnteringCompartment => pc # "CallerReturn"
        /\ InUnwrap \/ InCallFunction \/ InFunction \/ CallingService \/ EnteringService => pc # "CallerReturn"
        /\ InHandler \/ LeavingHandler \/ ReturningToCompartment \/ ReturningToManager => pc # "CallerReturn"
    BY DEF InMain, CallingCompartment, EnteringCompartment, InUnwrap, InCallFunction, InFunction,
       CallingService, EnteringService, InHandler, LeavingHandler, ReturningToCompartment,
       ReturningToManager
  <2>8. ~Stopped
    BY DEF Stopped
  <2> QED BY <1>0, <2>1, <2>2, <2>3, <2>4, <2>5, <2>6, <2>7, <2>8 DEF Place
<1>2. /\ csp \in {MainSp, CallerSp} => Depth = 0
      /\ csp = Base(1) => Depth = 1
      /\ csp \in {Base(2), HandlerSp} => Depth = 2
  BY Layout DEF Depth
<1>3. InCapMgr # InCompartment
  BY DEF InCapMgr, InCompartment
<1>7. /\ Depth = 0 => [i \in 1 .. Depth |-> mem[Base(i) + ClrSlot]] = <<>>
      /\ Depth = 1 /\ OuterSwitchFrame =>
           [i \in 1 .. Depth |-> mem[Base(i) + ClrSlot]] = <<InCapMgr>>
      /\ Depth = 2 /\ OuterSwitchFrame /\ InnerSwitchFrame =>
           [i \in 1 .. Depth |-> mem[Base(i) + ClrSlot]] = <<InCapMgr, InCompartment>>
  BY DEF OuterSwitchFrame, InnerSwitchFrame
<1>8. /\ <<>> \o <<InCapMgr>> = <<InCapMgr>> /\ <<InCapMgr>> \o <<>> = <<InCapMgr>>
      /\ <<InCapMgr>> \o <<InCompartment>> = <<InCapMgr, InCompartment>>
      /\ <<InCapMgr, InCompartment>> \o <<>> = <<InCapMgr, InCompartment>>
  BY Joined DEF InCapMgr, InCompartment
<1>4. CASE Level = 0
  <2>1. Labels = <<>>
    BY <1>1, <1>2, <1>4, <1>7 DEF Labels
  <2> QED BY <1>4, <2>1 DEF OpenCalls
<1>5. CASE Level = 1
  <2>1. Labels = <<InCapMgr>>
    <3>1. CASE pc = "CallerReturn"
      BY <1>1, <1>2, <1>5, <1>7, <1>8, <3>1 DEF Labels
    <3>2. CASE pc # "CallerReturn"
      BY <1>1, <1>2, <1>5, <1>7, <1>8, <3>2 DEF Labels
    <3> QED BY <3>1, <3>2
  <2> QED BY <1>5, <2>1 DEF OpenCalls, One
<1>6. CASE Level \notin {0, 1}
  <2>1. Labels = <<InCapMgr, InCompartment>>
    <3>1. CASE pc = "CallerReturn"
      BY <1>1, <1>2, <1>6, <1>7, <1>8, <3>1 DEF Labels
    <3>2. CASE pc # "CallerReturn"
      BY <1>1, <1>2, <1>6, <1>7, <1>8, <3>2 DEF Labels
    <3> QED BY <3>1, <3>2
  <2> QED BY <1>3, <1>6, <2>1 DEF OpenCalls, Two
<1> QED BY <1>4, <1>5, <1>6
------------------------------------------------------------------------------
replies == [capmgr |-> result, compartment |-> memBuff]
ended   == pc \in {"exit", "terminated"}

(* Opening the call of either side, and answering it.                      *)
LEMMA OpenOuter ==
  ASSUME OpenCalls = <<>>, OpenCalls' = One', data \in [fn : ApiFn, arg : Arg], ~ended,
         UNCHANGED <<replies, data>>, ~ended'
  PROVE  Protocol!Next
<1> DEFINE r == data
<1>1. r \in [fn : ApiFn, arg : Arg] /\ OpenCalls' = Append(OpenCalls, [site |-> "capmgr", req |-> r])
  BY DEF One
<1> HIDE DEF r
<1>2. Protocol!Call("capmgr", r)
  BY <1>1 DEF Protocol!Call, Protocol!Running, replies, ended
<1> QED BY <1>1, <1>2 DEF Protocol!Next, Protocol!Side

LEMMA OpenInner ==
  ASSUME OpenCalls = One, OpenCalls' = Two', serviceData \in [fn : Service, arg : Arg], ~ended,
         UNCHANGED <<replies, data, serviceData>>, ~ended'
  PROVE  Protocol!Next
<1> DEFINE r == serviceData
<1>1. r \in [fn : Service, arg : Arg] /\ OpenCalls' = Append(OpenCalls, [site |-> "compartment", req |-> r])
  BY DEF One, Two
<1>2. Len(OpenCalls) = 1 /\ OpenCalls[1].site = "capmgr" /\ OpenCalls # <<>>
  BY DEF One
<1> HIDE DEF r
<1>3. Protocol!Call("compartment", r)
  BY <1>1, <1>2 DEF Protocol!Call, Protocol!Running, replies, ended
<1> QED BY <1>1, <1>3 DEF Protocol!Next, Protocol!Side

LEMMA AnswerOuter ==
  ASSUME OpenCalls = One, OpenCalls' = <<>>, ~ended, ~ended',
         result' = ReplyTo(data), UNCHANGED memBuff
  PROVE  Protocol!Next
<1>1. Len(OpenCalls) = 1 /\ OpenCalls[1] = [site |-> "capmgr", req |-> data] /\ OpenCalls # <<>>
      /\ SubSeq(OpenCalls, 1, 0) = <<>>
  BY DEF One
<1>2. Protocol!Return
  BY <1>1 DEF Protocol!Return, ended
<1> QED BY <1>2 DEF Protocol!Next

LEMMA AnswerInner ==
  ASSUME OpenCalls = Two, OpenCalls' = One', UNCHANGED data, ~ended, ~ended',
         memBuff' = ReplyTo(serviceData), UNCHANGED result
  PROVE  Protocol!Next
<1>1. Len(OpenCalls) = 2 /\ OpenCalls[2] = [site |-> "compartment", req |-> serviceData]
      /\ OpenCalls # <<>> /\ SubSeq(OpenCalls, 1, 1) = One
  <2> DEFINE a == [site |-> "capmgr", req |-> data]
             b == [site |-> "compartment", req |-> serviceData]
             t == SubSeq(<<a, b>>, 1, 1)
  <2>1. Len(<<a, b>>) = 2 /\ <<a, b>>[2] = b /\ <<a, b>> # <<>>
    OBVIOUS
  <2>2. t = <<a>>
    <3> HIDE DEF a, b
    <3>1. <<a, b>> \in Seq({a, b}) /\ <<a>> \in Seq({a, b})
      OBVIOUS
    <3>2. t \in Seq({a, b}) /\ Len(t) = 1 /\ t[1] = a
      BY <3>1
    <3>3. Len(<<a>>) = 1 /\ <<a>>[1] = a
      OBVIOUS
    <3> HIDE DEF t
    <3>4. t \in [1 .. 1 -> {a, b}] /\ <<a>> \in [1 .. 1 -> {a, b}]
      BY <3>1, <3>2, <3>3
    <3> QED BY <3>2, <3>3, <3>4
  <2> QED BY <2>1, <2>2 DEF One, Two
<1>2. OpenCalls' = SubSeq(OpenCalls, 1, 1)
  BY <1>1 DEF One
<1>3. Protocol!Return
  BY <1>1, <1>2 DEF Protocol!Return, ended
<1> QED BY <1>3 DEF Protocol!Next

(* A step by which nothing is opened or answered.                          *)
LEMMA Silent ==
  ASSUME UNCHANGED <<OpenCalls, replies, ended>>
  PROVE  UNCHANGED Protocol!vars
BY DEF Protocol!vars, replies, ended

LEMMA Stops ==
  ASSUME UNCHANGED <<OpenCalls, replies>>, ended'
  PROVE  Protocol!Next
BY DEF Protocol!Next, Protocol!Stop, replies, ended

LEMMA ProtocolInit == Init => Protocol!Init
<1> SUFFICES ASSUME Init PROVE Protocol!Init
  OBVIOUS
<1>1. Inv /\ pc = "main"
  BY InitEstablishesInv DEF Init
<1>2. OpenCalls = <<>>
  BY <1>1, OpenCallsAre DEF OpenedAt, Level
<1>3. [capmgr |-> result, compartment |-> memBuff] = [s \in Protocol!Side |-> Nothing]
  BY DEF Init, Protocol!Side
<1> QED BY <1>1, <1>2, <1>3 DEF Protocol!Init

LEMMA ProtocolStep ==
  ASSUME Inv, Inv', Flow, OpenedAt, OpenedAt', [Next]_vars
  PROVE  [Protocol!Next]_(Protocol!vars)
<1> USE DEF One, Two
<1>0. TypeOK /\ Place /\ TypeOK' /\ Place'
  BY DEF Inv
<1>1. ASSUME NEW f \in ApiFn, CallUnknownFunction(f) PROVE Protocol!Next
  <2>1. UNCHANGED <<OpenCalls, replies>>
    BY <1>1 DEF CallUnknownFunction, machine, program, OpenCalls, Labels, Depth, replies
  <2> QED BY <1>1, <2>1, Stops DEF CallUnknownFunction, ended
<1>2. ASSUME NEW f \in ApiFn, NEW a \in Arg, CallCompartmentFunction(f, a)
      PROVE  UNCHANGED Protocol!vars
  <2>1. OpenCalls = <<>> /\ OpenCalls' = <<>>
    BY <1>0, <1>2, PlaceOfControl DEF OpenedAt, Level, CallCompartmentFunction, InMain
  <2> QED BY <1>2, <2>1, Silent DEF CallCompartmentFunction, replies, ended
<1>3. CASE MainExit
  <2>1. UNCHANGED <<OpenCalls, replies>>
    BY <1>3 DEF MainExit, machine, program, OpenCalls, Labels, Depth, replies
  <2>2. Protocol!Next
    BY <1>3, <2>1, Stops DEF MainExit, ended
  <2> QED BY <2>2
<1>4. CASE CompartmentCaller
  <2>1. UNCHANGED OpenCalls
    <3>1. CASE mode = "executive"
      <4>1. c1' = "CompartmentUnwrap"
        BY <1>0, <1>4, <3>1, PlaceOfControl DEF CompartmentCaller, CallingCompartment
      <4> QED BY <1>4, <3>1, <4>1 DEF CompartmentCaller, OpenedAt, Level
    <3>2. CASE mode # "executive"
      <4>1. c1' = "CompartmentServiceHandler"
        BY <1>0, <1>4, <3>2, PlaceOfControl DEF CompartmentCaller, CallingService
      <4> QED BY <1>4, <3>2, <4>1 DEF CompartmentCaller, OpenedAt, Level, program
    <3> QED BY <3>1, <3>2
  <2>2. UNCHANGED Protocol!vars
    BY <1>4, <2>1, Silent DEF CompartmentCaller, program, replies, ended
  <2> QED BY <2>2
<1>5. CASE CompartmentSwitchEntry
  <2>1. /\ pc = "CompartmentSwitchEntry" /\ pc' = c1 /\ UNCHANGED <<result, memBuff, data, serviceData>>
    BY <1>5 DEF CompartmentSwitchEntry, program
  <2>2. UNCHANGED replies /\ ~ended
    BY <2>1 DEF replies, ended
  <2>3. CASE EnteringCompartment
    <3>1. c1 = "CompartmentUnwrap" /\ data \in [fn : ApiFn, arg : Arg]
      BY <1>0, <2>3 DEF EnteringCompartment, ApiCall, TypeOK, Object
    <3>2. OpenCalls = <<>> /\ OpenCalls' = One' /\ ~ended'
      BY <2>1, <3>1 DEF OpenedAt, Level, ended
    <3> HIDE DEF One, Two
    <3>3. Protocol!Next
      BY <2>1, <2>2, <3>1, <3>2, OpenOuter
    <3> QED BY <3>3
  <2>4. CASE EnteringService
    <3>1. c1 = "CompartmentServiceHandler" /\ serviceData \in [fn : Service, arg : Arg]
      BY <2>1, <2>4 DEF EnteringService, Flow, ServiceRequest
    <3>2. OpenCalls = One /\ OpenCalls' = Two' /\ ~ended'
      BY <2>1, <3>1 DEF OpenedAt, Level, ended
    <3> HIDE DEF One, Two
    <3>3. Protocol!Next
      BY <2>1, <2>2, <3>1, <3>2, OpenInner
    <3> QED BY <3>3
  <2> QED BY <1>0, <2>1, <2>3, <2>4, PlaceOfControl
<1>6. CASE CompartmentSwitchReturn
  <2>1. UNCHANGED OpenCalls
    <3>1. /\ pc = "CompartmentSwitchReturn" /\ pc' \in {"CallerReturn", "fault"}
          /\ UNCHANGED <<data, serviceData>> /\ c30' = mem[csp + ClrSlot]
          /\ mode' = IF c30' = InCompartment THEN "restricted" ELSE "executive"
      BY <1>6 DEF CompartmentSwitchReturn, SwitchRestores, SwitchClears, program
    <3>2. pc' = "CallerReturn"
      BY <1>0, <3>1 DEF TypeOK, Code
    <3>3. CASE ReturningToCompartment
      <4>1. csp = Base(2) /\ mode' = "restricted"
        BY <3>1, <3>3 DEF ReturningToCompartment, ServiceFrames, InnerSwitchFrame
      <4> QED BY <3>1, <3>2, <4>1 DEF OpenedAt, Level
    <3>4. CASE ReturningToManager
      <4>1. csp = Base(1) /\ mode' = "executive" /\ Base(1) # Base(2)
        BY <3>1, <3>4, Layout DEF ReturningToManager, OuterSwitchFrame, InCapMgr, InCompartment
      <4> QED BY <3>1, <3>2, <4>1 DEF OpenedAt, Level
    <3> QED BY <1>0, <3>1, <3>3, <3>4, PlaceOfControl
  <2>2. UNCHANGED <<replies, ended>>
    BY <1>0, <1>6 DEF CompartmentSwitchReturn, program, replies, ended
  <2>3. UNCHANGED Protocol!vars
    BY <2>1, <2>2, Silent
  <2> QED BY <2>3
<1>7. CASE CompartmentServiceCallbackSwitchReturn
  <2>1. pc' = "CompartmentSwitchReturn" /\ csp' = Base(2)
    <3>1. LeavingHandler
      BY <1>0, <1>7, PlaceOfControl DEF CompartmentServiceCallbackSwitchReturn
    <3>2. c29' = Base(2) + RecordSlot
      BY <1>7, <3>1 DEF CompartmentServiceCallbackSwitchReturn, LeavingHandler
    <3> QED BY <1>7, <3>2, Layout DEF CompartmentServiceCallbackSwitchReturn, RecordSlot
  <2>2. UNCHANGED OpenCalls
    BY <1>7, <2>1 DEF CompartmentServiceCallbackSwitchReturn, program, OpenedAt, Level
  <2>3. UNCHANGED Protocol!vars
    BY <1>7, <2>2, Silent DEF CompartmentServiceCallbackSwitchReturn, program, replies, ended
  <2> QED BY <2>3
<1>8. CASE CompartmentUnwrap
  <2>1. UNCHANGED OpenCalls
    BY <1>8 DEF CompartmentUnwrap, OpenedAt, Level
  <2>2. UNCHANGED Protocol!vars
    BY <1>8, <2>1, Silent DEF CompartmentUnwrap, replies, ended
  <2> QED BY <2>2
<1>9. CASE CallFunction
  <2>1. UNCHANGED OpenCalls
    BY <1>9 DEF CallFunction, OpenedAt, Level
  <2>2. UNCHANGED Protocol!vars
    BY <1>9, <2>1, Silent DEF CallFunction, replies, ended
  <2> QED BY <2>2
<1>10. CASE CompartmentServiceCallback
  <2>1. mode = "restricted"
    BY <1>0, <1>10, PlaceOfControl DEF CompartmentServiceCallback, InFunction
  <2>2. UNCHANGED OpenCalls
    BY <1>10, <2>1 DEF CompartmentServiceCallback, OpenedAt, Level
  <2>3. UNCHANGED Protocol!vars
    BY <1>10, <2>2, Silent DEF CompartmentServiceCallback, replies, ended
  <2> QED BY <2>3
<1>11. CASE UnknownService
  <2>1. UNCHANGED <<OpenCalls, replies>>
    BY <1>11 DEF UnknownService, machine, program, OpenCalls, Labels, Depth, replies
  <2>2. Protocol!Next
    BY <1>11, <2>1, Stops DEF UnknownService, ended
  <2> QED BY <2>2
<1>12. CASE CompartmentReturn
  <2>1. csp' = Base(1) /\ Base(1) # Base(2)
    BY <1>0, <1>12, PlaceOfControl, Layout DEF CompartmentReturn, InFunction
  <2>2. UNCHANGED OpenCalls
    BY <1>12, <2>1 DEF CompartmentReturn, OpenedAt, Level
  <2>3. UNCHANGED Protocol!vars
    BY <1>12, <2>2, Silent DEF CompartmentReturn, replies, ended
  <2> QED BY <2>3
<1>13. CASE CompartmentServiceHandler
  <2>1. UNCHANGED OpenCalls
    BY <1>13 DEF CompartmentServiceHandler, OpenedAt, Level, program
  <2>2. UNCHANGED Protocol!vars
    BY <1>13, <2>1, Silent DEF CompartmentServiceHandler, replies, ended, program
  <2> QED BY <2>2
<1>14. CASE CallerReturn
  <2>1. CASE mode = "executive"
    <3>0. pc' = "main"
      BY <1>0, <1>14, <2>1 DEF CallerReturn, TypeOK, Code
    <3>1. OpenCalls = One /\ OpenCalls' = <<>> /\ ~ended /\ ~ended'
      BY <1>14, <2>1, <3>0 DEF CallerReturn, OpenedAt, Level, ended
    <3>2. result' = ReplyTo(data) /\ UNCHANGED memBuff
      BY <1>14, <2>1 DEF CallerReturn, Flow
    <3> HIDE DEF One, Two
    <3>3. Protocol!Next
      BY <3>1, <3>2, AnswerOuter
    <3> QED BY <3>3
  <2>2. CASE mode # "executive"
    <3>0. pc' = "Function"
      BY <1>0, <1>14, <2>2 DEF CallerReturn, TypeOK, Code
    <3>1. OpenCalls = Two /\ OpenCalls' = One' /\ ~ended /\ ~ended'
      BY <1>0, <1>14, <2>2 DEF CallerReturn, OpenedAt, Level, ended, TypeOK
    <3>2. memBuff' = ReplyTo(serviceData) /\ UNCHANGED <<result, data>>
      BY <1>0, <1>14, <2>2 DEF CallerReturn, Flow, TypeOK
    <3> HIDE DEF One, Two
    <3>3. Protocol!Next
      BY <3>1, <3>2, AnswerInner
    <3> QED BY <3>3
  <2> QED BY <2>1, <2>2
<1>15. CASE UNCHANGED vars
  <2>1. UNCHANGED <<OpenCalls, replies, ended>>
    BY <1>15 DEF vars, machine, program, OpenCalls, Labels, Depth, replies, ended
  <2>2. UNCHANGED Protocol!vars
    BY <2>1, Silent
  <2> QED BY <2>2
<1> QED BY <1>1, <1>2, <1>3, <1>4, <1>5, <1>6, <1>7, <1>8, <1>9, <1>10, <1>11, <1>12, <1>13, <1>14,
        <1>15 DEF Next, Step, Ended

(* The switch is an implementation of nested calls: whatever the stacks'   *)
(* sizes and the calls made, each return, which goes where a frame says,   *)
(* answers the call opened last, with the reply to its request.            *)
THEOREM SwitchImplementsProtocol == Spec => ImplementsProtocol
<1>1. Init => Protocol!Init /\ Flow
  BY ProtocolInit, FlowInit
<1>2. Inv /\ Inv' /\ Flow /\ OpenedAt /\ OpenedAt' /\ [Next]_vars => [Protocol!Next]_(Protocol!vars)
  BY ProtocolStep
<1>3. Inv /\ Flow /\ [Next]_vars => Flow'
  BY FlowStep
<1>4. Inv => OpenedAt
  BY OpenCallsAre
<1> QED BY <1>1, <1>2, <1>3, <1>4, Invariance, PTL DEF Spec, ImplementsProtocol, Protocol!Spec
=============================================================================
