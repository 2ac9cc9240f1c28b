---------------------------- MODULE OptionsProofs ----------------------------
(* Proofs about Options, for every number of options, starts and services. *)
EXTENDS Options, TLAPS

(* New starts from fields that record no option. *)
LEMMA InitInv == Init => IInv
BY DEF Init, IInv, LoadErrors, ServiceError

(* What Connect or Run builds depends on the TLS config and the raw options. *)
LEMMA CredentialsFrame ==
    UNCHANGED <<tlsConfig, rawOpts>> => Credentials' = Credentials
BY DEF Credentials

(* Every option, and Connect or Run, keeps the fields in step with the last  *)
(* option of each group.                                                     *)
LEMMA NextInv == IInv /\ [Next]_vars => IInv'
<1> SUFFICES ASSUME IInv, [Next]_vars PROVE IInv'
    OBVIOUS
<1> USE DEF IInv, TLSConfigs, LoadErrors, ServiceError
<1>1. CASE WithInsecure
    BY <1>1 DEF WithInsecure, Apply
<1>2. ASSUME NEW kind \in TLSConfigs, WithTLSOk(kind) PROVE IInv'
    BY <1>2 DEF WithTLSOk, SetTLS, Apply
<1>3. ASSUME NEW kind \in TLSConfigs, NEW err \in LoadErrors, WithTLSFails(kind, err)
      PROVE  IInv'
    BY <1>3 DEF WithTLSFails, RecordLoadError, Apply
<1>4. CASE WithLoadBalancing
    BY <1>4 DEF WithLoadBalancing, Apply
<1>5. CASE WithDefaultServiceConfig
    BY <1>5 DEF WithDefaultServiceConfig, Apply
<1>6. CASE WithServiceConfigFails
    BY <1>6 DEF WithServiceConfigFails, Apply
<1>7. ASSUME NEW opt, WithRaw(opt) PROVE IInv'
    BY <1>7 DEF WithRaw, Apply
<1>8. CASE WithInterceptors
    BY <1>8 DEF WithInterceptors, Apply, history
<1>9. ASSUME NEW f, WithFlag(f) PROVE IInv'
    BY <1>9 DEF WithFlag, Apply, history
<1>10. CASE Delegate
    BY <1>10 DEF Delegate, Apply, fields, history
<1>11. CASE NewReturns
    BY <1>11 DEF NewReturns, fields, history
<1>12. ASSUME NEW s \in Services, RegisterService(s) PROVE IInv'
  <2>1. Credentials' = Credentials
      BY <1>12, CredentialsFrame DEF RegisterService, fields
  <2>2. QED BY <1>12, <2>1 DEF RegisterService, fields, history
<1>13. CASE StartRefused
    BY <1>13 DEF StartRefused, fields, history
<1>14. CASE Start
    BY <1>14 DEF Start, fields, history
<1>15. CASE Build
  <2>1. Credentials' = Credentials
      BY <1>15, CredentialsFrame DEF Build
  <2>2. inUse'.creds = Credentials
      BY <1>15 DEF Build, Built
  <2>3. QED BY <1>15, <2>1, <2>2 DEF Build, RegistrarsCopied, history
<1>16. CASE Stop
    BY <1>16 DEF Stop, fields, history
<1>17. CASE UNCHANGED vars
  <2>1. Credentials' = Credentials
      BY <1>17, CredentialsFrame DEF vars, fields
  <2>2. QED BY <1>17, <2>1 DEF vars, fields, running, history
<1>18. QED
    BY <1>1, <1>2, <1>3, <1>4, <1>5, <1>6, <1>7, <1>8, <1>9, <1>10, <1>11, <1>12, <1>13,
       <1>14, <1>15, <1>16, <1>17 DEF Next

(* The strengthening holds throughout. *)
LEMMA Inductive == Spec => []IInv
BY InitInv, NextInv, PTL DEF Spec

(* The two option.go files, for every number of options: what starts with    *)
(* TLS uses the credentials of the last credentials option.                  *)
THEOREM CredentialsAreFresh == Spec => []NoStaleCredentials
<1>1. IInv => NoStaleCredentials
    BY DEF IInv, NoStaleCredentials, Credentials, TLSConfigs
<1>2. QED
    BY <1>1, Inductive, PTL

(* Connect and Run, for every number of options: a refusal names a failure   *)
(* that no later option of its group repaired.                               *)
THEOREM RefusalIsJustified == Spec => []RefusedForCause
<1>1. IInv => RefusedForCause
    BY DEF IInv, RefusedForCause
<1>2. QED
    BY <1>1, Inductive, PTL

(* RegisterService against Run: every Run serves what was registered before  *)
(* it began.                                                                 *)
THEOREM RegisteredServed == Spec => []RegisteredIsServed
<1>1. IInv => RegisteredIsServed
    BY DEF IInv, RegisteredIsServed
<1>2. QED
    BY <1>1, Inductive, PTL

(* The latest service config in a list of options is the one with the        *)
(* largest index.                                                            *)
LEMMA LatestWins ==
    ASSUME NEW opts \in Seq(RawOpts), NEW i \in ServiceAt(opts), Latest(opts, i)
    PROVE  ServiceConfig(opts) = opts[i] /\ opts[i] \in ServiceOpts
<1> DEFINE c == CHOOSE k \in ServiceAt(opts) : Latest(opts, k)
<1>1. c \in ServiceAt(opts) /\ Latest(opts, c)
    OBVIOUS
<1>2. c <= i /\ i <= c
    BY <1>1 DEF Latest
<1>3. c \in Int /\ i \in Int
    BY <1>1 DEF ServiceAt
<1>4. c = i
    BY <1>2, <1>3
<1>5. QED
    BY <1>4 DEF ServiceConfig, ServiceAt

(* A service config that is appended takes effect.                           *)
LEMMA AppendService ==
    ASSUME NEW opts \in Seq(RawOpts), NEW opt \in ServiceOpts
    PROVE  /\ \E i \in ServiceAt(Append(opts, opt)) : Latest(Append(opts, opt), i)
           /\ ServiceConfig(Append(opts, opt)) = opt
           /\ Append(opts, opt) \in Seq(RawOpts)
<1> DEFINE all == Append(opts, opt)
           n   == Len(opts) + 1
<1>1. all \in Seq(RawOpts) /\ Len(all) = n /\ all[n] = opt
    BY DEF RawOpts
<1>2. n \in ServiceAt(all) /\ Latest(all, n)
    BY <1>1 DEF ServiceAt, Latest
<1>3. QED
    BY <1>1, <1>2, LatestWins

(* Any other option that is appended leaves it alone.                        *)
LEMMA AppendOther ==
    ASSUME NEW opts \in Seq(RawOpts), NEW opt \in RawOpts \ ServiceOpts,
           ServiceAt(opts) # {} => \E i \in ServiceAt(opts) : Latest(opts, i)
    PROVE  /\ ServiceAt(Append(opts, opt)) # {} =>
                  \E i \in ServiceAt(Append(opts, opt)) : Latest(Append(opts, opt), i)
           /\ ServiceConfig(Append(opts, opt)) = ServiceConfig(opts)
           /\ Append(opts, opt) \in Seq(RawOpts)
<1> DEFINE all == Append(opts, opt)
<1>1. all \in Seq(RawOpts) /\ Len(all) = Len(opts) + 1 /\ all[Len(opts) + 1] = opt
    OBVIOUS
<1>2. \A i \in 1..Len(opts) : all[i] = opts[i]
    OBVIOUS
<1>3. ServiceAt(all) = ServiceAt(opts)
    BY <1>1, <1>2 DEF ServiceAt
<1>4. CASE ServiceAt(opts) = {}
    BY <1>1, <1>3, <1>4 DEF ServiceConfig
<1>5. CASE ServiceAt(opts) # {}
  <2>1. PICK i \in ServiceAt(opts) : Latest(opts, i)
      BY <1>5
  <2>2. Latest(all, i)
      BY <1>3, <2>1 DEF Latest
  <2>3. ServiceConfig(all) = all[i] /\ ServiceConfig(opts) = opts[i]
      BY <1>1, <1>3, <2>1, <2>2, LatestWins
  <2>4. all[i] = opts[i]
      BY <1>2, <2>1 DEF ServiceAt
  <2>5. QED
      BY <1>1, <1>3, <2>1, <2>2, <2>3, <2>4
<1>6. QED
    BY <1>4, <1>5

(* The list of raw options and the history of service configs keep in step.  *)
LEMMA ServiceInductive == Spec => []ServiceInv
<1>1. Init => ServiceInv
    BY DEF Init, ServiceInv, ServiceAt, ServiceConfig
<1>2. ServiceInv /\ [Next]_vars => ServiceInv'
  <2> SUFFICES ASSUME ServiceInv, [Next]_vars PROVE ServiceInv'
      OBVIOUS
  <2> USE DEF ServiceInv
  <2>1. CASE WithLoadBalancing
    <3>1. ServiceConfig(rawOpts') = "policy" /\ rawOpts' \in Seq(RawOpts)
            /\ \E i \in ServiceAt(rawOpts') : Latest(rawOpts', i)
        BY <2>1, AppendService DEF WithLoadBalancing, PolicyAdded, ServiceOpts
    <3>2. QED BY <2>1, <3>1 DEF WithLoadBalancing, Apply
  <2>2. ASSUME NEW opt \in {"tuning", "creds", "service"}, WithRaw(opt) PROVE ServiceInv'
    <3>1. CASE opt = "service"
      <4>1. ServiceConfig(rawOpts') = "service" /\ rawOpts' \in Seq(RawOpts)
              /\ \E i \in ServiceAt(rawOpts') : Latest(rawOpts', i)
          BY <2>2, <3>1, AppendService DEF WithRaw, ServiceOpts
      <4>2. QED BY <2>2, <3>1, <4>1 DEF WithRaw, Apply
    <3>2. CASE opt # "service"
      <4>0. opt \in RawOpts \ ServiceOpts
          BY <3>2 DEF RawOpts, ServiceOpts
      <4>1. /\ ServiceConfig(rawOpts') = ServiceConfig(rawOpts)
            /\ rawOpts' \in Seq(RawOpts)
            /\ ServiceAt(rawOpts') # {} => \E i \in ServiceAt(rawOpts') : Latest(rawOpts', i)
          BY <2>2, <4>0, AppendOther DEF WithRaw
      <4>2. QED BY <2>2, <3>2, <4>1 DEF WithRaw, Apply
    <3>3. QED BY <3>1, <3>2
  <2>3. CASE Build BY <2>3 DEF Build, Built, history
  <2>4. ASSUME UNCHANGED <<side, rawOpts, lastSet>>,
               phase' = "started" => phase = "started" /\ inUse' = inUse
        PROVE  ServiceInv'
      BY <2>4
  <2> USE DEF fields, running, history, Apply
  <2>5. CASE \/ WithInsecure
             \/ \E kind \in TLSConfigs : WithTLSOk(kind)
             \/ \E kind \in TLSConfigs, err \in LoadErrors : WithTLSFails(kind, err)
             \/ WithDefaultServiceConfig
             \/ WithServiceConfigFails
             \/ WithInterceptors
             \/ \E f \in Flags : WithFlag(f)
             \/ Delegate
      BY <2>4, <2>5 DEF WithInsecure, WithTLSOk, WithTLSFails, WithDefaultServiceConfig,
         WithServiceConfigFails, WithInterceptors, WithFlag, Delegate
  <2>6. CASE \/ NewReturns
             \/ \E s \in Services : RegisterService(s)
             \/ StartRefused
             \/ Start
             \/ Stop
             \/ UNCHANGED vars
      BY <2>4, <2>6 DEF NewReturns, RegisterService, StartRefused, Start, Stop, vars
  <2>7. QED BY <2>1, <2>2, <2>3, <2>5, <2>6 DEF Next
<1>3. QED
    BY <1>1, <1>2, PTL DEF Spec

(* WithLoadBalancing against WithDialOptions, for every number of options:   *)
(* the connection has the service config that was set last.                  *)
THEOREM LastConfigWins == Spec => []LastServiceConfigWins
<1>1. ServiceInv => LastServiceConfigWins
    BY DEF ServiceInv, LastServiceConfigWins
<1>2. QED
    BY <1>1, ServiceInductive, PTL

(* The fields of Client and Server that the options write keep their types   *)
(* through any sequence of options, starts and registrations.                *)
THEOREM TypeCorrect == Spec => []TypeOK
<1>0. ASSUME tlsConfig \in {"nil"} \union TLSConfigs, chain \in Nat, flags \subseteq Flags,
             ServiceInv
      PROVE  Built \in Starts
  <2>1. Credentials \in {"plaintext", "raw"} \union TLSConfigs
      BY <1>0 DEF Credentials
  <2>2. CASE ServiceAt(rawOpts) = {}
    <3>1. ServiceConfig(rawOpts) = "none" BY <2>2 DEF ServiceConfig
    <3>2. QED BY <1>0, <2>1, <3>1 DEF Built, Starts, Chained
  <2>3. CASE ServiceAt(rawOpts) # {}
    <3>1. ServiceConfig(rawOpts) \in ServiceOpts
        BY <1>0, <2>3, LatestWins DEF ServiceInv
    <3>2. QED BY <1>0, <2>1, <3>1 DEF Built, Starts, Chained
  <2>4. QED BY <2>2, <2>3
<1>1. Init => TypeOK
  <2> SUFFICES ASSUME Init PROVE TypeOK OBVIOUS
  <2>1. applied \in 0..MaxOptions /\ starts \in 0..MaxStarts BY BoundsNat DEF Init
  <2>2. rawOpts \in Seq(RawOpts) BY DEF Init
  <2>3. Nothing \in Starts BY DEF Nothing, Starts
  <2>4. QED BY <2>1, <2>2, <2>3 DEF Init, TypeOK
<1>2. TypeOK /\ ServiceInv /\ [Next]_vars => TypeOK'
  <2> SUFFICES ASSUME TypeOK, ServiceInv, [Next]_vars PROVE TypeOK'
      OBVIOUS
  <2> USE DEF TypeOK
  <2>0. Apply => applied' \in 0..MaxOptions
      BY BoundsNat DEF Apply
  <2>1. CASE WithInsecure BY <2>0, <2>1 DEF WithInsecure, Apply, running
  <2>2. ASSUME NEW kind \in TLSConfigs, WithTLSOk(kind) PROVE TypeOK'
      BY <2>0, <2>2 DEF WithTLSOk, SetTLS, Apply, running
  <2>3. ASSUME NEW kind \in TLSConfigs, NEW err \in LoadErrors, WithTLSFails(kind, err)
        PROVE  TypeOK'
      BY <2>0, <2>3 DEF WithTLSFails, RecordLoadError, Apply, running
  <2>4. CASE WithLoadBalancing
    <3>1. rawOpts' \in Seq(RawOpts) BY <2>4 DEF WithLoadBalancing, PolicyAdded, RawOpts, ServiceOpts
    <3>2. QED BY <2>0, <2>4, <3>1 DEF WithLoadBalancing, Apply, running, ServiceOpts
  <2>5. CASE WithDefaultServiceConfig
      BY <2>0, <2>5 DEF WithDefaultServiceConfig, Apply, running
  <2>6. CASE WithServiceConfigFails
      BY <2>0, <2>6 DEF WithServiceConfigFails, Apply, running
  <2>7. ASSUME NEW opt \in {"tuning", "creds", "service"}, WithRaw(opt) PROVE TypeOK'
    <3>1. rawOpts' \in Seq(RawOpts) BY <2>7 DEF WithRaw, RawOpts, ServiceOpts
    <3>2. QED BY <2>0, <2>7, <3>1 DEF WithRaw, Apply, running, ServiceOpts
  <2>8. CASE WithInterceptors
      BY <2>0, <2>8 DEF WithInterceptors, Apply, running, history
  <2>9. ASSUME NEW f \in Flags, WithFlag(f) PROVE TypeOK'
      BY <2>0, <2>9 DEF WithFlag, Apply, running, history
  <2>10. CASE Delegate BY <2>0, <2>10 DEF Delegate, Apply, fields, running, history
  <2>11. CASE NewReturns BY <2>11 DEF NewReturns, fields, running, history
  <2>12. ASSUME NEW s \in Services, RegisterService(s) PROVE TypeOK'
      BY <2>12 DEF RegisterService, fields, history
  <2>13. CASE StartRefused BY <2>13 DEF StartRefused, fields, running, history
  <2>14. CASE Start BY <2>14, BoundsNat DEF Start, fields, history
  <2>15. CASE Build
      BY <2>15, <1>0 DEF Build, RegistrarsCopied, history
  <2>16. CASE Stop BY <2>16 DEF Stop, fields, running, history
  <2>17. CASE UNCHANGED vars BY <2>17 DEF vars, fields, running, history
  <2>18. QED
      BY <2>1, <2>2, <2>3, <2>4, <2>5, <2>6, <2>7, <2>8, <2>9, <2>10, <2>11, <2>12, <2>13,
         <2>14, <2>15, <2>16, <2>17 DEF Next
<1>3. QED
    BY <1>1, <1>2, ServiceInductive, PTL DEF Spec

(* Connect after Close, and Run after Run, are built as the first was.       *)
THEOREM RestartRepeats == Spec => StartIsRepeatable
<1>1. Init => RepeatInv
    BY DEF Init, RepeatInv, Repeatable, Nothing, Starts
<1>2. TypeOK' /\ RepeatInv /\ [Next]_vars => RepeatInv'
  <2> SUFFICES ASSUME TypeOK', RepeatInv, [Next]_vars PROVE RepeatInv'
      OBVIOUS
  <2> USE DEF RepeatInv, Repeatable
  <2>0. ASSUME UNCHANGED <<tlsConfig, rawOpts, chain, flags>> PROVE Built' = Built
      BY <2>0 DEF Built, Credentials, Chained
  <2>1. CASE Build
    <3>1. inUse' = Built BY <2>1 DEF Build
    <3>2. Built' = [creds |-> Credentials, service |-> ServiceConfig(rawOpts), chain |-> chain,
                    with |-> flags \ {"listener"}]
        BY <2>1 DEF Build, Built, Credentials, Chained
    <3>3. inUse' \in Starts
        BY DEF TypeOK
    <3>4. [inUse' EXCEPT !.with = @ \ {"listener"}] = Built'
        BY <3>1, <3>2 DEF Built, Chained
    <3>5. QED BY <2>1, <3>3, <3>4 DEF Build
  <2>2. CASE Start BY <2>0, <2>2 DEF Start, fields
  <2>3. CASE Apply BY <2>3 DEF Apply, running
  <2>4. CASE \/ WithInsecure
             \/ \E kind \in TLSConfigs : WithTLSOk(kind)
             \/ \E kind \in TLSConfigs, err \in LoadErrors : WithTLSFails(kind, err)
             \/ WithLoadBalancing
             \/ WithDefaultServiceConfig
             \/ WithServiceConfigFails
             \/ \E opt \in {"tuning", "creds", "service"} : WithRaw(opt)
             \/ WithInterceptors
             \/ \E f \in Flags : WithFlag(f)
             \/ Delegate
      BY <2>3, <2>4 DEF WithInsecure, WithTLSOk, WithTLSFails, WithLoadBalancing,
         WithDefaultServiceConfig, WithServiceConfigFails, WithRaw, WithInterceptors, WithFlag,
         Delegate
  <2>5. CASE \/ NewReturns
             \/ \E s \in Services : RegisterService(s)
             \/ StartRefused
             \/ Stop
             \/ UNCHANGED vars
      BY <2>0, <2>5 DEF NewReturns, RegisterService, StartRefused, Stop, vars, fields, running
  <2>6. QED BY <2>1, <2>2, <2>4, <2>5 DEF Next
<1>3. RepeatInv /\ [Next]_vars
        => [ phase = "starting" /\ phase' = "started" /\ starts > 1
               => inUse' = [inUse EXCEPT !.with = @ \ {"listener"}] ]_vars
  <2> SUFFICES ASSUME RepeatInv, Next, phase = "starting", phase' = "started", starts > 1
               PROVE  inUse' = [inUse EXCEPT !.with = @ \ {"listener"}]
      OBVIOUS
  <2>1. Build
      BY DEF Next, Apply, WithInsecure, WithTLSOk, WithTLSFails, WithLoadBalancing,
         WithDefaultServiceConfig, WithServiceConfigFails, WithRaw, WithInterceptors, WithFlag,
         Delegate, NewReturns, RegisterService, StartRefused, Start, Stop
  <2>2. QED BY <2>1 DEF Build, RepeatInv, Repeatable
<1>4. QED
    BY <1>1, <1>2, <1>3, TypeCorrect, PTL DEF Spec, StartIsRepeatable

=============================================================================
