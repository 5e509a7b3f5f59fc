-------------------------- MODULE CredentialsProofs --------------------------
(***************************************************************************)
(* Theorems about Credentials for every set of clusters, life of a token    *)
(* and length of a command.                                                 *)
(***************************************************************************)
EXTENDS Credentials, TLAPS

(* Aging keeps the tokens' types and issuers, and never makes one fresher.  *)
LEMMA AgedTokens ==
  ASSUME NEW ts \in [Cluster -> Token]
  PROVE  /\ Aged(ts) \in [Cluster -> Token]
         /\ \A s \in Cluster : /\ Aged(ts)[s].issuer = ts[s].issuer
                               /\ Aged(ts)[s].left = IF ts[s].left > 0 THEN ts[s].left - 1 ELSE 0
BY CredentialsAssumption DEF Aged, Token, CredentialsAssumption

(* The empty memory has its type. *)
LEMMA NoCmdTyped == NoCmd \in Cmd
BY CredentialsAssumption DEF NoCmd, Cmd, Token, NoToken, MaybeCluster, CredentialsAssumption

(* A new token has its type. *)
LEMMA IssuedTyped == ASSUME TypeOK, NEW s \in Cluster PROVE Issued(s) \in Token
BY CredentialsAssumption
   DEF TypeOK, Issued, Kube, Token, Cmd, MaybeCluster, CredentialsAssumption

(* What is true of every token in memory: it is the source's own, unless    *)
(* one was requested for this source elsewhere; and one that a command      *)
(* sends had not expired or is new, and has lost no more of its life than   *)
(* the command has run.                                                     *)
Owned(ts) == \A s \in Cluster : ts[s].issuer \in {s, NoCluster} \/ s \in astray

KeptOrNew == \A s \in Cluster :
  pc = "request" /\ cmd.at = s => s \in cmd.kept \/ cmd.tokens[s].left + cmd.age >= Life

TokensInv == TypeOK /\ Owned(saved) /\ Owned(cmd.tokens) /\ KeptOrNew

(* The initial state satisfies the invariant. *)
LEMMA TokensInit == Init => TokensInv
<1> SUFFICES ASSUME Init PROVE TokensInv
  OBVIOUS
<1>1. TypeOK
  BY NoCmdTyped, CredentialsAssumption
  DEF Init, TypeOK, NoCmd, Token, NoToken, MaybeCluster, CredentialsAssumption
<1>2. Owned(saved) /\ Owned(cmd.tokens) /\ KeptOrNew
  BY DEF Init, Owned, KeptOrNew, NoCmd, NoToken
<1> QED
  BY <1>1, <1>2 DEF TokensInv

(* Every step keeps the invariant. *)
LEMMA TokensStep == TokensInv /\ [Next]_vars => TokensInv'
<1> SUFFICES ASSUME TokensInv, [Next]_vars PROVE TokensInv'
  OBVIOUS
<1> USE CredentialsAssumption DEF CredentialsAssumption
<1>1. CASE Tick
  <2>1. saved' \in [Cluster -> Token] /\ Owned(saved)'
    BY <1>1, AgedTokens DEF Tick, TokensInv, TypeOK, Owned
  <2>2. CASE pc = "idle"
    BY <1>1, <2>1, <2>2 DEF Tick, TokensInv, TypeOK, Owned, KeptOrNew
  <2>3. CASE pc # "idle"
    <3>1. cmd.tokens \in [Cluster -> Token] /\ cmd.age \in 0..MaxAge /\ cmd.age < MaxAge
      BY <1>1, <2>3 DEF Tick, TokensInv, TypeOK, Cmd
    <3>2. cmd' = [cmd EXCEPT !.tokens = Aged(@), !.age = @ + 1]
      BY <1>1, <2>3 DEF Tick
    <3>3. /\ cmd'.tokens = Aged(cmd.tokens) /\ cmd'.age = cmd.age + 1 /\ cmd'.at = cmd.at
          /\ cmd'.kept = cmd.kept
      BY <3>2 DEF TokensInv, TypeOK, Cmd
    <3>7. Aged(cmd.tokens) \in [Cluster -> Token] /\ cmd.age + 1 \in 0..MaxAge
      BY <3>1, AgedTokens
    <3>4. cmd' \in Cmd
      BY <3>2, <3>7 DEF TokensInv, TypeOK, Cmd
    <3>5. Owned(cmd.tokens)'
      BY <1>1, <3>1, <3>3, AgedTokens DEF Tick, TokensInv, Owned
    <3>6. KeptOrNew'
      <4> SUFFICES ASSUME NEW s \in Cluster, pc = "request", cmd.at = s, s \notin cmd.kept
                   PROVE  Aged(cmd.tokens)[s].left + (cmd.age + 1) >= Life
        BY <1>1, <3>3 DEF Tick, KeptOrNew
      <4>1. cmd.tokens[s].left + cmd.age >= Life /\ cmd.tokens[s].left \in Nat
        BY <3>1 DEF TokensInv, KeptOrNew, Token
      <4>2. cmd.tokens[s].left > 0
        BY <3>1, <4>1
      <4>3. Aged(cmd.tokens)[s].left = cmd.tokens[s].left - 1
        BY <3>1, <4>2, AgedTokens
      <4> QED
        BY <3>1, <4>1, <4>3
    <3> QED
      BY <1>1, <2>1, <3>3, <3>4, <3>5, <3>6 DEF Tick, TokensInv, TypeOK
  <2> QED
    BY <2>2, <2>3
<1>2. CASE Kill
  <2>1. PICK written \in SUBSET Cluster :
          saved' = [s \in Cluster |-> IF s \in written THEN cmd.tokens[s] ELSE saved[s]]
    BY <1>2 DEF Kill
  <2>2. saved' \in [Cluster -> Token] /\ Owned(saved)'
    BY <1>2, <2>1 DEF Kill, TokensInv, TypeOK, Owned, Cmd
  <2> QED
    BY <1>2, <2>2, NoCmdTyped
    DEF Kill, Fault, Exit, TokensInv, TypeOK, Owned, KeptOrNew, NoCmd, NoToken
<1>3. CASE \E c \in Cluster : Login(c)
  BY <1>3 DEF Login, Fault, TokensInv, TypeOK, Owned, KeptOrNew
<1>4. ASSUME NEW sources \in SUBSET Cluster, NEW save \in BOOLEAN, Start(sources, save)
      PROVE  TokensInv'
  <2>1. cmd'.tokens = saved /\ cmd'.at = NoCluster
    BY <1>4 DEF Start, NoCmd
  <2>2. cmd' \in Cmd
    BY <1>4, NoCmdTyped DEF Start, TokensInv, TypeOK, Cmd, NoCmd
  <2> QED
    BY <1>4, <2>1, <2>2 DEF Start, TokensInv, TypeOK, Owned, KeptOrNew
<1>5. ASSUME NEW s \in Cluster, Build(s) PROVE TokensInv'
  <2> DEFINE t == IF Stale(s) THEN Issued(s) ELSE cmd.tokens[s]
  <2>1. t \in Token /\ Kube \in Cluster \cup {NoCluster} /\ cmd \in Cmd
    BY IssuedTyped DEF TokensInv, TypeOK, Cmd, Kube, MaybeCluster
  <2>2. cmd' = [cmd EXCEPT !.kube = Kube, !.todo = @ \ {s}, !.at = s, !.tokens[s] = t,
                           !.kept = IF cmd.tokens[s].left > 0 THEN @ \cup {s} ELSE @]
    BY <1>5 DEF Build
  <2>3. cmd'.tokens = [cmd.tokens EXCEPT ![s] = t] /\ cmd'.at = s /\ cmd'.age = cmd.age
        /\ (cmd.tokens[s].left > 0 => s \in cmd'.kept)
    BY <2>1, <2>2 DEF Cmd
  <2>4. cmd.tokens[s].left > 0 \/ t.left = Life
    BY <2>1 DEF Issued, Stale, Token, Cmd
  <2>5. astray' \subseteq Astray /\ astray \subseteq astray'
    BY <1>5 DEF Build, TokensInv, TypeOK
  <2>6. t.issuer \in {s, NoCluster} \/ s \in astray'
    BY <1>5, <2>5 DEF Build, Issued, TokensInv, Owned
  <2> HIDE DEF t
  <2>7. cmd' \in Cmd
    BY <2>1, <2>2 DEF Cmd, MaybeCluster
  <2>8. TypeOK'
    BY <1>5, <2>3, <2>5, <2>7 DEF Build, TokensInv, TypeOK
  <2>9. Owned(saved)' /\ Owned(cmd.tokens)'
    BY <1>5, <2>1, <2>3, <2>5, <2>6 DEF Build, TokensInv, Owned, Cmd
  <2>10. KeptOrNew'
    BY <2>1, <2>3, <2>4 DEF KeptOrNew, Cmd
  <2> QED
    BY <2>8, <2>9, <2>10 DEF TokensInv
<1>6. ASSUME NEW s \in Cluster, Denied(s) \/ Serve(s) \/ Refuse(s) PROVE TokensInv'
  <2>1. /\ cmd' \in Cmd
        /\ cmd'.tokens = cmd.tokens
        /\ cmd'.at = NoCluster
        /\ pc' = "source"
    <3>1. CASE Denied(s)
      <4>1. Kube \in MaybeCluster /\ cmd \in Cmd /\ cmd.at = NoCluster /\ pc = "source"
        BY <3>1 DEF Denied, TokensInv, TypeOK, Cmd, Kube, MaybeCluster
      <4>2. cmd' = [cmd EXCEPT !.kube = Kube, !.todo = @ \ {s}] /\ pc' = pc
        BY <3>1 DEF Denied
      <4> QED
        BY <4>1, <4>2 DEF Cmd
    <3>2. CASE Serve(s) \/ Refuse(s)
      <4>1. cmd' = [cmd EXCEPT !.at = NoCluster] /\ pc' = "source" /\ cmd \in Cmd
        BY <3>2 DEF Serve, Refuse, TokensInv, TypeOK
      <4> QED
        BY <4>1 DEF Cmd, MaybeCluster
    <3> QED
      BY <1>6, <3>1, <3>2
  <2> QED
    BY <1>6, <2>1 DEF Denied, Serve, Refuse, Fault, TokensInv, TypeOK, Owned, KeptOrNew
<1>7. CASE Save
  BY <1>7, NoCmdTyped
  DEF Save, Exit, TokensInv, TypeOK, Owned, KeptOrNew, NoCmd, NoToken, Cmd
<1>8. CASE UNCHANGED vars
  BY <1>8 DEF vars, TokensInv, TypeOK, Owned, KeptOrNew
<1> QED
  BY <1>1, <1>2, <1>3, <1>4, <1>5, <1>6, <1>7, <1>8 DEF Next, Program

(* The invariant holds in every reachable state. *)
LEMMA TokensInvariant == Spec => []TokensInv
<1>1. QED
  BY TokensInit, TokensStep, PTL DEF Spec

(* The variables keep their types (client_builder.go). *)
THEOREM TokensTyped == Spec => []TypeOK
<1>1. TokensInv => TypeOK
  BY DEF TokensInv
<1> QED
  BY <1>1, TokensInvariant, PTL

(* A token kept in the config is the one of its source's own cluster unless *)
(* it was requested while logged in elsewhere (DataServiceClientConfig).    *)
THEOREM TokensOwned == Spec => []OwnTokens
<1>1. TokensInv => OwnTokens
  BY DEF TokensInv, Owned, OwnTokens
<1> QED
  BY <1>1, TokensInvariant, PTL

(* No command sends a token that had expired when its client was made, and  *)
(* one that was requested lasts as long as the command (the test of         *)
(* TokenExpiration in DataServiceClientConfig; 3600 seconds against the ten *)
(* minutes of the context).                                                 *)
THEOREM RefusalsExplained == Spec => []RefusalExplained
<1>1. ASSUME TokensInv PROVE RefusalExplained
  <2> SUFFICES ASSUME NEW s \in Cluster, pc = "request", cmd.at = s, s \notin cmd.kept,
                      cmd.tokens[s].issuer = s
               PROVE  cmd.tokens[s].left > 0
    BY DEF RefusalExplained, Served
  <2>1. cmd.tokens[s].left + cmd.age >= Life
    BY <1>1 DEF TokensInv, KeptOrNew
  <2>2. cmd.tokens[s].left \in Nat /\ cmd.age \in 0..MaxAge
    BY <1>1, CredentialsAssumption DEF TokensInv, TypeOK, Cmd, Token, CredentialsAssumption
  <2> QED
    BY <2>1, <2>2, CredentialsAssumption DEF CredentialsAssumption
<1> QED
  BY <1>1, TokensInvariant, PTL
==============================================================================
