----------------------------- MODULE Credentials -----------------------------
(***************************************************************************)
(* The tokens with which a command asks the DataServices.  A source's token *)
(* is kept in the config file.  When it is missing or has expired, a new    *)
(* one is requested for a service account, of whatever cluster kubectl is   *)
(* logged in to, and the client made with it is kept for the rest of the    *)
(* command.                                                                 *)
(*                                                                          *)
(* ExportLifecycle has sources without a client and requests that are       *)
(* refused as faults; here is what leads to them.                           *)
(***************************************************************************)
EXTENDS Naturals

CONSTANTS
  Cluster,    \* the clusters; each has a DataService, which is a source
  NoCluster,  \* no cluster
  Life,       \* how long a new token is good for: the 3600 seconds asked for
  MaxAge,     \* how long a command runs at most: its context's ten minutes
  Astray,     \* bound: the sources that may get a token of another cluster, once each
  MaxFaults   \* bound: how many faults happen

ASSUME CredentialsAssumption ==
  /\ NoCluster \notin Cluster
  /\ Life \in Nat /\ MaxAge \in Nat
  /\ MaxAge < Life
  /\ Astray \subseteq Cluster
  /\ MaxFaults \in Nat

VARIABLES
  context,  \* the cluster kubectl is logged in to
  saved,    \* the token of each endpoint in the config file
  pc,       \* where the command stands
  cmd,      \* the command's memory
  astray,   \* history: the sources that have got a token of another cluster
  faults    \* how many faults have happened

vars == <<context, saved, pc, cmd, astray, faults>>

MaybeCluster == Cluster \cup {NoCluster}

(* Who issued a token, and how long it is still good for; where there is no *)
(* token there is no expiration.                                            *)
Token == {t \in [issuer : MaybeCluster, left : 0..Life] : t.issuer = NoCluster => t.left = 0}
NoToken == [issuer |-> NoCluster, left |-> 0]

Cmd == [kube : MaybeCluster,         \* the cluster of the loaded kubeconfig
        todo : SUBSET Cluster,       \* the sources still to be visited
        at : MaybeCluster,           \* the source being asked
        tokens : [Cluster -> Token], \* the endpoints in memory
        kept : SUBSET Cluster,       \* history: the sources whose token had not expired
        save : BOOLEAN,              \* not a dry run
        age : 0..MaxAge]             \* for how long it has run

NoCmd == [kube |-> NoCluster, todo |-> {}, at |-> NoCluster,
          tokens |-> [s \in Cluster |-> NoToken], kept |-> {}, save |-> FALSE, age |-> 0]

TypeOK ==
  /\ context \in Cluster
  /\ saved \in [Cluster -> Token]
  /\ pc \in {"idle", "source", "request"}
  /\ cmd \in Cmd
  /\ pc = "request" <=> cmd.at # NoCluster
  /\ astray \subseteq Astray
  /\ faults \in 0..MaxFaults

Init ==
  /\ context \in Cluster
  /\ saved = [s \in Cluster |-> NoToken]
  /\ pc = "idle"
  /\ cmd = NoCmd
  /\ astray = {}
  /\ faults = 0

Fault == faults < MaxFaults /\ faults' = faults + 1

-----------------------------------------------------------------------------
(* The environment *)

(* `oc login` at a cluster; while a command runs, this is a mishap. *)
Login(c) ==
  /\ context # c
  /\ context' = c
  /\ IF pc = "idle" THEN UNCHANGED faults ELSE Fault
  /\ UNCHANGED <<saved, pc, cmd, astray>>

Aged(tokens) ==
  [s \in Cluster |-> [tokens[s] EXCEPT !.left = IF @ > 0 THEN @ - 1 ELSE 0]]

(* Time passes, for a command as long as its context lasts. *)
Tick ==
  /\ pc # "idle" => cmd.age < MaxAge
  /\ saved' = Aged(saved)
  /\ cmd' = IF pc = "idle" THEN cmd ELSE [cmd EXCEPT !.tokens = Aged(@), !.age = @ + 1]
  /\ UNCHANGED <<context, pc, astray, faults>>

Exit == pc' = "idle" /\ cmd' = NoCmd

(* The process dies, or the config cannot be written.  The endpoints are    *)
(* written one by one, so that some of them may have been.                  *)
Saving == pc = "source" /\ cmd.todo = {} /\ cmd.save

Kill ==
  /\ pc # "idle"
  /\ Fault
  /\ \E written \in IF Saving THEN SUBSET Cluster ELSE {{}} :
       saved' = [s \in Cluster |-> IF s \in written THEN cmd.tokens[s] ELSE saved[s]]
  /\ Exit
  /\ UNCHANGED <<context, astray>>

-----------------------------------------------------------------------------
(* A command *)

(* export pull asks the sources it is told to, export commit all of them.   *)
Start(sources, save) ==
  /\ pc = "idle"
  /\ pc' = "source"
  /\ cmd' = [NoCmd EXCEPT !.todo = sources, !.tokens = saved, !.save = save]
  /\ UNCHANGED <<context, saved, astray, faults>>

(* The kubeconfig is read once. *)
Kube == IF cmd.kube = NoCluster THEN context ELSE cmd.kube

(* Slip: only a missing token is requested.                                 *)
StaleWhenMissing(s) == cmd.tokens[s].issuer = NoCluster

(* The token is missing or has expired. *)
Stale(s) == cmd.tokens[s].issuer = NoCluster \/ cmd.tokens[s].left = 0

(* Slip: the token of any other source is good enough, if it is fresh.      *)
IssuedAny(s) ==
  IF \E t \in Cluster : ~Stale(t) THEN cmd.tokens[CHOOSE t \in Cluster : ~Stale(t)]
                                  ELSE [issuer |-> Kube, left |-> Life]

(* NewServiceAccountToken at the cluster of the kubeconfig. *)
Issued(s) == [issuer |-> Kube, left |-> Life]

(* The client of a source, with the token it has or with a new one. *)
Build(s) ==
  /\ pc = "source" /\ s \in cmd.todo
  /\ cmd' = [cmd EXCEPT !.kube = Kube, !.todo = @ \ {s}, !.at = s,
                        !.tokens[s] = IF Stale(s) THEN Issued(s) ELSE @,
                        !.kept = IF cmd.tokens[s].left > 0 THEN @ \cup {s} ELSE @]
  /\ IF Stale(s) /\ Kube # s
       THEN s \in Astray \ astray /\ astray' = astray \cup {s}
       ELSE UNCHANGED astray
  /\ pc' = "request"
  /\ UNCHANGED <<context, saved, faults>>

(* Slip: the new expiration is written before the token is there.           *)
DeniedDated(s) ==
  /\ pc = "source" /\ s \in cmd.todo
  /\ Stale(s)
  /\ IF Kube = s THEN Fault ELSE UNCHANGED faults
  /\ cmd' = [cmd EXCEPT !.kube = Kube, !.todo = @ \ {s}, !.tokens[s].left = Life]
  /\ UNCHANGED <<context, saved, pc, astray>>

(* The cluster does not issue a token, least of all for another's account:  *)
(* the source is passed over.                                               *)
Denied(s) ==
  /\ pc = "source" /\ s \in cmd.todo
  /\ Stale(s)
  /\ IF Kube = s THEN Fault ELSE UNCHANGED faults
  /\ cmd' = [cmd EXCEPT !.kube = Kube, !.todo = @ \ {s}]
  /\ UNCHANGED <<context, saved, pc, astray>>

(* A DataService serves its own cluster's tokens until they expire. *)
Served(s) == cmd.tokens[s].issuer = s /\ cmd.tokens[s].left > 0

(* The source's requests are answered, all of them, *)
Serve(s) ==
  /\ pc = "request" /\ cmd.at = s
  /\ Served(s)
  /\ pc' = "source"
  /\ cmd' = [cmd EXCEPT !.at = NoCluster]
  /\ UNCHANGED <<context, saved, astray, faults>>

(* or one is refused; pull goes on with the next source, and so does commit. *)
Refuse(s) ==
  /\ pc = "request" /\ cmd.at = s
  /\ ~Served(s)
  /\ pc' = "source"
  /\ cmd' = [cmd EXCEPT !.at = NoCluster]
  /\ UNCHANGED <<context, saved, astray, faults>>

(* The endpoints are saved with their tokens, if this is not a dry run. *)
Save ==
  /\ pc = "source" /\ cmd.todo = {}
  /\ saved' = IF cmd.save THEN cmd.tokens ELSE saved
  /\ Exit
  /\ UNCHANGED <<context, astray, faults>>

Program ==
  \/ \E s \in Cluster : Build(s) \/ Denied(s) \/ Serve(s) \/ Refuse(s)
  \/ Save

Next ==
  \/ Tick \/ Kill
  \/ \E c \in Cluster : Login(c)
  \/ \E s \in Cluster : Start({s}, TRUE)
  \/ \E save \in BOOLEAN : Start(Cluster, save)
  \/ Program

Spec == Init /\ [][Next]_vars

PullOwn(s) == context = s /\ Start({s}, TRUE)

(* Time passes, the program runs, and the operator does what the docs say,  *)
(* pulling each source while logged in to its cluster, among other things.  *)
FairSpec ==
  /\ Spec
  /\ WF_vars(Tick) /\ WF_vars(Program)
  /\ \A s \in Cluster : SF_vars(pc = "idle" /\ Login(s)) /\ SF_vars(PullOwn(s))

-----------------------------------------------------------------------------
(* Properties *)

(* An expired token is never sent, to the first source or to the last, and  *)
(* one that the command has requested is good for as long as it runs: where *)
(* a request is refused, the token is another cluster's, or it is an older  *)
(* one that was good when the client was made and expired on the way.       *)
RefusalExplained ==
  \A s \in Cluster : pc = "request" /\ cmd.at = s =>
    Served(s) \/ cmd.tokens[s].issuer # s \/ s \in cmd.kept

(* A source's token is its own cluster's unless one was requested for this  *)
(* very source while logged in elsewhere: what goes wrong with one source,  *)
(* a command that dies, or a login in the middle of it, spoils no other.    *)
OwnTokens ==
  \A s \in Cluster : saved[s].issuer \in {s, NoCluster} \/ s \in astray

(* A wrong token stays as long as it lives, and no longer; a token that     *)
(* expires during a command is new in the next one.  So each source that is *)
(* pulled now and then while logged in to its cluster is served, again and  *)
(* again.                                                                   *)
EveryoneServed == \A s \in Cluster : []<><<Serve(s)>>_vars
==============================================================================
