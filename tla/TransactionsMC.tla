----------------------------- MODULE TransactionsMC -----------------------------
(* Instances of what the SDK builds, encodes, signs and reads: transactions, *)
(* their fees, checks and fields, trees, signatures, encoded strings, errors *)
(* of the RPC; one of them in each behaviour.                                *)
EXTENDS TxSchemaMC, TxFeesMC, TxChecksMC, TxPrepareMC, MPTreeMC, Bytes, RpcErrors

CONSTANT Topics
VARIABLE topic

PayloadsDef == [bytes : {7, 32, 64}, id : {1, 2}]
WantedDef == {{}, {"ak"}, {"ak", "ok", "ct", "ch"}, {"tx", "sg"}, {"xx"}}
LengthsDef == 0..30 \cup {62, 63, 64, 65, 100, 4095, 4096, 4097, 5000}
PeerClassesDef == RpcErrorClasses \cup {"RpcNewerError"}

vars == <<topic, tsvars, tfvars, tcvars, tpvars, mpvars, sgvars, envars, rpcvars>>
\* What is of one topic only is there in its behaviours, and nothing in those of the others.
Init ==
    /\ topic \in Topics /\ SgInit /\ RpcInit
    /\ IF topic = "schema" THEN TsInit ELSE given = Missing /\ packed = Missing /\ unpacked = Missing
    /\ IF topic = "fees" THEN TfInit
       ELSE /\ task = Nothing /\ result = Nothing /\ now = 0 /\ offered = Nothing
            /\ cache = NoPrice /\ asked = [b \in Builders |-> Idle]
    /\ IF topic = "checks" THEN TcInit
       ELSE tx = Nobody /\ node = Nobody /\ reported = Nobody /\ costs = Nobody
    /\ IF topic = "fields" THEN TpInit
       ELSE /\ params = Unset /\ build = [b \in Builds |-> NotStarted]
            /\ used = [o \in Objects |-> {}] /\ chain = Unset
    /\ IF topic = "trees" THEN MpInit
       ELSE contents = Empty /\ table = {} /\ tree = Empty /\ answer = Empty
    /\ IF topic = "encodings" THEN EnInit
       ELSE made = [payload |-> [bytes |-> 32, id |-> 1], type |-> "ak"] /\ text = Undecodable
Next ==
    /\ UNCHANGED topic
    /\ \/ topic = "schema" /\ TsNext /\ UNCHANGED <<tfvars, tcvars, tpvars, mpvars, sgvars, envars, rpcvars>>
       \/ topic = "fees" /\ TfNext /\ UNCHANGED <<tsvars, tcvars, tpvars, mpvars, sgvars, envars, rpcvars>>
       \/ topic = "checks" /\ TcNext /\ UNCHANGED <<tsvars, tfvars, tpvars, mpvars, sgvars, envars, rpcvars>>
       \/ topic = "fields" /\ TpNext /\ UNCHANGED <<tsvars, tfvars, tcvars, mpvars, sgvars, envars, rpcvars>>
       \/ topic = "trees" /\ MpNext /\ UNCHANGED <<tsvars, tfvars, tcvars, tpvars, sgvars, envars, rpcvars>>
       \/ topic = "signing" /\ SgNext /\ UNCHANGED <<tsvars, tfvars, tcvars, tpvars, mpvars, envars, rpcvars>>
       \/ topic = "encodings" /\ EnNext /\ UNCHANGED <<tsvars, tfvars, tcvars, tpvars, mpvars, sgvars, rpcvars>>
       \/ topic = "errors" /\ RpcNext /\ UNCHANGED <<tsvars, tfvars, tcvars, tpvars, mpvars, sgvars, envars>>
Spec == Init /\ [][Next]_vars

\* What a transaction costs is right at both ends: a fee is the least that pays, also at the edge of
\* a byte (tx/builder/field-types/fee.ts), and what is foretold of a transaction before it is posted
\* is what the chain takes for it (tx/execution-cost.ts, tx/validator.ts).
CostsAreRight == PaidExactly /\ ForetoldRightly
=============================================================================
