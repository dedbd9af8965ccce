------------------------------- MODULE AxiSlave -------------------------------
(***************************************************************************)
(* The AXI4-Lite slave of the accelerator, sha256_accel_axi_v1_0.vhd, and  *)
(* a master of it, one step per rising edge of the bus clock.              *)
(*                                                                         *)
(* The master keeps the rules of AXI: a valid signal stays up, with its    *)
(* payload, until the slave is ready.  The address and the data of a write *)
(* are raised independently.  The source expects no outstanding            *)
(* transactions: a Patient master begins a transfer when the one before it *)
(* has been answered, and takes answers when it likes.  The other master   *)
(* does not wait, and takes every answer at once.                          *)
(***************************************************************************)
EXTENDS RegisterMap

CONSTANTS
    None,       \* no address on the read channel
    Patient,    \* does the master wait for answers?
    DEPTH,      \* bound: writes the master has under way
    Requests,   \* the writes it may issue
    Sources,    \* the addresses it may read
    Engine      \* the words the engine may drive

ASSUME NoneAssumption == None \notin Addresses /\ None \notin Words
ASSUME PatientAssumption == Patient \in BOOLEAN
ASSUME DepthAssumption == DEPTH \in Nat \ {0} /\ (Patient => DEPTH = 1)
ASSUME InputsAssumption ==
    Requests \subseteq Writes /\ Sources \subseteq Addresses /\ Engine \subseteq Words

VARIABLES
    \* the master
    aw, w,            \* writes whose address, whose data the slave has to take
    awvalid, wvalid,  \* is the first of them on the channel?
    bready,
    ar,               \* the address on the read channel, or None (arvalid)
    rready,
    \* the slave
    axi_awready, axi_awaddr, axi_wready, axi_bvalid,
    axi_arready, axi_araddr, axi_rvalid, axi_rdata,
    params, control, irq_mask

master == <<aw, w, awvalid, wvalid, bready, ar, rready>>
slave == <<axi_awready, axi_awaddr, axi_wready, axi_bvalid, axi_arready,
           axi_araddr, axi_rvalid, axi_rdata, params, control, irq_mask>>
vars == <<master, slave>>

Ready == IF Patient THEN BOOLEAN ELSE {TRUE}
-----------------------------------------------------------------------------
(***************************************************************************)
(* The master.                                                             *)
(***************************************************************************)
AwTaken == awvalid /\ axi_awready
WTaken == wvalid /\ axi_wready
ArTaken == ar # None /\ axi_arready

MayWrite ==
    IF Patient THEN aw = <<>> /\ w = <<>> /\ (axi_bvalid => bready)
               ELSE Len(aw) < DEPTH /\ Len(w) < DEPTH

MayRead ==
    IF Patient THEN ar = None /\ (axi_rvalid => rready)
               ELSE ar = None \/ ArTaken

News == {<<>>} \cup IF MayWrite THEN { <<r>> : r \in Requests } ELSE {}

MasterWrites(new) ==
    /\ aw' = (IF AwTaken THEN Tail(aw) ELSE aw) \o new
    /\ w' = (IF WTaken THEN Tail(w) ELSE w) \o new
    /\ awvalid' \in BOOLEAN /\ wvalid' \in BOOLEAN
    /\ awvalid /\ ~AwTaken => awvalid'
    /\ wvalid /\ ~WTaken => wvalid'
    /\ awvalid' => aw' # <<>>
    /\ wvalid' => w' # <<>>
    /\ bready' \in Ready

MasterReads ==
    /\ \/ ar' = IF ArTaken THEN None ELSE ar
       \/ MayRead /\ ar' \in Sources
    /\ rready' \in Ready
-----------------------------------------------------------------------------
(***************************************************************************)
(* The slave.                                                              *)
(***************************************************************************)
\* Mutants: ready only for a master that takes answers; ready for the data
\* alone.
AwAcceptWaits ==
    LET valid == awvalid /\ wvalid /\ bready IN
    /\ axi_awready' = (~axi_awready /\ valid)
    /\ axi_awaddr' = IF ~axi_awready /\ valid THEN Head(aw).addr ELSE axi_awaddr

WAcceptAlone == axi_wready' = (~axi_wready /\ wvalid)

AwAccept ==
    LET valid == awvalid /\ wvalid IN
    /\ axi_awready' = (~axi_awready /\ valid)
    /\ axi_awaddr' = IF ~axi_awready /\ valid THEN Head(aw).addr ELSE axi_awaddr

WAccept == axi_wready' = (~axi_wready /\ awvalid /\ wvalid)

slv_reg_wren == axi_wready /\ wvalid /\ axi_awready /\ awvalid

\* The write the slave sees: the address it has latched, the data on the bus.
Accepted == [Head(w) EXCEPT !.addr = axi_awaddr]

\* Mutant: control keeps its value until the next write.
RegisterWriteSticky ==
    IF slv_reg_wren
    THEN /\ params' = Written(params, Accepted)
         /\ control' = ControlOf(Accepted)
         /\ irq_mask' = Acknowledges(Accepted)
    ELSE UNCHANGED <<params, control, irq_mask>>

RegisterWrite ==
    IF slv_reg_wren
    THEN /\ params' = Written(params, Accepted)
         /\ control' = ControlOf(Accepted)
         /\ irq_mask' = Acknowledges(Accepted)
    ELSE /\ UNCHANGED params
         /\ control' = Zeros /\ irq_mask' = FALSE

WriteResponse ==
    axi_bvalid' = ((slv_reg_wren /\ ~axi_bvalid) \/ (axi_bvalid /\ ~bready))

\* Mutants: ready also in the next cycle; ready only for a master that is.
ArAcceptTwice ==
    /\ axi_arready' = (ar # None)
    /\ axi_araddr' = IF ar # None THEN ar ELSE axi_araddr

ArAcceptWaits ==
    LET valid == ar # None /\ rready IN
    /\ axi_arready' = (~axi_arready /\ valid)
    /\ axi_araddr' = IF ~axi_arready /\ valid THEN ar ELSE axi_araddr

ArAccept ==
    LET valid == ar # None IN
    /\ axi_arready' = (~axi_arready /\ valid)
    /\ axi_araddr' = IF ~axi_arready /\ valid THEN ar ELSE axi_araddr

slv_reg_rden == axi_arready /\ ar # None /\ ~axi_rvalid

ReadResponse ==
    axi_rvalid' = (slv_reg_rden \/ (axi_rvalid /\ ~rready))

\* Registers are read through a multiplexer; the answer is latched.
RegisterRead(engine) ==
    axi_rdata' = IF slv_reg_rden THEN ReadOf(params, engine, axi_araddr)
                                 ELSE axi_rdata
-----------------------------------------------------------------------------
Init ==
    /\ aw = <<>> /\ w = <<>> /\ ar = None
    /\ awvalid = FALSE /\ wvalid = FALSE
    /\ bready \in Ready /\ rready \in Ready
    /\ axi_awready = FALSE /\ axi_wready = FALSE /\ axi_bvalid = FALSE
    /\ axi_arready = FALSE /\ axi_rvalid = FALSE
    /\ axi_awaddr = None /\ axi_araddr = None
    /\ axi_rdata = Zeros
    /\ params = ParamsAtReset
    /\ control = Zeros /\ irq_mask = FALSE

(***************************************************************************)
(* axi_aresetn is low at this edge, which resets the master as well.  What *)
(* the address latches are reset to is never used.                         *)
(***************************************************************************)
Reset ==
    /\ aw' = <<>> /\ w' = <<>> /\ ar' = None
    /\ awvalid' = FALSE /\ wvalid' = FALSE
    /\ bready' \in Ready /\ rready' \in Ready
    /\ axi_awready' = FALSE /\ axi_wready' = FALSE /\ axi_bvalid' = FALSE
    /\ axi_arready' = FALSE /\ axi_rvalid' = FALSE
    /\ axi_awaddr' = None /\ axi_araddr' = None
    /\ axi_rdata' = Zeros
    /\ params' = ParamsAtReset
    /\ control' = Zeros /\ irq_mask' = FALSE

Edge(new, engine) ==
    /\ MasterWrites(new) /\ MasterReads
    /\ AwAccept /\ WAccept /\ RegisterWrite /\ WriteResponse
    /\ ArAccept /\ ReadResponse /\ RegisterRead(engine)

Run == \E new \in News, engine \in Engine : Edge(new, engine)

Next == Reset \/ Run

Spec == Init /\ [][Next]_vars

\* The clock of the bus never stops, and a reset ends.
FairSpec == Spec /\ WF_vars(Run)
-----------------------------------------------------------------------------
(***************************************************************************)
(* Correctness.                                                            *)
(***************************************************************************)
\* The type invariant.
TypeOK ==
    /\ aw \in Seq(Writes) /\ w \in Seq(Writes)
    /\ awvalid \in BOOLEAN /\ wvalid \in BOOLEAN /\ bready \in Ready
    /\ ar \in Addresses \cup {None} /\ rready \in Ready
    /\ axi_awready \in BOOLEAN /\ axi_wready \in BOOLEAN
    /\ axi_bvalid \in BOOLEAN
    /\ axi_arready \in BOOLEAN /\ axi_rvalid \in BOOLEAN
    /\ axi_awaddr \in Addresses \cup {None}
    /\ axi_araddr \in Addresses \cup {None}
    /\ axi_rdata \in Words
    /\ params \in [Params -> Words]
    /\ control \in Words /\ irq_mask \in BOOLEAN

(***************************************************************************)
(* The slave is a register file: every write takes effect once, with its   *)
(* own address and data, and is answered; every read is answered with a    *)
(* value its register had meanwhile; a pulse lasts one cycle.              *)
(***************************************************************************)
Contract == INSTANCE RegisterFile WITH
    pending <- w,
    owed <- IF axi_bvalid THEN 1 ELSE 0,
    request <- ar,
    response <- IF axi_rvalid THEN axi_rdata ELSE None

ImplementsRegisterFile == Contract!Spec

(***************************************************************************)
(* A write that is on both channels and a read are answered in the end,    *)
(* unless the bus is reset: no ready signal waits for another one.         *)
(***************************************************************************)
WriteAnswered == awvalid /\ wvalid ~> axi_bvalid \/ aw = <<>>
ReadAnswered == ar # None ~> axi_rvalid \/ ar = None
=============================================================================
