---------------------------- MODULE AxiSlaveProofs ----------------------------
(***************************************************************************)
(* The AXI slave implements the register file, for words of any width, any *)
(* parameters, and both masters.                                           *)
(***************************************************************************)
EXTENDS AxiSlave, SequenceTheorems, TLAPS

\* The two channels of a write move together.
Paired ==
    /\ aw = w /\ axi_awready = axi_wready
    /\ awvalid => aw # <<>>
    /\ wvalid => w # <<>>

\* When a channel is ready the master is, and the latched address is its own.
Latched ==
    /\ axi_awready => awvalid /\ wvalid /\ axi_awaddr = Head(w).addr
    /\ axi_arready => ar # None /\ axi_araddr = ar

\* No transfer is accepted while the answer of the one before is on offer.
Answered ==
    /\ axi_awready => ~axi_bvalid
    /\ axi_arready => ~axi_rvalid
    /\ Patient => /\ Len(w) <= 1
                  /\ w # <<>> => ~axi_bvalid
                  /\ ar # None => ~axi_rvalid

IInv == TypeOK /\ Paired /\ Latched /\ Answered

\* Merging keeps a word a word.
LEMMA MergeWord ==
    ASSUME NEW r \in Writes, NEW old \in Words
    PROVE  Merge(old, r) \in Words
  BY DEF Merge, Words, Writes

\* The constant words are words.
LEMMA ConstantWords == Zeros \in Words /\ Ones \in Words
  BY LanesAssumption DEF Zeros, Ones, Words

\* What a write and a read yield has the type of the register.
LEMMA RegisterTypes ==
    ASSUME NEW r \in Writes, NEW p \in [Params -> Words]
    PROVE  /\ Written(p, r) \in [Params -> Words]
           /\ ControlOf(r) \in Words
           /\ Acknowledges(r) \in BOOLEAN
  <1>1. Written(p, r) \in [Params -> Words]
    <2>1. CASE r.addr \in Params
      <3>1. Merge(p[r.addr], r) \in Words
        BY <2>1, MergeWord
      <3>2. QED
        BY <2>1, <3>1 DEF Written
    <2>2. CASE r.addr \notin Params
      BY <2>2 DEF Written
    <2>3. QED
      BY <2>1, <2>2
  <1>2. ControlOf(r) \in Words
    BY ConstantWords, MergeWord DEF ControlOf
  <1>3. Acknowledges(r) \in BOOLEAN
    BY Zenon DEF Acknowledges
  <1>4. QED
    BY <1>1, <1>2, <1>3

\* What a read returns is a word.
LEMMA ReadType ==
    ASSUME NEW a, NEW p \in [Params -> Words], NEW e \in Words
    PROVE  ReadOf(p, e, a) \in Words
  BY ConstantWords DEF ReadOf

\* After a reset and in the initial state the parameters have their type.
LEMMA ResetType == ParamsAtReset \in [Params -> Words]
  BY ConstantWords DEF ParamsAtReset

-----------------------------------------------------------------------------
\* The invariant holds initially.
LEMMA InitIInv == Init => IInv
  <1>1. ASSUME Init PROVE TypeOK
    <2>1. /\ aw \in Seq(Writes) /\ w \in Seq(Writes)
          /\ ar \in Addresses \cup {None}
          /\ bready \in Ready /\ rready \in Ready
      BY <1>1 DEF Init
    <2>2. /\ awvalid \in BOOLEAN /\ wvalid \in BOOLEAN
          /\ axi_awready \in BOOLEAN /\ axi_wready \in BOOLEAN
          /\ axi_bvalid \in BOOLEAN /\ irq_mask \in BOOLEAN
          /\ axi_arready \in BOOLEAN /\ axi_rvalid \in BOOLEAN
      BY <1>1, Zenon DEF Init
    <2>3. /\ axi_awaddr \in Addresses \cup {None}
          /\ axi_araddr \in Addresses \cup {None}
          /\ axi_rdata \in Words /\ control \in Words
          /\ params \in [Params -> Words]
      BY <1>1, ResetType, ConstantWords, Zenon DEF Init
    <2>4. QED
      BY <2>1, <2>2, <2>3, Zenon DEF TypeOK
  <1>2. ASSUME Init PROVE Paired /\ Latched /\ Answered
    <2>1. Len(w) <= 1
      BY <1>2 DEF Init
    <2>2. QED
      BY <1>2, <2>1, Zenon DEF Init, Paired, Latched, Answered
  <1>3. QED
    BY <1>1, <1>2 DEF IInv

\* The invariant holds after a bus reset.
LEMMA ResetIInv == Reset => IInv'
  <1>1. ASSUME Reset PROVE TypeOK'
    <2>1. /\ aw' \in Seq(Writes) /\ w' \in Seq(Writes)
          /\ ar' \in Addresses \cup {None}
          /\ bready' \in Ready /\ rready' \in Ready
      BY <1>1 DEF Reset
    <2>2. /\ awvalid' \in BOOLEAN /\ wvalid' \in BOOLEAN
          /\ axi_awready' \in BOOLEAN /\ axi_wready' \in BOOLEAN
          /\ axi_bvalid' \in BOOLEAN /\ irq_mask' \in BOOLEAN
          /\ axi_arready' \in BOOLEAN /\ axi_rvalid' \in BOOLEAN
      BY <1>1, Zenon DEF Reset
    <2>3. /\ axi_awaddr' \in Addresses \cup {None}
          /\ axi_araddr' \in Addresses \cup {None}
          /\ axi_rdata' \in Words /\ control' \in Words
          /\ params' \in [Params -> Words]
      BY <1>1, ResetType, ConstantWords, Zenon DEF Reset
    <2>4. QED
      BY <2>1, <2>2, <2>3, Zenon DEF TypeOK, Ready, Addresses, Writes, Words, Lanes
  <1>2. ASSUME Reset PROVE (Paired /\ Latched /\ Answered)'
    <2>1. Len(w') <= 1
      BY <1>2 DEF Reset
    <2>2. QED
      BY <1>2, <2>1, Zenon DEF Reset, Paired, Latched, Answered
  <1>3. QED
    BY <1>1, <1>2 DEF IInv

-----------------------------------------------------------------------------
(***************************************************************************)
(* One edge, on the side of the writes.  Both channels are taken together, *)
(* so what is under way stays the same sequence on both.                   *)
(***************************************************************************)

\* The writes still under way after an edge, before the master issues more.
Rest == IF slv_reg_wren THEN Tail(w) ELSE w

\* What the master adds in one edge.
LEMMA NewWrites ==
    ASSUME NEW new \in News
    PROVE  /\ new = <<>> \/ (MayWrite /\ \E r \in Requests : new = <<r>>)
           /\ new \in Seq(Writes)
  <1>1. new = <<>> \/ (MayWrite /\ \E r \in Requests : new = <<r>>)
    BY DEF News
  <1>2. ASSUME NEW r \in Requests PROVE <<r>> \in Seq(Writes)
    <2>1. r \in Writes
      BY InputsAssumption
    <2>2. QED
      BY <2>1
  <1>3. new \in Seq(Writes)
    <2>1. CASE new = <<>>
      BY <2>1
    <2>2. CASE \E r \in Requests : new = <<r>>
      BY <1>2, <2>2, Zenon
    <2>3. QED
      BY <1>1, <2>1, <2>2
  <1>4. QED
    BY <1>1, <1>3

\* Both channels of a write are left with the same writes.
LEMMA EdgeQueues ==
    ASSUME IInv, NEW new \in News, MasterWrites(new)
    PROVE  /\ Rest \in Seq(Writes)
           /\ aw' = Rest \o new /\ w' = Rest \o new
           /\ w' \in Seq(Writes)
  <1>1. AwTaken <=> slv_reg_wren
    BY DEF IInv, Paired, Latched, AwTaken, slv_reg_wren
  <1>2. WTaken <=> slv_reg_wren
    BY DEF IInv, Paired, Latched, WTaken, slv_reg_wren
  <1>3. aw' = Rest \o new /\ w' = Rest \o new
    BY <1>1, <1>2 DEF MasterWrites, Rest, IInv, Paired
  <1>4. w \in Seq(Writes) /\ (slv_reg_wren => w # <<>>)
    BY DEF IInv, TypeOK, Paired, slv_reg_wren
  <1>5. Rest \in Seq(Writes)
    BY <1>4 DEF Rest
  <1>6. new \in Seq(Writes)
    BY NewWrites
  <1>7. Rest \o new \in Seq(Writes)
    BY <1>5, <1>6, ConcatProperties
  <1>8. QED
    BY <1>3, <1>5, <1>7

\* An edge keeps the two channels of a write together.
LEMMA EdgePaired ==
    ASSUME IInv, NEW new \in News, MasterWrites(new), AwAccept, WAccept
    PROVE  Paired'
  <1>1. aw' = w'
    BY EdgeQueues
  <1>2. axi_awready' = axi_wready'
    BY Zenon DEF IInv, Paired, AwAccept, WAccept
  <1>3. /\ awvalid' => aw' # <<>>
        /\ wvalid' => w' # <<>>
    BY DEF MasterWrites
  <1>4. QED
    BY <1>1, <1>2, <1>3, Zenon DEF Paired

\* A ready signal goes up for the write that is first and stays first.
LEMMA EdgeLatchedWrite ==
    ASSUME IInv, NEW new \in News, MasterWrites(new), AwAccept, axi_awready'
    PROVE  awvalid' /\ wvalid' /\ axi_awaddr' = Head(w').addr
  <1>1. ~axi_awready /\ awvalid /\ wvalid /\ axi_awaddr' = Head(aw).addr
    BY DEF AwAccept
  <1>2. ~axi_wready /\ aw = w /\ w # <<>> /\ w \in Seq(Writes)
    BY <1>1 DEF IInv, TypeOK, Paired
  <1>3. awvalid' /\ wvalid'
    BY <1>1, <1>2 DEF MasterWrites, AwTaken, WTaken
  <1>4. w' = w \o new
    BY <1>1, <1>2, EdgeQueues DEF Rest, slv_reg_wren
  <1>5. new \in Seq(Writes)
    BY NewWrites
  <1>6. Head(w') = Head(w)
    BY <1>2, <1>4, <1>5
  <1>7. QED
    BY <1>1, <1>2, <1>3, <1>6

\* The same of a read: its address stays on the channel.
LEMMA EdgeLatchedRead ==
    ASSUME IInv, MasterReads, ArAccept, axi_arready'
    PROVE  ar' # None /\ axi_araddr' = ar'
  <1>1. ~axi_arready /\ ar # None /\ axi_araddr' = ar
    BY DEF ArAccept
  <1>2. ~ArTaken /\ ~MayRead
    BY <1>1 DEF ArTaken, MayRead
  <1>3. ar' = ar
    BY <1>2 DEF MasterReads
  <1>4. QED
    BY <1>1, <1>3

\* Why no answer is in the way of the next one.
LEMMA EdgeAnsweredWrite ==
    ASSUME IInv, NEW new \in News, MasterWrites(new), AwAccept, WriteResponse
    PROVE  /\ axi_awready' => ~axi_bvalid'
           /\ Patient => Len(w') <= 1 /\ (w' # <<>> => ~axi_bvalid')
  <1>1. ASSUME Patient PROVE Len(w') <= 1 /\ (w' # <<>> => ~axi_bvalid')
    <2>1. Len(w) <= 1 /\ w \in Seq(Writes) /\ (w # <<>> => ~axi_bvalid)
      BY <1>1 DEF IInv, TypeOK, Answered
    <2>2. CASE slv_reg_wren
      <3>1. w # <<>> /\ ~axi_bvalid
        BY <2>1, <2>2 DEF IInv, Paired, slv_reg_wren
      <3>2. new = <<>>
        BY <1>1, <3>1, NewWrites DEF MayWrite
      <3>3. Tail(w) = <<>>
        BY <2>1, <3>1
      <3>4. w' = <<>>
        <4>1. w' = Rest \o new /\ Rest = <<>>
          BY <2>2, <3>3, EdgeQueues DEF Rest
        <4>2. QED
          BY <3>2, <4>1
      <3>5. QED
        BY <3>4
    <2>3. CASE ~slv_reg_wren /\ new = <<>>
      <3>1. w' = w
        BY <2>1, <2>3, EdgeQueues DEF Rest
      <3>2. axi_bvalid' => axi_bvalid
        BY <2>3 DEF WriteResponse
      <3>3. QED
        BY <2>1, <3>1, <3>2
    <2>4. CASE ~slv_reg_wren /\ new # <<>>
      <3>1. PICK r \in Requests : new = <<r>>
        BY <2>4, NewWrites
      <3>2. w = <<>> /\ (axi_bvalid => bready)
        BY <1>1, <2>4, NewWrites DEF MayWrite
      <3>3. w' = <<r>>
        BY <2>4, <3>1, <3>2, EdgeQueues DEF Rest
      <3>4. ~axi_bvalid'
        BY <2>4, <3>2 DEF WriteResponse
      <3>5. QED
        BY <3>3, <3>4
    <2>5. QED
      BY <2>2, <2>3, <2>4
  <1>2. ASSUME axi_awready', axi_bvalid' PROVE FALSE
    <2>1. ~axi_awready /\ awvalid /\ wvalid
      BY <1>2 DEF AwAccept
    <2>2. ~slv_reg_wren
      BY <2>1 DEF slv_reg_wren
    <2>3. axi_bvalid /\ ~bready
      BY <1>2, <2>2 DEF WriteResponse
    <2>4. CASE Patient
      BY <2>1, <2>3, <2>4 DEF IInv, Paired, Answered
    <2>5. CASE ~Patient
      BY <2>3, <2>5 DEF IInv, TypeOK, Ready
    <2>6. QED
      BY <2>4, <2>5
  <1>3. QED
    BY <1>1, <1>2

\* The same of the read channel.
LEMMA EdgeAnsweredRead ==
    ASSUME IInv, MasterReads, ArAccept, ReadResponse
    PROVE  /\ axi_arready' => ~axi_rvalid'
           /\ Patient => (ar' # None => ~axi_rvalid')
  <1>1. ASSUME Patient, ar' # None, axi_rvalid' PROVE FALSE
    <2>1. CASE slv_reg_rden
      <3>1. ArTaken /\ ar # None
        BY <2>1 DEF slv_reg_rden, ArTaken
      <3>2. ~MayRead
        BY <1>1, <3>1 DEF MayRead
      <3>3. QED
        BY <1>1, <3>1, <3>2 DEF MasterReads
    <2>2. CASE ~slv_reg_rden
      <3>1. axi_rvalid /\ ~rready
        BY <1>1, <2>2 DEF ReadResponse
      <3>2. ar = None /\ ~MayRead
        BY <1>1, <3>1 DEF IInv, Answered, MayRead
      <3>3. QED
        BY <1>1, <3>2 DEF MasterReads
    <2>3. QED
      BY <2>1, <2>2
  <1>2. ASSUME axi_arready', axi_rvalid' PROVE FALSE
    <2>1. ~axi_arready /\ ar # None
      BY <1>2 DEF ArAccept
    <2>2. axi_rvalid /\ ~rready
      BY <1>2, <2>1 DEF ReadResponse, slv_reg_rden
    <2>3. CASE Patient
      BY <2>1, <2>2, <2>3 DEF IInv, Answered
    <2>4. CASE ~Patient
      BY <2>2, <2>4 DEF IInv, TypeOK, Ready
    <2>5. QED
      BY <2>3, <2>4
  <1>3. QED
    BY <1>1, <1>2

-----------------------------------------------------------------------------
(***************************************************************************)
(* The types after an edge.                                                *)
(***************************************************************************)
\* The write the slave sees is the first one under way, address and data.
LEMMA AcceptedIsHead ==
    ASSUME IInv, slv_reg_wren
    PROVE  Accepted = Head(w) /\ Head(w) \in Writes
  <1>1. w # <<>> /\ w \in Seq(Writes) /\ axi_awaddr = Head(w).addr
    BY DEF IInv, TypeOK, Paired, Latched, slv_reg_wren
  <1>2. Head(w) \in Writes
    BY <1>1
  <1>3. Accepted = Head(w)
    BY <1>1, <1>2 DEF Accepted, Writes
  <1>4. QED
    BY <1>2, <1>3

\* The registers keep their types.
LEMMA RegisterWriteType ==
    ASSUME IInv, RegisterWrite
    PROVE  params' \in [Params -> Words] /\ control' \in Words /\ irq_mask' \in BOOLEAN
  <1>1. params \in [Params -> Words]
    BY DEF IInv, TypeOK
  <1>2. CASE slv_reg_wren
    <2>1. Accepted \in Writes
      BY <1>2, AcceptedIsHead
    <2>2. /\ Written(params, Accepted) \in [Params -> Words]
          /\ ControlOf(Accepted) \in Words /\ Acknowledges(Accepted) \in BOOLEAN
      BY <1>1, <2>1, RegisterTypes
    <2>3. QED
      BY <1>2, <2>2, Zenon DEF RegisterWrite
  <1>3. CASE ~slv_reg_wren
    BY <1>1, <1>3, ConstantWords, Zenon DEF RegisterWrite
  <1>4. QED
    BY <1>2, <1>3

\* All variables keep their types.
LEMMA EdgeType ==
    ASSUME IInv, NEW new \in News, NEW engine \in Engine, Edge(new, engine)
    PROVE  TypeOK'
  <1>1. TypeOK
    BY DEF IInv
  <1>2. aw' \in Seq(Writes) /\ w' \in Seq(Writes)
    BY EdgeQueues DEF Edge
  <1>3. awvalid' \in BOOLEAN /\ wvalid' \in BOOLEAN /\ bready' \in Ready
    BY Zenon DEF Edge, MasterWrites
  <1>4. ar' \in Addresses \cup {None}
    BY <1>1, InputsAssumption DEF TypeOK, Edge, MasterReads
  <1>5. rready' \in Ready
    BY DEF Edge, MasterReads
  <1>6. axi_awready' \in BOOLEAN /\ axi_wready' \in BOOLEAN
    BY Zenon DEF Edge, AwAccept, WAccept
  <1>7. axi_bvalid' \in BOOLEAN
    BY Zenon DEF Edge, WriteResponse
  <1>8. axi_arready' \in BOOLEAN /\ axi_rvalid' \in BOOLEAN
    BY Zenon DEF Edge, ArAccept, ReadResponse
  <1>9. axi_awaddr' \in Addresses \cup {None}
    <2>1. CASE ~axi_awready /\ awvalid /\ wvalid
      <3>1. aw # <<>> /\ aw \in Seq(Writes)
        BY <2>1 DEF IInv, TypeOK, Paired
      <3>2. Head(aw) \in Writes
        BY <3>1
      <3>3. Head(aw).addr \in Addresses
        BY <3>2 DEF Writes
      <3>4. QED
        BY <2>1, <3>3 DEF Edge, AwAccept
    <2>2. CASE ~(~axi_awready /\ awvalid /\ wvalid)
      BY <1>1, <2>2 DEF Edge, AwAccept, TypeOK
    <2>3. QED
      BY <2>1, <2>2
  <1>10. axi_araddr' \in Addresses \cup {None}
    BY <1>1 DEF Edge, ArAccept, TypeOK
  <1>11. axi_rdata' \in Words
    <2>1. params \in [Params -> Words] /\ axi_rdata \in Words
      BY <1>1 DEF TypeOK
    <2>2. ReadOf(params, engine, axi_araddr) \in Words
      BY <2>1, InputsAssumption, ReadType
    <2>3. QED
      BY <2>1, <2>2 DEF Edge, RegisterRead
  <1>12. params' \in [Params -> Words] /\ control' \in Words /\ irq_mask' \in BOOLEAN
    BY RegisterWriteType DEF Edge
  <1>13. QED
    BY <1>2, <1>3, <1>4, <1>5, <1>6, <1>7, <1>8, <1>9, <1>10, <1>11, <1>12, Zenon
       DEF TypeOK, Ready, Addresses, Writes, Words, Lanes

\* An edge preserves the invariant.
LEMMA EdgeIInv ==
    ASSUME IInv, NEW new \in News, NEW engine \in Engine, Edge(new, engine)
    PROVE  IInv'
  <1>1. TypeOK'
    BY EdgeType
  <1>2. Paired'
    BY EdgePaired DEF Edge
  <1>3. Latched'
    BY EdgeLatchedWrite, EdgeLatchedRead, Zenon DEF Edge, Latched
  <1>4. Answered'
    BY EdgeAnsweredWrite, EdgeAnsweredRead, Zenon DEF Edge, Answered
  <1>5. QED
    BY <1>1, <1>2, <1>3, <1>4 DEF IInv

(***************************************************************************)
(* The invariant of the slave, and its types.                              *)
(***************************************************************************)
THEOREM SlaveInvariant == Spec => []IInv
  <1>1. IInv /\ [Next]_vars => IInv'
    <2> SUFFICES ASSUME IInv, [Next]_vars PROVE IInv'
      OBVIOUS
    <2>1. CASE Reset
      BY <2>1, ResetIInv
    <2>2. CASE Run
      BY <2>2, EdgeIInv DEF Run
    <2>3. CASE UNCHANGED vars
      <3>1. UNCHANGED master /\ UNCHANGED slave
        BY <2>3 DEF vars
      <3>2. TypeOK'
        <4>1. /\ aw' = aw /\ w' = w /\ awvalid' = awvalid /\ wvalid' = wvalid
              /\ bready' = bready /\ ar' = ar /\ rready' = rready
          BY <3>1 DEF master
        <4>2. /\ axi_awready' = axi_awready /\ axi_awaddr' = axi_awaddr
              /\ axi_wready' = axi_wready /\ axi_bvalid' = axi_bvalid
              /\ axi_arready' = axi_arready /\ axi_araddr' = axi_araddr
              /\ axi_rvalid' = axi_rvalid /\ axi_rdata' = axi_rdata
              /\ params' = params /\ control' = control /\ irq_mask' = irq_mask
          BY <3>1 DEF slave
        <4>3. TypeOK
          BY DEF IInv
        <4>4. /\ aw' \in Seq(Writes) /\ w' \in Seq(Writes)
              /\ awvalid' \in BOOLEAN /\ wvalid' \in BOOLEAN /\ bready' \in Ready
              /\ ar' \in Addresses \cup {None} /\ rready' \in Ready
          BY <4>1, <4>3, Zenon DEF TypeOK
        <4>5. /\ axi_awready' \in BOOLEAN /\ axi_wready' \in BOOLEAN
              /\ axi_bvalid' \in BOOLEAN
              /\ axi_arready' \in BOOLEAN /\ axi_rvalid' \in BOOLEAN
              /\ axi_awaddr' \in Addresses \cup {None}
              /\ axi_araddr' \in Addresses \cup {None}
              /\ axi_rdata' \in Words /\ params' \in [Params -> Words]
              /\ control' \in Words /\ irq_mask' \in BOOLEAN
          BY <4>2, <4>3, Zenon DEF TypeOK
        <4>6. QED
          BY <4>4, <4>5, Zenon DEF TypeOK, Ready, Addresses, Writes, Words, Lanes
      <3>3. Paired' /\ Latched' /\ Answered'
        BY <3>1 DEF master, slave, IInv, Paired, Latched, Answered
      <3>4. QED
        BY <3>2, <3>3 DEF IInv
    <2>4. QED
      BY <2>1, <2>2, <2>3 DEF Next
  <1>2. QED
    BY <1>1, InitIInv, PTL DEF Spec

\* Every register and signal of the slave has its type, whatever the master does.
THEOREM SlaveTypeCorrect == Spec => []TypeOK
  <1>1. IInv => TypeOK
    BY DEF IInv
  <1>2. QED
    BY <1>1, SlaveInvariant, PTL

-----------------------------------------------------------------------------
(***************************************************************************)
(* Refinement.                                                             *)
(***************************************************************************)
\* The initial states of the slave are initial states of the register file.
LEMMA InitRefines == Init => Contract!Init
  BY DEF Init, Contract!Init, ParamsAtReset, Contract!ParamsAtReset, Zeros,
         Contract!Zeros, Ones, Contract!Ones, Lanes, Contract!Lanes, Ready

\* A bus reset is a reset of the register file.
LEMMA ResetRefines == Reset => Contract!Reset
  BY DEF Reset, Contract!Reset, ParamsAtReset, Contract!ParamsAtReset, Zeros,
         Contract!Zeros, Ones, Contract!Ones, Lanes, Contract!Lanes, Ready

\* The abstract operators on registers are the concrete ones.
LEMMA SameOperators ==
    /\ Contract!Zeros = Zeros /\ Contract!Words = Words
    /\ Contract!Writes = Writes /\ Contract!Addresses = Addresses
    /\ \A p, r : Contract!Written(p, r) = Written(p, r)
    /\ \A r : Contract!ControlOf(r) = ControlOf(r)
    /\ \A r : Contract!Acknowledges(r) = Acknowledges(r)
    /\ \A p, e, a : Contract!ReadOf(p, e, a) = ReadOf(p, e, a)
  BY DEF Contract!Zeros, Zeros, Contract!Words, Words, Contract!Writes, Writes,
         Contract!Addresses, Addresses, Contract!Lanes, Lanes,
         Contract!Written, Written, Contract!Merge, Merge,
         Contract!ControlOf, ControlOf, Contract!Acknowledges, Acknowledges,
         Contract!ReadOf, ReadOf

\* The master issues at most one write behind those under way.
LEMMA IssueRefines ==
    ASSUME IInv, NEW new \in News, MasterWrites(new)
    PROVE  Contract!Issue(Rest)
  <1>1. w' = Rest \o new /\ Rest \in Seq(Writes)
    BY EdgeQueues
  <1>2. CASE new = <<>>
    BY <1>1, <1>2 DEF Contract!Issue
  <1>3. CASE new # <<>>
    <2>1. PICK r \in Requests : new = <<r>>
      BY <1>3, NewWrites
    <2>2. r \in Writes
      BY InputsAssumption
    <2>3. w' = Append(Rest, r)
      BY <1>1, <2>1, <2>2
    <2>4. w' # <<>> /\ w'[Len(w')] = r
      BY <1>1, <2>2, <2>3
    <2>5. QED
      BY <2>2, <2>3, <2>4, SameOperators DEF Contract!Issue
  <1>4. QED
    BY <1>2, <1>3

\* A write that is accepted takes effect as a whole and is owed an answer.
LEMMA ApplyRefines ==
    ASSUME IInv, NEW new \in News, MasterWrites(new), RegisterWrite,
           WriteResponse, slv_reg_wren
    PROVE  Contract!Apply
  <1>1. w # <<>>
    BY DEF IInv, Paired, slv_reg_wren
  <1>2. /\ params' = Written(params, Head(w))
        /\ control' = ControlOf(Head(w))
        /\ irq_mask' = Acknowledges(Head(w))
    BY AcceptedIsHead, Zenon DEF RegisterWrite
  <1>3. Contract!Issue(Tail(w))
    BY IssueRefines DEF Rest
  <1>4. ~axi_bvalid /\ axi_bvalid'
    BY DEF IInv, Answered, WriteResponse, slv_reg_wren
  <1>5. QED
    BY <1>1, <1>2, <1>3, <1>4, SameOperators DEF Contract!Apply

\* In an edge without a write only an answer may be taken.
LEMMA KeepRefines ==
    ASSUME IInv, NEW new \in News, MasterWrites(new), RegisterWrite,
           WriteResponse, ~slv_reg_wren
    PROVE  Contract!Keep
  <1>1. params' = params /\ control' = Zeros /\ irq_mask' = FALSE
    BY Zenon DEF RegisterWrite
  <1>2. Contract!Issue(w)
    BY IssueRefines DEF Rest
  <1>3. axi_bvalid' <=> axi_bvalid /\ ~bready
    BY DEF WriteResponse
  <1>4. QED
    BY <1>1, <1>2, <1>3, SameOperators DEF Contract!Keep

\* A read returns what its register holds when it is accepted.
LEMMA ReadRefines ==
    ASSUME IInv, NEW engine \in Engine, MasterReads, ReadResponse,
           RegisterRead(engine)
    PROVE  Contract!NoSample \/ \E e \in Words : Contract!Sample(e)
  <1>1. axi_rdata \in Words
    BY DEF IInv, TypeOK
  <1>2. CASE slv_reg_rden
    <2>1. ar # None /\ ~axi_rvalid /\ axi_araddr = ar /\ axi_rvalid'
      BY <1>2 DEF IInv, Latched, ReadResponse, slv_reg_rden
    <2>2. axi_rdata' = ReadOf(params, engine, ar)
      BY <1>2, <2>1 DEF RegisterRead
    <2>3. ar' \in Addresses \cup {None}
      BY InputsAssumption DEF MasterReads, IInv, TypeOK
    <2>4. Contract!Sample(engine)
      BY <2>1, <2>2, <2>3, SameOperators DEF Contract!Sample
    <2>5. QED
      BY <2>4, InputsAssumption
  <1>3. CASE ~slv_reg_rden
    <2>1. axi_rdata' = axi_rdata /\ (axi_rvalid' <=> axi_rvalid /\ ~rready)
      BY <1>3 DEF RegisterRead, ReadResponse
    <2>2. ~ArTaken
      BY <1>3 DEF IInv, Answered, ArTaken, slv_reg_rden
    <2>3. ar' = ar \/ (ar = None /\ ar' \in Addresses)
      BY <2>2, InputsAssumption DEF MasterReads, MayRead
    <2>4. QED
      BY <2>1, <2>3, SameOperators DEF Contract!NoSample
  <1>4. QED
    BY <1>2, <1>3

\* An edge of the slave is an edge of the register file.
LEMMA EdgeRefines ==
    ASSUME IInv, NEW new \in News, NEW engine \in Engine, Edge(new, engine)
    PROVE  Contract!Edge
  <1>1. Contract!Apply \/ Contract!Keep
    BY ApplyRefines, KeepRefines DEF Edge
  <1>2. Contract!NoSample \/ \E e \in Contract!Words : Contract!Sample(e)
    BY ReadRefines, SameOperators DEF Edge
  <1>3. bready' \in BOOLEAN /\ rready' \in BOOLEAN
    BY DEF Edge, MasterWrites, MasterReads, Ready
  <1>4. QED
    BY <1>1, <1>2, <1>3 DEF Contract!Edge

(***************************************************************************)
(* The slave is a register file: each write takes effect once, as a whole, *)
(* with its own address and data, and each transfer is answered once.      *)
(***************************************************************************)
THEOREM SlaveImplements == Spec => ImplementsRegisterFile
  <1>1. IInv /\ [Next]_vars => [Contract!Next]_(Contract!vars)
    <2> SUFFICES ASSUME IInv, [Next]_vars PROVE [Contract!Next]_(Contract!vars)
      OBVIOUS
    <2>1. CASE Reset
      BY <2>1, ResetRefines DEF Contract!Next
    <2>2. CASE Run
      BY <2>2, EdgeRefines DEF Run, Contract!Next
    <2>3. CASE UNCHANGED vars
      BY <2>3 DEF vars, master, slave, Contract!vars
    <2>4. QED
      BY <2>1, <2>2, <2>3 DEF Next
  <1>2. QED
    BY <1>1, InitRefines, SlaveInvariant, PTL
       DEF Spec, ImplementsRegisterFile, Contract!Spec
-----------------------------------------------------------------------------
(***************************************************************************)
(* A transfer is answered at the second edge after it is on the bus, if no *)
(* reset comes between: the first makes the slave ready, and the transfer  *)
(* is still there; the second takes it and answers, since no older answer  *)
(* is in the way.  That is so for both masters, and whatever the other     *)
(* channel does.                                                           *)
(***************************************************************************)
TwoEdges ==
    /\ awvalid /\ wvalid /\ ~axi_awready =>
         (awvalid /\ wvalid /\ axi_awready /\ axi_wready)'
    /\ axi_awready => ~axi_bvalid /\ axi_bvalid'
    /\ ar # None /\ ~axi_arready => ar' = ar /\ axi_arready'
    /\ axi_arready => ~axi_rvalid /\ axi_rvalid'

LEMMA EdgeAnswers ==
    ASSUME IInv, NEW new \in News, NEW engine \in Engine, Edge(new, engine)
    PROVE  TwoEdges
  <1>1. ASSUME awvalid, wvalid, ~axi_awready
        PROVE  (awvalid /\ wvalid /\ axi_awready /\ axi_wready)'
    <2>1. axi_awready'
      BY <1>1 DEF Edge, AwAccept
    <2>2. awvalid' /\ wvalid'
      BY <2>1, EdgeLatchedWrite DEF Edge
    <2>3. Paired'
      BY EdgePaired DEF Edge
    <2>4. QED
      BY <2>1, <2>2, <2>3 DEF Paired
  <1>2. ASSUME axi_awready PROVE ~axi_bvalid /\ axi_bvalid'
    <2>1. slv_reg_wren /\ ~axi_bvalid
      BY <1>2 DEF IInv, Paired, Latched, Answered, slv_reg_wren
    <2>2. QED
      BY <2>1 DEF Edge, WriteResponse
  <1>3. ASSUME ar # None, ~axi_arready PROVE ar' = ar /\ axi_arready'
    <2>1. axi_arready' /\ axi_araddr' = ar
      BY <1>3 DEF Edge, ArAccept
    <2>2. QED
      BY <2>1, EdgeLatchedRead DEF Edge
  <1>4. ASSUME axi_arready PROVE ~axi_rvalid /\ axi_rvalid'
    <2>1. slv_reg_rden /\ ~axi_rvalid
      BY <1>4 DEF IInv, Latched, Answered, slv_reg_rden
    <2>2. QED
      BY <2>1 DEF Edge, ReadResponse
  <1>5. QED
    BY <1>1, <1>2, <1>3, <1>4 DEF TwoEdges

\* WriteAnswered and ReadAnswered need no more than two edges of the bus clock.
THEOREM AnswersInTwoEdges == Spec => [][Run => TwoEdges]_vars
  <1>1. IInv /\ [Next]_vars => [Run => TwoEdges]_vars
    BY EdgeAnswers DEF Run
  <1>2. QED
    BY <1>1, SlaveInvariant, PTL DEF Spec
=============================================================================
