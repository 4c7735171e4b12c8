------------------------------ MODULE FormLayouts ------------------------------
(***************************************************************************)
(* The COA forms as their generators lay them out, one definition per      *)
(* generator.  Of a form the model keeps what somebody answers for:        *)
(*   - signs: the signature block from left to right, by the part each     *)
(*     signatory has in the matter;                                        *)
(*   - names: whom the body of the form names besides;                     *)
(*   - shows: the columns of the record it prints that other users may     *)
(*     change: the office, condition and accountable officer of an asset,  *)
(*     the supply of a requisition.                                        *)
(* Numbers, descriptions, costs, dates, texts the order brings along and   *)
(* the drawing are left out.                                               *)
(***************************************************************************)
EXTENDS Sequences

(* A line of underscores, to be signed by hand.                            *)
ByHand == "by_hand"

(* drawSignatureBlock(): one column per signatory.                         *)
SignedBy(parts, names, shows) ==
  [signs |-> parts, names |-> names, shows |-> shows]

Unsigned == <<ByHand, ByHand, ByHand>>

-----------------------------------------------------------------------------
(* Handing property over, and back.                                        *)
ParForm == SignedBy(<<"custodian", "issuer", ByHand>>, {}, {"officeOrSection"})
IcsForm == SignedBy(<<"issuer", "custodian", ByHand>>, {}, {"officeOrSection"})
PtrForm ==
  SignedBy(<<"issuer", ByHand, ByHand>>, {},
           {"officeOrSection", "accountableOfficer", "condition"})
ReceiptReturnedPropertyForm ==
  SignedBy(<<"returnee", "issuer", ByHand>>, {}, {})
ReceiptReturnedSepForm ==
  SignedBy(<<"returnee", "issuer", ByHand>>, {"returnee"}, {})
MoveInForm == SignedBy(<<"issuer", ByHand, ByHand>>, {}, {})
MoveOutForm == SignedBy(<<"issuer", ByHand, ByHand>>, {}, {})

(* Receiving, inspecting, losing and labelling it.                         *)
IarForm ==
  SignedBy(<<"issuer", ByHand, ByHand>>, {}, {"officeOrSection", "condition"})
IirupForm ==
  SignedBy(<<"issuer", ByHand, ByHand>>, {}, {"officeOrSection", "condition"})
RlsddpForm ==
  SignedBy(<<"issuer", ByHand, ByHand>>, {"issuer"}, {"condition"})
StickerCard == SignedBy(<<>>, {}, {"condition"})

(* The slip of a requisition.  The nominated supervisor stands under       *)
(* "Approved by", whatever became of the requisition.                      *)
RisForm ==
  SignedBy(<<"requester", "supervisor", "issuer", "requester">>, {}, {"supplied"})

(* Lists of a period.  They are signed by hand.                            *)
RsmiForm == SignedBy(Unsigned, {}, {})
RspiForm == SignedBy(Unsigned, {}, {})
RpciForm == SignedBy(Unsigned, {}, {"condition"})
RpcppeForm ==
  SignedBy(Unsigned, {}, {"condition", "officeOrSection", "accountableOfficer"})
WmrForm == SignedBy(Unsigned, {}, {"condition"})
AnnexA4Form == SignedBy(Unsigned, {"custodian"}, {"officeOrSection"})

-----------------------------------------------------------------------------
(* The layout of a form, by the OfficialFormType it is ordered as.         *)
Layouts ==
  [PAR |-> ParForm, ICS |-> IcsForm, PTR |-> PtrForm, IIRUP |-> IirupForm,
   RLSDDP |-> RlsddpForm, STICKER_CARD |-> StickerCard,
   RECEIPT_RETURNED_PROPERTY |-> ReceiptReturnedPropertyForm,
   RECEIPT_RETURNED_SEP |-> ReceiptReturnedSepForm, IAR |-> IarForm,
   MOVE_IN |-> MoveInForm, MOVE_OUT |-> MoveOutForm, RIS |-> RisForm,
   RSMI |-> RsmiForm, RSPI |-> RspiForm, RPCI |-> RpciForm,
   RPCPPE |-> RpcppeForm, WMR |-> WmrForm, ANNEX_A4 |-> AnnexA4Form]

Signs(form, part) ==
  \/ part \in Layouts[form].names
  \/ \E i \in DOMAIN Layouts[form].signs : Layouts[form].signs[i] = part
=============================================================================
