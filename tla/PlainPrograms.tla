--------------------------- MODULE PlainPrograms ---------------------------
(***************************************************************************)
(* The programs that run alone, and what is required of them: the page     *)
(* allocator of lec23.cc, the frames of network_hw, and the demonstrations *)
(* of design_pattern.                                                      *)
(***************************************************************************)
EXTENDS Integers

CONSTANTS MaxOrder, Regions,                                       \* PageAlloc
          NoReceipt, Hosts, BufferSize, Data, MaxSizes, MaxFrames, \* Frames
          NoTarget, Boxes, Parts, Receiver, Limit, Requests,       \* Patterns
          MaxRefs

VARIABLES free, broken, request, result, given, taken, handed, emptyCalls,
          packet_id, link, last, overrun,
          pattern, roots, made, alive, refs, target, called, outcome

Pages   == INSTANCE PageAlloc WITH held <- taken
Frame   == INSTANCE Frames WITH Nothing <- NoReceipt
Pattern == INSTANCE Patterns WITH kind <- pattern, None <- NoTarget

ASSUME ProgramsAssumption ==
  Pages!PageAssumption /\ Frame!FrameAssumption /\ Pattern!PatternAssumption

(* The properties of the components, stated and explained in their modules. *)

(* lec23.cc: no page is lost, given out twice, or free and given out. *)
PagesSafe == Pages!Inv

(* lec23.cc: get_pages fails only when no larger block is free. *)
PagesFailOnlyWithoutLarger == Pages!FailsOnlyWithoutLarger

(* lec23.cc: a request for all pages of the largest block is served if     *)
(* there is one free.                                                      *)
LargestRequestServed == Pages!LargestRequestServed

(* network_hw: what is received is what was sent, and it is received. *)
ReceivedAsSent == Frame!ReceivedAsSent

(* design_pattern: calls reach what is alive, and nothing leaks but cycles. *)
OwnedAndReached == Pattern!OwnedAndReached
=============================================================================
