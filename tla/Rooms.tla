------------------------------- MODULE Rooms -------------------------------
(***************************************************************************)
(* How many guests go into how many rooms, and what that costs:            *)
(* domain/room_policy.py, the room gates of inquiry_service.py and of      *)
(* conversation_reply_composer.py, two copies of which neither asks for    *)
(* the rates, and calculate_price of domain/pricing_policy.py, which does. *)
(***************************************************************************)
EXTENDS Integers, Sequences, FiniteSetsExt

CONSTANTS
    Rules,        \* room_opening_rules: rooms, min, max, extra (extra_beds)
    MaxGuests,    \* max_capacity of the room policy
    Rate,         \* base_prices_per_night: tier, by its capacity, and price type
    LongStayOff,  \* discount per night after the first, 0 for none
    PetFee,
    BbqFee,       \* the cleaning after a barbecue
    PersonFee     \* per guest above the standard capacity

ASSUME RoomsAssumption ==
    /\ Rules \in Seq([rooms : Nat \ {0}, min : Nat \ {0}, max : Nat \ {0}, extra : BOOLEAN])
    /\ {MaxGuests, LongStayOff, PetFee, BbqFee, PersonFee} \subseteq Nat

\* The number of rooms at which the code allows extra beds.
WholeHouse == 4

RulesFor(rooms) == {i \in DOMAIN Rules : Rules[i].rooms = rooms}
StandardRules(rooms) == {i \in RulesFor(rooms) : ~Rules[i].extra}

\* resolve_room_pricing_rule: the first standard rule, its capacity, which is
\* the name of its tier, and the most that any of the rules allows.  Only a
\* caller that passes the prices of the tenant has it ask for the tier's rate.
HasRule(rooms) == StandardRules(rooms) # {}
StandardCapacity(rooms) == Rules[Min(StandardRules(rooms))].max
HasRate(rooms) == StandardCapacity(rooms) \in DOMAIN Rate
Capacity(rooms) == Max({Rules[i].max : i \in RulesFor(rooms)})

\* minimum_rooms_for_guest_count takes the least of these, if there is one;
\* neither gate passes it the prices.
RoomsFor(guests) ==
    {Rules[i].rooms : i \in {j \in DOMAIN Rules :
        /\ Rules[j].min <= guests /\ guests <= Rules[j].max
        /\ HasRule(Rules[j].rooms)}}

\* max_guest_capacity.
MaxCapacity == Max({MaxGuests} \cup {Rules[i].max : i \in DOMAIN Rules})

\* FAULTY VARIANT of RoomGate: extra beds are forgotten.
RoomGateWithoutBeds(rooms, guests) ==
    IF guests > MaxCapacity \/ ~HasRule(rooms) THEN "manual"
    ELSE IF guests <= StandardCapacity(rooms) THEN "price"
    ELSE IF RoomsFor(guests) = {} THEN "manual" ELSE "suggest"

\* _room_gate of InquiryService, for a stay whose number of rooms is known: the
\* stay may be priced, the customer is asked to take more rooms, or staff take
\* over.
RoomGate(rooms, guests) ==
    IF guests > MaxCapacity \/ ~HasRule(rooms) THEN "manual"
    ELSE IF guests <= StandardCapacity(rooms) THEN "price"
    ELSE IF rooms = WholeHouse /\ guests <= Capacity(rooms) THEN "price"
    ELSE IF RoomsFor(guests) = {} THEN "manual" ELSE "suggest"

\* _room_gate of ConversationReplyComposer, the other copy.
StateRoomGate(rooms, guests) ==
    IF guests > MaxCapacity \/ ~HasRule(rooms) THEN "manual"
    ELSE IF guests <= StandardCapacity(rooms) THEN "price"
    ELSE IF rooms = WholeHouse /\ guests <= Capacity(rooms) THEN "price"
    ELSE IF RoomsFor(guests) = {} THEN "manual" ELSE "suggest"

\* The gate of a message that says everything, and that of a stay put together
\* over several messages.
Gate(path, rooms, guests) ==
    IF path = "message" THEN RoomGate(rooms, guests) ELSE StateRoomGate(rooms, guests)

\* The guest and room conditions of calculate_price.
CanPrice(rooms, guests) ==
    /\ guests > 0
    /\ MaxGuests > 0 => guests <= MaxGuests
    /\ HasRule(rooms) /\ HasRate(rooms)
    /\ guests <= Capacity(rooms)

\* _extra_person_fee.
ExtraPersonFee(rooms, guests) ==
    IF rooms = WholeHouse /\ guests \in (StandardCapacity(rooms) + 1)..Capacity(rooms)
    THEN PersonFee * (guests - StandardCapacity(rooms)) ELSE 0

\* _long_stay_discount: none on a trip with a holiday night.
LongStayDiscount(types) ==
    IF \E night \in DOMAIN types : types[night] \in {"spring_festival", "national_holiday"}
    THEN 0 ELSE LongStayOff * (Cardinality(DOMAIN types) - 1)

\* calculate_price: the total, given the price type of each night.
Total(types, rooms, guests, pets, bbq) ==
    LET NightRate(night) == Rate[StandardCapacity(rooms)][types[night]]
    IN  MapThenSumSet(NightRate, DOMAIN types) + ExtraPersonFee(rooms, guests)
            + PetFee * pets + (IF bbq > 0 THEN BbqFee ELSE 0) - LongStayDiscount(types)

-----------------------------------------------------------------------------
(* What they are for.                                                      *)

\* The gates and the price agree: what a gate lets through is priced if its
\* tier has a rate, and is refused only for want of one, which no gate asks
\* for.  A customer who takes the number of rooms she is told to take, which is
\* more than she asked for, is let through, and the two copies say the same.
GatesLeadToPrice(path, rooms, guests) ==
    /\ Gate(path, rooms, guests) = "price" /\ guests > 0 =>
          (CanPrice(rooms, guests) <=> HasRate(rooms))
    /\ Gate(path, rooms, guests) = "suggest" =>
          LET more == Min(RoomsFor(guests))
          IN  more > rooms /\ StateRoomGate(more, guests) = "price"
    /\ RoomGate(rooms, guests) = StateRoomGate(rooms, guests)

\* What a room policy keeps to, and the code does not check.  Extra beds are a
\* matter of the whole house; no rule is about more rooms than it has, or more
\* guests than max_capacity; and more rooms are for more guests.
SoundPolicy ==
    /\ \A i \in DOMAIN Rules :
          /\ Rules[i].rooms <= WholeHouse
          /\ Rules[i].extra => Rules[i].rooms = WholeHouse
          /\ MaxGuests > 0 => Rules[i].max <= MaxGuests
    /\ \A i, j \in DOMAIN Rules :
          ~Rules[i].extra /\ ~Rules[j].extra /\ Rules[i].rooms <= Rules[j].rooms =>
              Rules[i].max <= Rules[j].max

=============================================================================
