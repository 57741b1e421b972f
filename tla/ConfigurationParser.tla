------------------------ MODULE ConfigurationParser ------------------------
(***************************************************************************)
(* The two parsers of a configuration descriptor.  enumerator.py reads it  *)
(* byte by byte as EP0 delivers it (the states CONFIG_HEADER_WAIT and      *)
(* CONFIG_WAIT); descriptors.py parses the finished capture               *)
(* (parse_mouse_configuration), the mirror the enumerator is to agree      *)
(* with.  Both are pure: a device's answer in, a verdict and an endpoint   *)
(* table out.                                                              *)
(*                                                                         *)
(* The module builds configurations one descriptor at a time and compares  *)
(* the two on each.  A descriptor is the sequence of its bytes.            *)
(***************************************************************************)
EXTENDS Integers, Sequences, SequencesExt, FiniteSets

CONSTANTS
    MaxInterfaces, MaxEndpoints, MaxConfigurationSize, MaxReportSize,
    MaxPacketSize,       \* MAX_INTERFACES ... MAX_PACKET_SIZE
    Starts,              \* what a configuration may begin with, after its header
    Descriptors,         \* the descriptors that may follow
    MaxMore,             \* bound: descriptors after the start
    Misstated            \* errors of the header's total length, 0 among them

ASSUME ParserAssumption ==
    /\ {MaxInterfaces, MaxEndpoints} \subseteq 1..15
    /\ {MaxConfigurationSize, MaxReportSize, MaxPacketSize} \subseteq Nat \ {0}
    /\ MaxMore \in Nat /\ 0 \in Misstated /\ Misstated \subseteq Int

VARIABLES
    start,               \* the descriptors the configuration begins with
    more                 \* and those that follow

vars == <<start, more>>

Word(low, high) == low + 256 * high
Byte(d, i) == d[i + 1]                 \* offset i of the code
CONFIGURATION == 2
INTERFACE == 4
ENDPOINT == 5
HID == 33
REPORT == 34

NoOut == [number |-> 0]

-----------------------------------------------------------------------------
(***************************************************************************)
(* The gateware.  The registers after `header`, the nine bytes fetched     *)
(* first, and before the first byte of the full fetch.                     *)
(***************************************************************************)
Prepared(header) ==
    [byte_count |-> 0, descriptor_position |-> 0,
     current_descriptor_length |-> 0, current_descriptor_type |-> 0,
     declared_length |-> Word(Byte(header, 2), Byte(header, 3)),
     configuration_value |-> Byte(header, 5),
     declared_interfaces |-> 0, interface_count |-> 0,
     cur_interface |-> 0, cur_is_hid |-> FALSE, cur_alt_nonzero |-> FALSE,
     cur_report_length |-> 0,
     hid_declared_count |-> 0, hid_subordinate_phase |-> 0,
     hid_subordinate_type |-> 0, hid_subordinate_length_low |-> 0,
     ep_addr |-> 0, ep_attrs |-> 0, endpoint_mps_low |-> 0, ep_mps |-> 0,
     ep_interval_q |-> 0,
     eps |-> <<>>, out |-> NoOut, out_ignored |-> FALSE,
     malformed |-> FALSE, oversized |-> FALSE, unsupported |-> FALSE]

\* The counter has the width of range(MAX_INTERFACES + 2).
InterfaceCounter == CHOOSE n \in {4, 8, 16, 32} :
    n >= MaxInterfaces + 2 /\ \A k \in {4, 8, 16, 32} : k >= MaxInterfaces + 2 => n <= k

LengthByte(r, b) ==
    [r EXCEPT !.current_descriptor_length = b, !.descriptor_position = 1,
              !.malformed = @ \/ b < 2]

TypeByte(r, b) ==
    LET n == r.current_descriptor_length
        header == r.byte_count = 1
        begins == ~header /\ b = INTERFACE
        misfit == IF header THEN b # CONFIGURATION \/ n # 9
                  ELSE \/ b = INTERFACE /\ n # 9
                       \/ b = HID /\ r.cur_is_hid /\ n < 9
                       \/ b = ENDPOINT /\ n \notin {7, 9}
    IN  [r EXCEPT
           !.current_descriptor_type = b,
           !.malformed = @ \/ misfit,
           !.interface_count = IF begins THEN (@ + 1) % InterfaceCounter ELSE @,
           !.cur_is_hid = @ /\ ~begins,
           !.cur_alt_nonzero = @ /\ ~begins,
           !.cur_report_length = IF begins THEN 0 ELSE @,
           !.hid_subordinate_phase = IF ~header /\ b = HID THEN 0 ELSE @,
           !.descriptor_position = IF n = 2 THEN 0 ELSE 2]

\* Mutant: the configuration value of the second answer is not compared.
ConfigurationFieldLoose(r, p, b) ==
    CASE p = 2 -> [r EXCEPT !.malformed = @ \/ b # r.declared_length % 256]
      [] p = 3 -> [r EXCEPT !.malformed = @ \/ b # r.declared_length \div 256]
      [] p = 4 -> [r EXCEPT !.declared_interfaces = b,
                            !.unsupported = @ \/ b \notin 1..MaxInterfaces]
      [] OTHER -> r

ConfigurationField(r, p, b) ==
    CASE p = 2 -> [r EXCEPT !.malformed = @ \/ b # r.declared_length % 256]
      [] p = 3 -> [r EXCEPT !.malformed = @ \/ b # r.declared_length \div 256]
      [] p = 4 -> [r EXCEPT !.declared_interfaces = b,
                            !.unsupported = @ \/ b \notin 1..MaxInterfaces]
      [] p = 5 -> [r EXCEPT !.malformed = @ \/ b # r.configuration_value]
      [] OTHER -> r

\* Mutant: the limit is checked before the alternate setting is discounted.
OverLimitEarly(r, alternate) == r.interface_count > MaxInterfaces

OverLimit(r, alternate) == alternate = 0 /\ r.interface_count > MaxInterfaces

\* bAlternateSetting comes two bytes after the type: an alternate setting
\* takes back the count, a new interface is held to the limit.
InterfaceField(r, p, b) ==
    CASE p = 2 -> [r EXCEPT !.cur_interface = b]
      [] p = 3 ->
           [r EXCEPT !.cur_alt_nonzero = @ \/ b # 0,
                     !.interface_count = IF b # 0 THEN (@ - 1) % InterfaceCounter ELSE @,
                     !.unsupported = @ \/ OverLimit(r, b)]
      [] p = 5 -> [r EXCEPT !.cur_is_hid = b = 3]
      [] OTHER -> r

\* The subordinate table: type, low and high byte of each entry.
SubordinateByte(r, b) ==
    LET n == Word(r.hid_subordinate_length_low, b)
        report == r.hid_subordinate_type = REPORT
        again == report /\ r.cur_report_length # 0
        taken == report /\ ~again
    IN  CASE r.hid_subordinate_phase = 0 ->
               [r EXCEPT !.hid_subordinate_type = b, !.hid_subordinate_phase = 1]
          [] r.hid_subordinate_phase = 1 ->
               [r EXCEPT !.hid_subordinate_length_low = b, !.hid_subordinate_phase = 2]
          [] OTHER ->
               [r EXCEPT !.hid_subordinate_phase = 0,
                         !.malformed = @ \/ again \/ (taken /\ n = 0),
                         !.cur_report_length = IF taken THEN n ELSE @,
                         !.oversized = @ \/ (taken /\ n > MaxReportSize)]

HidField(r, p, b) ==
    CASE ~r.cur_is_hid -> r
      [] p = 5 -> [r EXCEPT !.hid_declared_count = b, !.malformed = @ \/ b = 0]
      [] p >= 6 -> SubordinateByte(r, b)
      [] OTHER -> r

EndpointField(r, p, b) ==
    CASE p = 2 -> [r EXCEPT !.ep_addr = b]
      [] p = 3 -> [r EXCEPT !.ep_attrs = b]
      [] p = 4 -> [r EXCEPT !.endpoint_mps_low = b]
      [] p = 5 -> [r EXCEPT !.ep_mps = Word(r.endpoint_mps_low, b)]
      [] p = 6 -> [r EXCEPT !.ep_interval_q = b]
      [] OTHER -> r

\* bEndpointAddress and bmAttributes, for both parsers.
IsIn(address) == address >= 128
Number(address) == address % 16
ReservedBits(address) == (address \div 16) % 8
IsInterrupt(attributes) == attributes % 4 = 3

Bindable(r, interval) ==
    [interface |-> r.cur_interface, number |-> Number(r.ep_addr),
     max_packet |-> r.ep_mps, interval |-> interval,
     report_length |-> r.cur_report_length]

\* Mutant: two relay slots may answer the same token.
NoneTaken(r) == {}

Taken(r) == {r.eps[k].number : k \in DOMAIN r.eps}

\* The interrupt-IN endpoint of a HID interface: a slot of the table, or a
\* reason to refuse the device.
EndInInterrupt(r, s, interval) ==
    LET unfit == \/ ReservedBits(r.ep_addr) # 0 \/ Number(r.ep_addr) = 0
                 \/ Number(r.ep_addr) \in Taken(r)
        bad == r.ep_mps = 0 \/ interval = 0 \/ r.cur_report_length = 0
    IN  CASE unfit -> [s EXCEPT !.unsupported = TRUE]
          [] ~unfit /\ r.ep_mps > MaxPacketSize -> [s EXCEPT !.unsupported = TRUE]
          [] ~unfit /\ r.ep_mps <= MaxPacketSize /\ bad -> [s EXCEPT !.malformed = TRUE]
          [] OTHER ->
               IF Len(r.eps) >= MaxEndpoints THEN [s EXCEPT !.oversized = TRUE]
               ELSE [s EXCEPT !.eps = Append(@, Bindable(r, interval))]

\* The interrupt-OUT endpoint: the first that fits is kept, no other refuses
\* the device.
EndOutInterrupt(r, s, interval) ==
    LET in_bounds == /\ ReservedBits(r.ep_addr) = 0 /\ Number(r.ep_addr) # 0
                     /\ r.ep_mps \in 1..MaxPacketSize /\ interval # 0
    IN  IF in_bounds /\ r.out = NoOut
        THEN [s EXCEPT !.out = [number |-> Number(r.ep_addr),
                                max_packet |-> r.ep_mps, interval |-> interval]]
        ELSE [s EXCEPT !.out_ignored = TRUE]

\* Mutant: bInterval is the last byte of the descriptor, whatever its length.
LastByte(r, b) == b

\* bInterval is the last byte only in the seven-byte form.
ep_interval_now(r, b) == IF r.descriptor_position = 6 THEN b ELSE r.ep_interval_q

\* What the last byte of a descriptor decides, from the registers before it.
EndDescriptor(r, s, b) ==
    LET interval == ep_interval_now(r, b)
        relayed == /\ r.current_descriptor_type = ENDPOINT /\ r.cur_is_hid
                   /\ ~r.cur_alt_nonzero /\ IsInterrupt(r.ep_attrs)
        n == r.current_descriptor_length
    IN  CASE r.current_descriptor_type = HID ->
               [s EXCEPT !.malformed =
                   @ \/ (r.cur_is_hid /\ n # 6 + 3 * r.hid_declared_count)]
          [] relayed /\ IsIn(r.ep_addr) -> EndInInterrupt(r, s, interval)
          [] relayed /\ ~IsIn(r.ep_addr) -> EndOutInterrupt(r, s, interval)
          [] OTHER -> s

FieldByte(r, b) ==
    LET p == r.descriptor_position
        t == r.current_descriptor_type
        s == CASE t = CONFIGURATION -> ConfigurationField(r, p, b)
               [] t = INTERFACE -> InterfaceField(r, p, b)
               [] t = HID -> HidField(r, p, b)
               [] t = ENDPOINT -> EndpointField(r, p, b)
               [] OTHER -> r
    IN  IF p = r.current_descriptor_length - 1
        THEN [EndDescriptor(r, s, b) EXCEPT !.descriptor_position = 0]
        ELSE [s EXCEPT !.descriptor_position = (p + 1) % 256]

\* One accepted byte.
ByteStep(r, b) ==
    LET s == CASE r.descriptor_position = 0 -> LengthByte(r, b)
               [] r.descriptor_position = 1 -> TypeByte(r, b)
               [] OTHER -> FieldByte(r, b)
    IN  [s EXCEPT !.byte_count = @ + 1]

-----------------------------------------------------------------------------
\* A verdict: a configuration with its table, or the error it is refused with.
Refused(error) == [ok |-> FALSE, error |-> error]
Accepted(value, eps, out, ignored) ==
    [ok |-> TRUE, value |-> value, eps |-> eps, out |-> out, ignored |-> ignored]

\* CONFIG_HEADER_WAIT: what the first nine bytes show.
HeaderVerdict(header) ==
    LET total == Word(Byte(header, 2), Byte(header, 3))
        malformed == \/ Byte(header, 0) # 9 \/ Byte(header, 1) # CONFIGURATION
                     \/ total < 9 \/ Byte(header, 5) = 0
    IN  CASE malformed -> "MALFORMED"
          [] ~malformed /\ total > MaxConfigurationSize -> "OVERSIZED"
          [] OTHER ->
             IF Byte(header, 4) \notin 1..MaxInterfaces THEN "UNSUPPORTED" ELSE "NONE"

\* The end of CONFIG_WAIT.
CaptureVerdict(r) ==
    CASE r.byte_count > r.declared_length -> Refused("OVERSIZED")
      [] r.byte_count < r.declared_length -> Refused("MALFORMED")
      [] OTHER ->
         IF r.descriptor_position # 0 \/ r.malformed THEN Refused("MALFORMED")
         ELSE IF r.oversized THEN Refused("OVERSIZED")
         ELSE IF \/ r.unsupported \/ r.interface_count # r.declared_interfaces
                 \/ r.eps = <<>>
              THEN Refused("UNSUPPORTED")
              ELSE Accepted(r.configuration_value, r.eps, r.out, r.out_ignored)

RECURSIVE Fed(_, _, _)
Fed(r, data, i) == IF i > Len(data) THEN r ELSE Fed(ByteStep(r, data[i]), data, i + 1)

\* The enumerator: the header, then the whole of it.
Gateware(header, data) ==
    IF HeaderVerdict(header) # "NONE" THEN Refused(HeaderVerdict(header))
    ELSE CaptureVerdict(Fed(Prepared(header), data, 1))

-----------------------------------------------------------------------------
(***************************************************************************)
(* The mirror: parse_mouse_configuration.  It walks the descriptors by     *)
(* their lengths and raises the first error it meets.                      *)
(***************************************************************************)
Fresh == [count |-> 0, hid |-> FALSE, alt |-> FALSE, interface |-> 0, report |-> 0,
          eps |-> <<>>, out |-> NoOut, ignored |-> FALSE, error |-> "NONE"]

Raise(w, error) == [w EXCEPT !.error = error]

MirrorInterface(w, d) ==
    LET alt == Byte(d, 3) # 0
        count == IF alt THEN w.count ELSE w.count + 1
    IN  IF Len(d) # 9 THEN Raise(w, "MALFORMED")
        ELSE IF ~alt /\ count > MaxInterfaces THEN Raise(w, "UNSUPPORTED")
        ELSE [w EXCEPT !.count = count, !.alt = alt, !.interface = Byte(d, 2),
                       !.hid = Byte(d, 5) = 3, !.report = 0]

\* Entry k of the subordinate table, until an error is raised.
MirrorSubordinate(w, d, k) ==
    LET n == Word(Byte(d, 7 + 3 * k), Byte(d, 8 + 3 * k))
    IN  IF w.error # "NONE" \/ Byte(d, 6 + 3 * k) # REPORT THEN w
        ELSE IF w.report # 0 \/ n = 0 THEN Raise(w, "MALFORMED")
        ELSE IF n > MaxReportSize THEN Raise(w, "OVERSIZED")
        ELSE [w EXCEPT !.report = n]

MirrorHid(w, d) ==
    IF ~w.hid THEN w
    ELSE IF Len(d) < 9 \/ Byte(d, 5) = 0 \/ Len(d) # 6 + 3 * Byte(d, 5)
    THEN Raise(w, "MALFORMED")
    ELSE FoldLeft(LAMBDA v, k : MirrorSubordinate(v, d, k), w,
                  [k \in 1..Byte(d, 5) |-> k - 1])

MirrorOut(w, d) ==
    LET mps == Word(Byte(d, 4), Byte(d, 5))
        in_bounds == /\ ReservedBits(Byte(d, 2)) = 0 /\ Number(Byte(d, 2)) # 0
                     /\ mps \in 1..MaxPacketSize /\ Byte(d, 6) # 0
    IN  IF in_bounds /\ w.out = NoOut
        THEN [w EXCEPT !.out = [number |-> Number(Byte(d, 2)), max_packet |-> mps,
                                interval |-> Byte(d, 6)]]
        ELSE [w EXCEPT !.ignored = TRUE]

MirrorIn(w, d) ==
    LET mps == Word(Byte(d, 4), Byte(d, 5))
        number == Number(Byte(d, 2))
    IN  IF \/ ReservedBits(Byte(d, 2)) # 0 \/ number = 0
           \/ \E k \in DOMAIN w.eps : w.eps[k].number = number
           THEN Raise(w, "UNSUPPORTED")
        ELSE IF mps = 0 THEN Raise(w, "MALFORMED")
        ELSE IF mps > MaxPacketSize THEN Raise(w, "UNSUPPORTED")
        ELSE IF Byte(d, 6) = 0 \/ w.report = 0 THEN Raise(w, "MALFORMED")
        ELSE IF Len(w.eps) >= MaxEndpoints THEN Raise(w, "OVERSIZED")
        ELSE [w EXCEPT !.eps = Append(@,
                [interface |-> w.interface, number |-> number, max_packet |-> mps,
                 interval |-> Byte(d, 6), report_length |-> w.report])]

MirrorEndpoint(w, d) ==
    IF Len(d) \notin {7, 9} THEN Raise(w, "MALFORMED")
    ELSE IF ~(w.hid /\ ~w.alt /\ IsInterrupt(Byte(d, 3))) THEN w
    ELSE IF IsIn(Byte(d, 2)) THEN MirrorIn(w, d) ELSE MirrorOut(w, d)

MirrorDescriptor(w, d) ==
    CASE Byte(d, 1) = INTERFACE -> MirrorInterface(w, d)
      [] Byte(d, 1) = HID -> MirrorHid(w, d)
      [] Byte(d, 1) = ENDPOINT -> MirrorEndpoint(w, d)
      [] OTHER -> w

\* The while loop, from `offset`.
RECURSIVE MirrorWalk(_, _, _)
MirrorWalk(w, data, offset) ==
    IF w.error # "NONE" \/ offset >= Len(data) THEN w
    ELSE LET n == Byte(data, offset)
         IN  IF Len(data) - offset < 2 \/ n < 2 \/ offset + n > Len(data)
             THEN Raise(w, "MALFORMED")
             ELSE MirrorWalk(MirrorDescriptor(w, SubSeq(data, offset + 1, offset + n)),
                             data, offset + n)

MirrorHeader(data) ==
    IF Len(data) > MaxConfigurationSize THEN "OVERSIZED"
    ELSE IF Len(data) < 9 \/ Byte(data, 0) # 9 \/ Byte(data, 1) # CONFIGURATION
    THEN "MALFORMED"
    ELSE LET total == Word(Byte(data, 2), Byte(data, 3))
         IN  IF total > MaxConfigurationSize THEN "OVERSIZED"
             ELSE IF total # Len(data) THEN "MALFORMED"
             ELSE IF Byte(data, 4) \notin 1..MaxInterfaces THEN "UNSUPPORTED"
             ELSE IF Byte(data, 5) = 0 THEN "MALFORMED" ELSE "NONE"

Mirror(data) ==
    IF MirrorHeader(data) # "NONE" THEN Refused(MirrorHeader(data))
    ELSE LET w == MirrorWalk(Fresh, data, 9)
         IN  IF w.error # "NONE" THEN Refused(w.error)
             ELSE IF w.count # Byte(data, 4) \/ w.eps = <<>> THEN Refused("UNSUPPORTED")
             ELSE Accepted(Byte(data, 5), w.eps, w.out, w.ignored)

-----------------------------------------------------------------------------
\* A configuration grows by one descriptor at a time.
Init == start \in Starts /\ more = <<>>

Extend(d) ==
    /\ Len(more) < MaxMore
    /\ more' = Append(more, d) /\ UNCHANGED start

Next == \E d \in Descriptors : Extend(d)

Spec == Init /\ [][Next]_vars

body == start \o more
content == FlattenSeq(body)

\* Its header, declaring n interfaces and `total` bytes.
Header(total, n) == <<9, CONFIGURATION, total % 256, total \div 256, n, 1, 0, 128, 50>>

\* What the device delivers of it, asked for as many bytes as it declares.
Delivered(total, n) ==
    LET all == Header(total, n) \o content
    IN  SubSeq(all, 1, IF total < Len(all) THEN total ELSE Len(all))

Totals == {9 + Len(content) + e : e \in Misstated}
Counts == 0..(MaxInterfaces + 1)

-----------------------------------------------------------------------------
(***************************************************************************)
(* Properties.                                                             *)
(***************************************************************************)
SameAnswer(g, p) ==
    /\ g.ok = p.ok
    /\ g.ok => g = p

\* The enumerator accepts exactly the configurations its mirror accepts, with
\* the same endpoint table and the same OUT endpoint, whatever total length and
\* interface count the header declares.
AgreesCaseForCase ==
    \A total \in Totals, n \in Counts :
        LET data == Delivered(total, n)
        IN  SameAnswer(Gateware(Header(total, n), data), Mirror(data))

\* The same for configurations without a second configuration descriptor.
MirrorsWithoutSecondHeader ==
    (\A k \in DOMAIN body : Byte(body[k], 1) # CONFIGURATION) => AgreesCaseForCase

\* The interface descriptor that descriptor k belongs to.
Owner(k) ==
    LET before == {i \in 1..k : Byte(body[i], 1) = INTERFACE}
    IN  IF before = {} THEN 0 ELSE CHOOSE i \in before : \A j \in before : j <= i

IsHidInput(k) ==
    LET d == body[k]
    IN  /\ Byte(d, 1) = ENDPOINT /\ IsIn(Byte(d, 2)) /\ IsInterrupt(Byte(d, 3))
        /\ Owner(k) # 0
        /\ Byte(body[Owner(k)], 5) = 3 /\ Byte(body[Owner(k)], 3) = 0

\* The relay's endpoint table, read off the descriptors: every interrupt-IN
\* endpoint of a HID interface's first setting, in order, and no other.
HidInputs ==
    LET slots == SelectSeq([k \in DOMAIN body |-> k], IsHidInput)
    IN  [s \in DOMAIN slots |->
            [interface |-> Byte(body[Owner(slots[s])], 2),
             number |-> Number(Byte(body[slots[s]], 2)),
             interval |-> Byte(body[slots[s]], 6)]]

\* An accepted device is relayed whole: each of its HID input endpoints has a
\* slot, with its own interface, number and polling interval, no number twice
\* (two slots would answer one token), no more slots than there are relays,
\* and a report descriptor the store can hold.
TableIsComplete ==
    \A n \in Counts :
        LET total == 9 + Len(content)
            g == Gateware(Header(total, n), Delivered(total, n))
        IN  g.ok => /\ HidInputs = [s \in DOMAIN g.eps |->
                           [interface |-> g.eps[s].interface, number |-> g.eps[s].number,
                            interval |-> g.eps[s].interval]]
                    /\ IsInjective([s \in DOMAIN g.eps |-> g.eps[s].number])
                    /\ Len(g.eps) \in 1..MaxEndpoints
                    /\ \A s \in DOMAIN g.eps : g.eps[s].report_length \in 1..MaxReportSize

\* The header is fetched twice.  A device whose second answer declares another
\* total length or another configuration value is refused: what was checked of
\* the first answer holds of the one that is kept.
SecondFetchAgrees ==
    \A n \in 1..MaxInterfaces, total \in Totals, value \in 1..2 :
        LET data == Delivered(9 + Len(content), n)
            header == [Header(total, 1) EXCEPT ![6] = value]
        IN  /\ total # Len(data) \/ value # Byte(data, 5)
            /\ total = Len(data) \/ value = Byte(data, 5)
            => ~Gateware(header, data).ok
=============================================================================
