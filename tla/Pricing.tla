------------------------------- MODULE Pricing -------------------------------
(***************************************************************************)
(* calculateQuote (pricing.js) and the selection of a bundle's components   *)
(* (bundleService.js, bundleRepository.js): what a cart costs.              *)
(*                                                                          *)
(* Money is in cents and rates are in percent.  The program computes in      *)
(* floating point; here a division rounds down, and the runs choose prices   *)
(* with which every division is exact.                                       *)
(* Times are minutes.  Every refusal of a cart, whatever its code, is one    *)
(* answer, "rejected": the callers tell none of them apart.                  *)
(***************************************************************************)
EXTENDS Integers, Sequences, FiniteSets, FiniteSetsExt

CONSTANTS
    UtcOffset,   \* the organisation's offset from UTC, in minutes
    Null         \* a field the client or the bundle leaves out

Durations == {30, 60, 90}
Rejected == [code |-> "rejected", minutes |-> 0, labor |-> 0, surcharges |-> 0,
             tax |-> 0, total |-> 0]

\* JavaScript's a ?? b.
Or(a, b) == IF a = Null THEN b ELSE a

-----------------------------------------------------------------------------
(* One service.  A service is [base, adjust: duration -> cents, headcounts, *)
(* tools, addOns]; a selection is [headcount, tools, addOns] with Null where *)
(* nothing is said.                                                          *)

Sellable(service, duration, quantity, spec) ==
    /\ duration \in Durations
    /\ quantity >= 1
    /\ Or(spec.headcount, 1) \in service.headcounts
    /\ Or(spec.tools, "provider") \in service.tools
    /\ Or(spec.addOns, {}) \subseteq service.addOns

UnitPrice(service, duration, spec) ==
    LET core == service.base + service.adjust[duration]
        more == Or(spec.headcount, 1) - 1
        price == core + (core * 6 * more) \div 10
                 - (IF Or(spec.tools, "provider") = "customer" THEN 800 ELSE 0)
                 + 1200 * Cardinality(Or(spec.addOns, {}))
    IN  IF price > 0 THEN price ELSE 0

-----------------------------------------------------------------------------
(* A bundle is [components: a sequence of [service, duration, spec], discount]. *)

\* What the client says of a component's service wins over the bundle's default.
\* A selection is keyed by service: it goes to every component with that service.
Selected(component, specs) ==
    LET of == {p \in specs : p.service = component.service}
        said == IF of = {} THEN component ELSE CHOOSE p \in of : TRUE
    IN  [service |-> component.service,
         duration |-> Or(said.duration, component.duration),
         spec |-> [headcount |-> Or(said.spec.headcount, component.spec.headcount),
                   tools |-> Or(said.spec.tools, component.spec.tools),
                   addOns |-> Or(said.spec.addOns, component.spec.addOns)]]

Selection(bundle, specs) ==
    [i \in 1..Len(bundle.components) |-> Selected(bundle.components[i], specs)]

\* Mutant: the discount is added.
DiscountedWrong(bundle, unit) == unit + (unit * bundle.discount) \div 100

Discounted(bundle, unit) == unit - (unit * bundle.discount) \div 100

-----------------------------------------------------------------------------
(* A line is [type, id, duration, quantity, spec, specs]. *)

LineOK(line, services, bundles) ==
    IF line.type = "service"
    THEN /\ line.id \in DOMAIN services
         /\ Sellable(services[line.id], line.duration, line.quantity, line.spec)
    ELSE /\ line.id \in DOMAIN bundles
         /\ line.quantity >= 1
         /\ \A i \in DOMAIN bundles[line.id].components :
              LET part == Selection(bundles[line.id], line.specs)[i] IN
              /\ part.service \in DOMAIN services
              /\ Sellable(services[part.service], part.duration, 1, part.spec)

\* What the components of a bundle come to, and how long they take.
PartsPrice(parts, services) ==
    LET Part(i) == UnitPrice(services[parts[i].service], parts[i].duration, parts[i].spec)
    IN  MapThenSumSet(Part, DOMAIN parts)

PartsMinutes(parts) ==
    LET Part(i) == parts[i].duration IN MapThenSumSet(Part, DOMAIN parts)

LinePrice(line, services, bundles) ==
    line.quantity *
      IF line.type = "service" THEN UnitPrice(services[line.id], line.duration, line.spec)
      ELSE LET bundle == bundles[line.id]
           IN  Discounted(bundle, PartsPrice(Selection(bundle, line.specs), services))

LineMinutes(line, bundles) ==
    line.quantity *
      IF line.type = "service" THEN line.duration
      ELSE PartsMinutes(Selection(bundles[line.id], line.specs))

Labor(lines, services, bundles) ==
    LET Line(i) == LinePrice(lines[i], services, bundles) IN MapThenSumSet(Line, DOMAIN lines)

Minutes(lines, bundles) ==
    LET Line(i) == LineMinutes(lines[i], bundles) IN MapThenSumSet(Line, DOMAIN lines)

-----------------------------------------------------------------------------
(* The quote. *)

OutOfArea(miles) == miles > 20
TravelFee(miles) == IF miles <= 10 THEN 0 ELSE 1500

AfterHours(minute) ==
    LET hour == ((minute + UtcOffset) \div 60) % 24 IN hour >= 19 \/ hour < 7
AfterHoursMinutes(start, minutes) ==
    Cardinality({i \in 0..(minutes - 1) : AfterHours(start + i)})

\* The priority surcharge looks at the time the client says it asked, not at the clock.
SameDay(q) == q.priority /\ q.start - q.asked < 240

Surcharges(q, minutes, labor) ==
    TravelFee(q.miles) + (IF SameDay(q) THEN 2500 ELSE 0)
        + IF minutes = 0 THEN 0
          ELSE (labor * AfterHoursMinutes(q.start, minutes)) \div (2 * minutes)

\* A tax the jurisdiction requires cannot be switched off.
TaxRefused(q, jurisdiction) == jurisdiction.required /\ q.tax = FALSE
TaxRate(q, jurisdiction) == IF jurisdiction.required \/ q.tax THEN jurisdiction.rate ELSE 0

\* What is answered, from the labor, the surcharges and the rate of the tax.
Priced(minutes, labor, extra, rate) ==
    LET tax == ((labor + extra) * rate) \div 100
    IN  [code |-> "OK", minutes |-> minutes, labor |-> labor, surcharges |-> extra,
         tax |-> tax, total |-> labor + extra + tax]

\* q is what the client sends: [lines, start, asked, miles, priority, tax]; asked is
\* Null when it says nothing, which is no date and refused before the miles are read.
Quote(q, services, bundles, jurisdiction) ==
    LET minutes == Minutes(q.lines, bundles)
        labor == Labor(q.lines, services, bundles)
    IN  CASE q.lines = <<>> \/ q.asked = Null -> Rejected
          [] q.lines # <<>> /\ q.asked # Null /\ OutOfArea(q.miles) ->
               [Rejected EXCEPT !.code = "OUT_OF_SERVICE_AREA"]
          [] OTHER ->
               IF TaxRefused(q, jurisdiction)
                  \/ \E i \in DOMAIN q.lines : ~LineOK(q.lines[i], services, bundles)
               THEN Rejected
               ELSE Priced(minutes, labor, Surcharges(q, minutes, labor), TaxRate(q, jurisdiction))
=============================================================================
