-------------------------- MODULE InternalPayroll --------------------------
(***************************************************************************)
(* contracts/src/InternalPayroll.sol: the register of base pay and the     *)
(* payments it caps at a multiple of the lowest base pay.  It reads        *)
(* membership from CoopIdentity (memberToken) and is never told of a       *)
(* revocation, so the steward's attest and revoke are steps of this        *)
(* specification.                                                          *)
(*                                                                         *)
(* _members is the set it stands for: its order is not read.  That         *)
(* lowest * ratio overflows uint256 is left out: pay would revert.         *)
(***************************************************************************)
EXTENDS CoopIdentity, FiniteSets

CONSTANTS
    BasePays,        \* values given to registerMember
    Amounts,         \* values given to pay
    Ratios,          \* values given to updateMaxRatio, times RatioScale
    InitialRatio,    \* maxRatioScaled of the constructor
    RatioScale,      \* 100
    MaxWages         \* bound: what a member is paid altogether

ASSUME PayrollAssumption ==
    /\ IsFiniteSet(Coops)
    /\ BasePays \subseteq Nat /\ Amounts \subseteq Nat /\ Ratios \subseteq Nat
    /\ RatioScale \in Nat \ {0} /\ InitialRatio \in Nat /\ InitialRatio >= RatioScale
    /\ MaxWages \in Nat

VARIABLES
    payRegistry,     \* member -> annualisedBase, 0 when not registered
    payMembers,      \* _members
    memberCount,
    lowestBasePay,
    maxRatioScaled,
    paymaster,       \* steward, of this contract
    wages            \* IERC20 balances of the members

payrollVars == << payRegistry, payMembers, memberCount, lowestBasePay,
                  maxRatioScaled, paymaster, wages >>
payVars == << now, identityVars, payrollVars >>

PayrollInit ==
    /\ payRegistry = [a \in Coops |-> 0]
    /\ payMembers = {}
    /\ memberCount = 0
    /\ lowestBasePay = 0
    /\ maxRatioScaled = InitialRatio
    /\ paymaster = StewardSafe
    /\ wages = [a \in Coops |-> 0]

onlyPaymaster(sender) == sender = paymaster

registered(a) == payRegistry[a] # 0

\* Variant of recalculateLowest that compares the other way round.
recalculateHighest(members, registry) ==
    IF members = {} THEN 0
    ELSE CHOOSE b \in {registry[m] : m \in members} : \A m \in members : b >= registry[m]

\* _recalculateLowest; bases are above zero.
recalculateLowest(members, registry) ==
    IF members = {} THEN 0
    ELSE CHOOSE b \in {registry[m] : m \in members} : \A m \in members : b <= registry[m]

registerPay(sender, member, annualisedBase) ==
    /\ onlyPaymaster(sender)
    /\ isMember(member)
    /\ ~registered(member)
    /\ annualisedBase > 0
    /\ payRegistry' = [payRegistry EXCEPT ![member] = annualisedBase]
    /\ payMembers' = payMembers \cup {member}
    /\ memberCount' = memberCount + 1
    /\ lowestBasePay' = recalculateLowest(payMembers', payRegistry')
    /\ UNCHANGED << now, identityVars, maxRatioScaled, paymaster, wages >>

\* Membership is not asked for: a member that was revoked can be taken off.
deregisterMember(sender, member) ==
    /\ onlyPaymaster(sender)
    /\ registered(member)
    /\ payRegistry' = [payRegistry EXCEPT ![member] = 0]
    /\ payMembers' = payMembers \ {member}
    /\ memberCount' = memberCount - 1
    /\ lowestBasePay' = recalculateLowest(payMembers', payRegistry')
    /\ UNCHANGED << now, identityVars, maxRatioScaled, paymaster, wages >>

maxAllowed == (lowestBasePay * maxRatioScaled) \div RatioScale

\* The payee need not be registered.
pay(sender, member, amount) ==
    /\ onlyPaymaster(sender)
    /\ isMember(member)
    /\ amount # 0
    /\ memberCount # 0 /\ lowestBasePay # 0
    /\ amount <= maxAllowed
    /\ wages[member] + amount <= MaxWages                     \* bound
    /\ wages' = [wages EXCEPT ![member] = @ + amount]
    /\ UNCHANGED << now, identityVars, payRegistry, payMembers, memberCount,
                    lowestBasePay, maxRatioScaled, paymaster >>

updateMaxRatio(sender, ratio) ==
    /\ onlyPaymaster(sender)
    /\ ratio >= RatioScale
    /\ maxRatioScaled' = ratio
    /\ UNCHANGED << now, identityVars, payRegistry, payMembers, memberCount,
                    lowestBasePay, paymaster, wages >>

transferPaymaster(sender, new) ==
    /\ onlyPaymaster(sender)
    /\ new # ZeroAddress
    /\ paymaster' = new
    /\ UNCHANGED << now, identityVars, payRegistry, payMembers, memberCount,
                    lowestBasePay, maxRatioScaled, wages >>

PayrollNext(sender) ==
    \/ \E m \in Coops, b \in BasePays : registerPay(sender, m, b)
    \/ \E m \in Coops : deregisterMember(sender, m)
    \/ \E m \in Coops, x \in Amounts : pay(sender, m, x)
    \/ \E r \in Ratios : updateMaxRatio(sender, r)
    \/ \E s \in Safes : transferPaymaster(sender, s)

PayInit == ChainInit /\ IdentityInit /\ PayrollInit

PayNext ==
    \/ Tick /\ UNCHANGED << identityVars, payrollVars >>
    \/ /\ \E sender \in Accounts, a \in Coops : attest(sender, a) \/ revoke(sender, a)
       /\ UNCHANGED << now, payrollVars >>
    \/ \E sender \in Accounts : PayrollNext(sender)

PaySpec == PayInit /\ [][PayNext]_payVars

-----------------------------------------------------------------------------
(***************************************************************************)
(* The pay ratio: no payment is above maxRatioScaled times the base pay of *)
(* anybody on the register, whatever was registered, deregistered, revoked *)
(* or attested before, and nobody is paid while the register is empty.     *)
(* pay() itself looks at one number kept beside the register.              *)
(***************************************************************************)
PayWithinRatio ==
    [][\A m \in Coops : wages'[m] # wages[m] =>
         /\ \E a \in Coops : registered(a)
         /\ \A a \in Coops : registered(a) =>
              (wages'[m] - wages[m]) * RatioScale <= payRegistry[a] * maxRatioScaled]_payVars
=============================================================================
