SPECIFICATION Spec
CONSTANT Calls <- MCCalls
INVARIANT IntegersArrive
