SPECIFICATION Spec
CONSTANT Calls <- MCCalls
INVARIANT ArgumentsArrive
INVARIANT ResultReturns
 
INVARIANT ContainersNamed
INVARIANT ServiceReached
