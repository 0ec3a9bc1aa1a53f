SPECIFICATION FairSpec
CONSTANTS
 g1=g1
 g2=g2
 g3=g3
 c1=c1
 c2=c2
 NoGuid=NoGuid
 Guid = {g1}
 Reconciler = {c1, c2}
 PageSize=1
 MaxPages=1
 Overlap=1
 MaxRequests = 1
 MaxHistory = 2
 MaxAsked=1
 Gaps = {0,2}
 Invocation={}
 Past <- NoPast
PROPERTIES CheckpointMonotone RequestKept EventuallyResolved
