CONSTANTS
  MaxHeaderFields = 8
  MaxTrailerFields = 1
  MaxBodyBytes = 2
  MaxChunkCount = 3
  Base = 2
  MaxUint = 3
  Requests <- MCRequests
  Responses <- MCResponses
  RequestFaults <- MCRequestFaults
  ResponseFaults <- MCResponseFaults
  InterimResponse <- MCInterimResponse
  MaxInformationalResponses = 1
  None = None
SPECIFICATION Spec
INVARIANTS RelayInv UpstreamHears ClientHears
