---------------------------- MODULE MCRestObjects ----------------------------
(* RestObjects for all classes of the repository.                          *)
EXTENDS RestObjects, ObjectClasses

\* Read and not written: the class has no to_json, or the member is written
\* only in the build of the gateway service.
MCOneWay ==
  {<<"GW", "Device">>, <<"GW", "DeviceTransferRequest">>,
   <<"GW", "DeviceCertificateUpdateRequest">>}

\* Written and not read, in a class that has a from_json.
MCHalfRead ==
  {<<"GW", "DefaultConfiguration">>, <<"Sec", "WebToken">>, <<"FMS", "DeviceReport">>}
=============================================================================
